-------------------------- MODULE SimulatedBackend --------------------------
(***************************************************************************)
(* The simulated backend (activities/simulated.go) that cmd/worker uses in *)
(* the place of Kubernetes, in one worker process: the leases of one node  *)
(* pool and the runtime of one deployment, in maps behind a mutex, so that *)
(* every activity is one step.  The maps live in memory: when the process  *)
(* restarts they are empty, and the workflows do not notice.               *)
(*                                                                         *)
(* As in CapacityLeases, an acquire attempt is named by the lease id that  *)
(* it draws.  The deployment's actor runs one operation at a time.         *)
(***************************************************************************)
EXTENDS LeaseSlots

CONSTANTS
    Null,
    Versions,       \* versions of the deployment
    Failing,        \* those whose image digest contains "deadbeef"
    JobStates,      \* the states SetJobState is asked for
    MaxTime,        \* bound: the last instant
    MaxApplies,     \* bound: the highest generation
    MaxRestarts     \* bound: how often the process restarts

VARIABLES
    leases,         \* ids of the leases in the map
    expires,        \* ExpiresAt of each lease
    pc,             \* where each lease is in its life
    now,            \* the clock of the process
    runtime,        \* the deployment's entry in the map, Null if there is none
    rolling,        \* the version the current rollout applies
    phase,          \* how far that rollout has got
    restarts        \* how often the process has restarted

leaseVars == <<leases, expires, pc>>
runtimeVars == <<runtime, rolling, phase>>
vars == <<leaseVars, runtimeVars, now, restarts>>

Goto(l, place) == pc' = [pc EXCEPT ![l] = place]

-----------------------------------------------------------------------------
(* Capacity leases.                                                        *)

\* Mutant: drops a lease that expires at this very instant.
unexpiredStrictly(ls) == {l \in ls : expires[l] > now}

\* Acquire deletes the leases that have expired.
unexpired(ls) == {l \in ls : expires[l] >= now}

\* The lease is granted, or granted to a workflow that never learns of it, or the
\* budget is exhausted.
AcquireCapacityLease(l) ==
    LET kept == unexpired(leases)
    IN  /\ pc[l] = "new"
        /\ \/ /\ Reserved(kept) + SlotsOf[l] <= slotBudget
              /\ leases' = kept \cup {l}
              /\ expires' = [expires EXCEPT ![l] = now + TTL]
              /\ \E end \in {"held", "lost"} : Goto(l, end)
           \/ /\ Reserved(kept) + SlotsOf[l] > slotBudget
              /\ leases' = kept
              /\ Goto(l, "refused")
              /\ UNCHANGED expires
        /\ UNCHANGED <<runtimeVars, now, restarts>>

\* Deleting what is not there is no error; if the answer is lost, Temporal asks again.
ReleaseCapacityLease(l) ==
    /\ pc[l] \in {"held", "releasing"}
    /\ leases' = leases \ {l}
    /\ \E end \in {"released", "releasing"} : Goto(l, end)
    /\ UNCHANGED <<expires, runtimeVars, now, restarts>>

-----------------------------------------------------------------------------
(* The runtime.                                                            *)

\* The entry of a key that is not in the map is the zero value.
entry == IF runtime = Null THEN [version |-> Null, state |-> "", generation |-> 0] ELSE runtime

\* A rollout applies a version, again if the answer to the last call was lost.
ApplyDeployment(v) ==
    /\ phase = "applying" => v = rolling
    /\ entry.generation < MaxApplies
    /\ runtime' = [version |-> v, state |-> "RUNNING", generation |-> entry.generation + 1]
    /\ rolling' = v
    /\ phase' \in {"applied", "applying"}
    /\ UNCHANGED <<leaseVars, now, restarts>>

\* Mutant: judges the image it is asked about and looks nothing up.
imageHealth(v) == IF v \in Failing THEN "failed" ELSE "passed"

\* A version that is not in the runtime is an error, which fails the rollout as well.
observedHealth(v) ==
    IF runtime = Null \/ v \in Failing \/ runtime.state # "RUNNING" THEN "failed" ELSE "passed"

ObserveDeployment ==
    /\ phase = "applied"
    /\ phase' = observedHealth(rolling)
    /\ UNCHANGED <<leaseVars, runtime, rolling, now, restarts>>

\* Suspend and resume, between rollouts; a rollback leaves its version unobserved.
SetJobState(state) ==
    /\ phase # "applying"
    /\ runtime' = [entry EXCEPT !.state = state]
    /\ phase' = "idle"
    /\ UNCHANGED <<leaseVars, rolling, now, restarts>>

-----------------------------------------------------------------------------

\* The process restarts with empty maps; the rollouts go on.
Restart ==
    /\ restarts < MaxRestarts
    /\ restarts' = restarts + 1
    /\ leases' = {}
    /\ pc' = [l \in LeaseIDs |-> IF pc[l] = "held" THEN "forgotten" ELSE pc[l]]
    /\ runtime' = Null
    /\ UNCHANGED <<expires, rolling, phase, now>>

Tick ==
    /\ now < MaxTime
    /\ now' = now + 1
    /\ UNCHANGED <<leaseVars, runtimeVars, restarts>>

Init ==
    /\ leases = {}
    /\ expires = [l \in LeaseIDs |-> 0]
    /\ pc = [l \in LeaseIDs |-> "new"]
    /\ now = 0
    /\ runtime = Null
    /\ rolling = Null
    /\ phase = "idle"
    /\ restarts = 0

Next ==
    \/ \E l \in LeaseIDs : AcquireCapacityLease(l) \/ ReleaseCapacityLease(l)
    \/ \E v \in Versions : ApplyDeployment(v)
    \/ ObserveDeployment
    \/ \E state \in JobStates : SetJobState(state)
    \/ Restart
    \/ Tick

Spec == Init /\ [][Next]_vars

-----------------------------------------------------------------------------
(* Properties.                                                             *)

\* Leases this process has granted, that are held and have not expired.
inForce == {l \in LeaseIDs : pc[l] = "held" /\ expires[l] >= now}

\* Within the life of a process the simulated leases are an atomic pool of capacity,
\* as the durable ones are over all restarts (simulated.go:46-94).
Pool == INSTANCE CapacityPool
SimulatedImplementsPool == Pool!PoolSpec

\* A gate passes only if the version that the rollout applied is what the runtime
\* runs at that moment, wherever a restart falls (simulated.go:96-148).
SimulatedGatePassesWhatRuns ==
    [][(phase = "applied" /\ phase' = "passed")
        => runtime # Null /\ runtime.version = rolling /\ runtime.state = "RUNNING"]_vars

=============================================================================
