-------------------------- MODULE MCCapacityLeases --------------------------
(* A node pool of two slots, three acquire attempts: two small and one large,    *)
(* with either of the two backends a worker can be built with.                   *)
EXTENDS CapacityLeases

CONSTANTS l1, l2, l3, Null, v1, v2, Versions, Failing, JobStates, MaxApplies, MaxRestarts

VARIABLES backend, simLeases, simExpires, simPc, simNow, runtime, rolling, phase, restarts

Simulated == INSTANCE SimulatedBackend WITH
    leases <- simLeases, expires <- simExpires, pc <- simPc, now <- simNow

simVars == <<simLeases, simExpires, simPc, simNow, runtime, rolling, phase, restarts>>

MCLeaseIDs == {l1, l2, l3}
MCSlotsOf == [l \in MCLeaseIDs |-> IF l = l3 THEN 2 ELSE 1]

MCInit == backend \in {"kubernetes", "simulated"} /\ Init /\ Simulated!Init

MCNext ==
    /\ UNCHANGED backend
    /\ \/ backend = "kubernetes" /\ Next /\ UNCHANGED simVars
       \/ backend = "simulated" /\ Simulated!Next /\ UNCHANGED vars

MCSpec == MCInit /\ [][MCNext]_<<backend, vars, simVars>>

\* Module SimulatedBackend: its leases are an atomic pool (simulated.go:46-94), and a
\* gate passes only what runs (simulated.go:96-148).
SimulatedImplementsPool == Simulated!SimulatedImplementsPool
SimulatedGatePassesWhatRuns == Simulated!SimulatedGatePassesWhatRuns

=============================================================================
