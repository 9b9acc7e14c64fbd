---------------------------- MODULE CapacityPool ----------------------------
(***************************************************************************)
(* What the capacity leases of one node pool promise to the rollouts, with *)
(* the ConfigMap, its concurrent writers and the clocks left out: a lease  *)
(* is granted only if it fits the slot budget beside all leases in force,  *)
(* and it stays in force until it is given back or lapses.  CapacityLeases *)
(* implements this specification.                                          *)
(***************************************************************************)
EXTENDS LeaseSlots

VARIABLE inForce    \* leases granted, not given back and not lapsed

Grant(l) ==
    /\ l \notin inForce
    /\ Reserved(inForce \cup {l}) <= slotBudget
    /\ inForce' = inForce \cup {l}

\* A lease is given back, or some leases lapse.
Lapse == \E ls \in SUBSET inForce : inForce' = ls

PoolInit == inForce = {}
PoolNext == Lapse \/ \E l \in LeaseIDs : Grant(l)
PoolSpec == PoolInit /\ [][PoolNext]_inForce

=============================================================================
