----------------------------- MODULE LeaseSlots -----------------------------
(***************************************************************************)
(* Capacity leases of a node pool and the slots they reserve.  A lease is  *)
(* its id; what it asks for is fixed when its acquire attempt starts.      *)
(***************************************************************************)
EXTENDS Integers, FiniteSets

CONSTANTS
    LeaseIDs,       \* one id for every acquire attempt
    SlotsOf,        \* slots each of them asks for: TaskManagerCount * SlotsPerManager
    MaxSlots,       \* the largest request
    slotBudget,     \* leaseStore.slotBudget
    TTL             \* AcquireLeaseInput.TTL

ASSUME LeasesAssumption ==
    /\ IsFiniteSet(LeaseIDs)
    /\ MaxSlots \in Nat
    /\ SlotsOf \in [LeaseIDs -> 0 .. MaxSlots]
ASSUME BudgetAssumption == slotBudget \in Nat \ {0}
ASSUME TTLAssumption == TTL \in Nat

\* The sum of the slots of some leases, as the size of the set of their slots.
SlotSet(ls) == {u \in ls \X (1 .. MaxSlots) : u[2] <= SlotsOf[u[1]]}
Reserved(ls) == Cardinality(SlotSet(ls))

=============================================================================
