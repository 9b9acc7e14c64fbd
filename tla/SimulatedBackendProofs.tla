----------------------- MODULE SimulatedBackendProofs -----------------------
(***************************************************************************)
(* Proofs about SimulatedBackend: for any number of acquires and releases, *)
(* any budget and any restarts, the leases of one life of the process are  *)
(* the atomic pool CapacityPool.                                           *)
(***************************************************************************)
EXTENDS SimulatedBackend, FiniteSetTheorems, TLAPS

-----------------------------------------------------------------------------
(* The sum of the slots that a set of leases reserves (module LeaseSlots).  *)

\* The slots that simulated.go:60-65 adds up are finitely many.
LEMMA SlotSetFinite ==
    ASSUME NEW ls \in SUBSET LeaseIDs
    PROVE  /\ IsFiniteSet(SlotSet(ls))
           /\ Reserved(ls) \in Nat
<1>1. IsFiniteSet(ls)
    BY LeasesAssumption, FS_Subset
<1>2. IsFiniteSet(1 .. MaxSlots)
    BY LeasesAssumption, FS_Interval
<1>3. IsFiniteSet(ls \X (1 .. MaxSlots))
    BY <1>1, <1>2, FS_Product
<1>4. SlotSet(ls) \in SUBSET (ls \X (1 .. MaxSlots))
    BY DEF SlotSet
<1>5. IsFiniteSet(SlotSet(ls))
    BY <1>3, <1>4, FS_Subset
<1> QED BY <1>5, FS_CardinalityType DEF Reserved

\* Fewer leases reserve no more slots: dropping expired leases (simulated.go:53-58) or a
\* released one never makes the sum larger.
LEMMA ReservedMonotone ==
    ASSUME NEW ls \in SUBSET LeaseIDs, NEW ks \in SUBSET ls
    PROVE  Reserved(ks) <= Reserved(ls)
<1>1. SlotSet(ks) \in SUBSET SlotSet(ls)
    BY DEF SlotSet
<1> QED BY <1>1, SlotSetFinite, FS_Subset DEF Reserved

\* One more lease reserves at most its own slots more, which is what the budget check
\* of simulated.go:67 computes.
LEMMA ReservedAdd ==
    ASSUME NEW ls \in SUBSET LeaseIDs, NEW l \in LeaseIDs
    PROVE  Reserved(ls \cup {l}) <= Reserved(ls) + SlotsOf[l]
<1> DEFINE own == {l} \X (1 .. SlotsOf[l])
<1>1. SlotsOf[l] \in Nat /\ SlotsOf[l] <= MaxSlots /\ MaxSlots \in Nat
    BY LeasesAssumption
<1>2. SlotSet(ls \cup {l}) = SlotSet(ls) \cup own
    BY <1>1 DEF SlotSet
<1>3. IsFiniteSet({l}) /\ Cardinality({l}) = 1
    BY FS_Singleton
<1>4. IsFiniteSet(1 .. SlotsOf[l]) /\ Cardinality(1 .. SlotsOf[l]) = SlotsOf[l]
  <2>1. /\ IsFiniteSet(1 .. SlotsOf[l])
        /\ Cardinality(1 .. SlotsOf[l]) = IF 1 > SlotsOf[l] THEN 0 ELSE SlotsOf[l] - 1 + 1
      BY <1>1, FS_Interval, 1 \in Int, SlotsOf[l] \in Int
  <2> QED BY <2>1, <1>1
<1>5. IsFiniteSet(own) /\ Cardinality(own) = SlotsOf[l]
  <2>1. IsFiniteSet(own) /\ Cardinality(own) = Cardinality({l}) * Cardinality(1 .. SlotsOf[l])
      BY <1>3, <1>4, FS_Product
  <2> QED BY <2>1, <1>1, <1>3, <1>4
<1>6. IsFiniteSet(SlotSet(ls)) /\ Cardinality(SlotSet(ls)) \in Nat
    BY SlotSetFinite DEF Reserved
<1>7. Cardinality(SlotSet(ls) \cup own)
          = Cardinality(SlotSet(ls)) + Cardinality(own) - Cardinality(SlotSet(ls) \cap own)
    BY <1>5, <1>6, FS_Union
<1>8. SlotSet(ls) \cap own \in SUBSET own
    OBVIOUS
<1>9. Cardinality(SlotSet(ls) \cap own) \in Nat
    BY <1>5, <1>8, FS_Subset, FS_CardinalityType
<1>10. Cardinality(SlotSet(ls) \cup own) <= Cardinality(SlotSet(ls)) + SlotsOf[l]
  <2> HIDE DEF own
  <2> QED BY <1>1, <1>5, <1>6, <1>7, <1>9
<1> QED BY <1>2, <1>10 DEF Reserved

\* Nothing reserves nothing.
LEMMA ReservedNone == Reserved({}) = 0
<1>1. SlotSet({}) = {}
    BY DEF SlotSet
<1> QED BY <1>1, FS_EmptySet DEF Reserved

-----------------------------------------------------------------------------
(* The inductive invariant.                                                *)

Places == {"new", "held", "lost", "refused", "releasing", "released", "forgotten"}

\* The map fits the budget, and holds every lease that is in force.
SimulatedInv ==
    /\ leases \subseteq LeaseIDs
    /\ expires \in [LeaseIDs -> Nat]
    /\ pc \in [LeaseIDs -> Places]
    /\ now \in Nat
    /\ Reserved(leases) <= slotBudget
    /\ inForce \subseteq leases

\* The empty map of a new process (simulated.go:31-37) satisfies the invariant.
LEMMA SimulatedInit == Init => SimulatedInv
<1> SUFFICES ASSUME Init PROVE SimulatedInv
    OBVIOUS
<1>1. Reserved(leases) <= slotBudget
    BY ReservedNone, BudgetAssumption DEF Init
<1> QED BY <1>1 DEF Init, SimulatedInv, inForce, Places

\* What an acquire keeps after the purge (simulated.go:53-58) includes all leases in
\* force, and reserves what the sum of the remaining ones says.
LEMMA PurgeKeepsInForce ==
    ASSUME SimulatedInv
    PROVE  /\ unexpired(leases) \in SUBSET LeaseIDs
           /\ inForce \subseteq unexpired(leases)
           /\ Reserved(unexpired(leases)) \in Nat
           /\ Reserved(unexpired(leases)) <= slotBudget
<1>1. unexpired(leases) \in SUBSET leases /\ leases \in SUBSET LeaseIDs
    BY DEF SimulatedInv, unexpired
<1>2. inForce \subseteq unexpired(leases)
    BY DEF SimulatedInv, unexpired, inForce
<1>3. /\ Reserved(unexpired(leases)) <= Reserved(leases)
      /\ Reserved(unexpired(leases)) \in Nat /\ Reserved(leases) \in Nat
    BY <1>1, ReservedMonotone, SlotSetFinite
<1> QED BY <1>1, <1>2, <1>3, BudgetAssumption DEF SimulatedInv

\* An acquire keeps the invariant, and grants at most the lease it is for.
LEMMA AcquireKeepsInv ==
    ASSUME SimulatedInv, NEW l \in LeaseIDs, AcquireCapacityLease(l)
    PROVE  SimulatedInv' /\ inForce' \in {inForce, inForce \cup {l}}
<1> DEFINE kept == unexpired(leases)
<1>1. /\ kept \in SUBSET LeaseIDs /\ inForce \subseteq kept
      /\ Reserved(kept) \in Nat /\ Reserved(kept) <= slotBudget
    BY PurgeKeepsInForce
<1>2. pc[l] = "new" /\ now' = now
    BY DEF AcquireCapacityLease
<1>3. SlotsOf[l] \in Nat /\ slotBudget \in Nat
    BY LeasesAssumption, BudgetAssumption
<1>4. CASE /\ Reserved(kept) + SlotsOf[l] <= slotBudget
           /\ leases' = kept \cup {l}
           /\ expires' = [expires EXCEPT ![l] = now + TTL]
           /\ \E end \in {"held", "lost"} : Goto(l, end)
  <2>1. Reserved(kept \cup {l}) \in Nat /\ Reserved(kept \cup {l}) <= Reserved(kept) + SlotsOf[l]
      BY <1>1, ReservedAdd, SlotSetFinite, kept \cup {l} \in SUBSET LeaseIDs
  <2>2. Reserved(leases') <= slotBudget
    <3> HIDE DEF kept
    <3> QED BY <1>1, <1>3, <1>4, <2>1
  <2>3. expires' \in [LeaseIDs -> Nat] /\ pc' \in [LeaseIDs -> Places]
      BY <1>4, TTLAssumption DEF SimulatedInv, Goto, Places
  <2>4. inForce' \in {inForce, inForce \cup {l}}
    <3>1. l \notin inForce
        BY <1>2 DEF inForce
    <3>2. \A m \in LeaseIDs \ {l} : m \in inForce' <=> m \in inForce
        BY <1>2, <1>4 DEF inForce, Goto, SimulatedInv
    <3>3. inForce \subseteq LeaseIDs /\ inForce' \subseteq LeaseIDs
        BY DEF inForce
    <3> QED BY <3>1, <3>2, <3>3
  <2>5. Reserved(leases)' = Reserved(leases')
      BY DEF Reserved, SlotSet
  <2> QED BY <1>1, <1>2, <1>4, <2>2, <2>3, <2>4, <2>5 DEF SimulatedInv
<1>5. CASE /\ leases' = kept
           /\ Goto(l, "refused")
           /\ UNCHANGED expires
  <2>1. inForce' = inForce
      BY <1>2, <1>5 DEF inForce, Goto, SimulatedInv
  <2>2. pc' \in [LeaseIDs -> Places]
      BY <1>5 DEF SimulatedInv, Goto, Places
  <2>3. Reserved(leases)' = Reserved(leases')
      BY DEF Reserved, SlotSet
  <2> QED BY <1>1, <1>2, <1>5, <2>1, <2>2, <2>3 DEF SimulatedInv
<1> QED BY <1>4, <1>5 DEF AcquireCapacityLease

\* No other step puts a lease in force, and the invariant survives it: a release drops
\* one lease, a restart all of them, and time only lets them expire.
LEMMA OtherStepKeepsInv ==
    ASSUME SimulatedInv, [Next]_vars, ~\E l \in LeaseIDs : AcquireCapacityLease(l)
    PROVE  SimulatedInv' /\ inForce' \in SUBSET inForce
<1>1. \A ls \in SUBSET leases : Reserved(ls) <= slotBudget
  <2> TAKE ls \in SUBSET leases
  <2>1. leases \in SUBSET LeaseIDs /\ ls \in SUBSET LeaseIDs
      BY DEF SimulatedInv
  <2>2. Reserved(ls) <= Reserved(leases) /\ Reserved(ls) \in Nat /\ Reserved(leases) \in Nat
      BY <2>1, ReservedMonotone, SlotSetFinite
  <2> QED BY <2>2, BudgetAssumption DEF SimulatedInv
<1>2. Reserved(leases)' = Reserved(leases')
    BY DEF Reserved, SlotSet
<1>3. ASSUME NEW l \in LeaseIDs, ReleaseCapacityLease(l)
      PROVE  SimulatedInv' /\ inForce' \in SUBSET inForce
  <2>1. leases' \in SUBSET leases /\ UNCHANGED <<expires, now>>
      BY <1>3 DEF ReleaseCapacityLease
  <2>2. pc' \in [LeaseIDs -> Places] /\ inForce' \subseteq inForce \ {l}
      BY <1>3 DEF ReleaseCapacityLease, Goto, SimulatedInv, inForce, Places
  <2>3. inForce' \subseteq leases'
      BY <1>3, <2>2 DEF ReleaseCapacityLease, SimulatedInv
  <2> QED BY <1>1, <1>2, <2>1, <2>2, <2>3 DEF SimulatedInv
<1>4. CASE Restart
  <2>1. leases' = {} /\ UNCHANGED <<expires, now>>
      BY <1>4 DEF Restart
  <2>2. pc' \in [LeaseIDs -> Places] /\ inForce' = {}
      BY <1>4 DEF Restart, SimulatedInv, inForce, Places
  <2> QED BY <1>1, <1>2, <2>1, <2>2 DEF SimulatedInv
<1>5. CASE Tick
    BY <1>1, <1>2, <1>5 DEF Tick, leaseVars, SimulatedInv, inForce
<1>6. CASE UNCHANGED <<leaseVars, now>>
    BY <1>1, <1>2, <1>6 DEF leaseVars, SimulatedInv, inForce
<1>7. \/ \E l \in LeaseIDs : ReleaseCapacityLease(l)
      \/ Restart \/ Tick \/ UNCHANGED <<leaseVars, now>>
    BY DEF Next, vars, ApplyDeployment, ObserveDeployment, SetJobState
<1> QED BY <1>3, <1>4, <1>5, <1>6, <1>7

\* In every reachable state the map fits the budget and holds what is in force.
THEOREM SimulatedInvariant == Spec => []SimulatedInv
<1>1. SimulatedInv /\ [Next]_vars => SimulatedInv'
    BY AcquireKeepsInv, OtherStepKeepsInv
<1> QED BY <1>1, SimulatedInit, PTL DEF Spec

\* The simulated leases implement the atomic pool, across restarts of the process: a
\* restart lets all leases lapse at once (simulated.go:46-94).
THEOREM SimulatedPoolImplemented == Spec => SimulatedImplementsPool
<1>1. Init => Pool!PoolInit
    BY DEF Init, Pool!PoolInit, inForce
<1>2. SimulatedInv /\ [Next]_vars => [Pool!PoolNext]_inForce
  <2> SUFFICES ASSUME SimulatedInv, [Next]_vars PROVE [Pool!PoolNext]_inForce
      OBVIOUS
  <2>1. CASE inForce' \in SUBSET inForce
      BY <2>1 DEF Pool!PoolNext, Pool!Lapse
  <2>2. CASE inForce' \notin SUBSET inForce
    <3>1. PICK l \in LeaseIDs : AcquireCapacityLease(l)
        BY <2>2, OtherStepKeepsInv
    <3>2. SimulatedInv' /\ inForce' = inForce \cup {l} /\ l \notin inForce
        BY <2>2, <3>1, AcquireKeepsInv
    <3>3. inForce' \in SUBSET leases' /\ leases' \in SUBSET LeaseIDs
        BY <3>2 DEF SimulatedInv
    <3>4. /\ Reserved(inForce') <= Reserved(leases')
          /\ Reserved(inForce') \in Nat /\ Reserved(leases') \in Nat
        BY <3>3, ReservedMonotone, SlotSetFinite
    <3>5. Reserved(leases') <= slotBudget
        BY <3>2 DEF SimulatedInv, Reserved, SlotSet
    <3>6. Pool!Reserved(inForce') <= slotBudget
      <4>1. ASSUME NEW ls PROVE Pool!Reserved(ls) = Reserved(ls)
        <5>1. Pool!SlotSet(ls) = SlotSet(ls)
            BY DEF SlotSet, Pool!SlotSet
        <5> QED BY <5>1 DEF Reserved, Pool!Reserved, Cardinality, Pool!Cardinality
      <4>2. Reserved(inForce') <= slotBudget
          BY <3>4, <3>5, BudgetAssumption
      <4> QED BY <4>1, <4>2
    <3> QED BY <3>2, <3>6 DEF Pool!PoolNext, Pool!Grant
  <2> QED BY <2>1, <2>2
<1> QED BY <1>1, <1>2, SimulatedInvariant, PTL DEF Spec, Pool!PoolSpec, SimulatedImplementsPool

\* Once applied, the entry in the map, if a restart has left one, is about the version of
\* the current rollout: a change of the job's state ends the rollout (simulated.go:96-148).
AppliedIsRolling ==
    phase = "applied" /\ runtime # Null => runtime.version = rolling

\* No gate passes a version that is not running: an observation looks at the runtime, and
\* what it finds there is the version the rollout applied, for any versions, any number of
\* applies, and restarts anywhere between the apply and the observation.
THEOREM SimulatedGateHolds == Spec => SimulatedGatePassesWhatRuns
<1> DEFINE Passing == (phase = "applied" /\ phase' = "passed")
                         => runtime # Null /\ runtime.version = rolling /\ runtime.state = "RUNNING"
<1>1. Init => AppliedIsRolling
    BY DEF Init, AppliedIsRolling
<1>2. ASSUME AppliedIsRolling, [Next]_vars
      PROVE  AppliedIsRolling' /\ Passing
  <2>1. ASSUME NEW l \in LeaseIDs, AcquireCapacityLease(l) \/ ReleaseCapacityLease(l)
        PROVE  AppliedIsRolling' /\ Passing
      BY <1>2, <2>1 DEF AcquireCapacityLease, ReleaseCapacityLease, runtimeVars, AppliedIsRolling
  <2>2. ASSUME NEW v \in Versions, ApplyDeployment(v)
        PROVE  AppliedIsRolling' /\ Passing
      BY <2>2 DEF ApplyDeployment, AppliedIsRolling
  <2>3. CASE ObserveDeployment
      BY <1>2, <2>3 DEF ObserveDeployment, observedHealth, AppliedIsRolling
  <2>4. ASSUME NEW state \in JobStates, SetJobState(state)
        PROVE  AppliedIsRolling' /\ Passing
      BY <2>4 DEF SetJobState, AppliedIsRolling
  <2>5. CASE Restart
      BY <1>2, <2>5 DEF Restart, AppliedIsRolling
  <2>6. CASE Tick
      BY <1>2, <2>6 DEF Tick, runtimeVars, AppliedIsRolling
  <2>7. CASE UNCHANGED vars
      BY <1>2, <2>7 DEF vars, runtimeVars, AppliedIsRolling
  <2> QED BY <1>2, <2>1, <2>2, <2>3, <2>4, <2>5, <2>6, <2>7 DEF Next
<1> QED BY <1>1, <1>2, PTL DEF Spec, SimulatedGatePassesWhatRuns

=============================================================================
