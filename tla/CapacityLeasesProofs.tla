------------------------ MODULE CapacityLeasesProofs ------------------------
(***************************************************************************)
(* Proofs about CapacityLeases: for any number of concurrent acquires and  *)
(* releases, any clock skew and any budget, a granted lease stays stored   *)
(* while it is in force, what is in force fits the budget, and the store   *)
(* implements the atomic pool CapacityPool.                                *)
(***************************************************************************)
EXTENDS CapacityLeases, FiniteSetTheorems, TLAPS

-----------------------------------------------------------------------------
(* The sum of the slots that a set of leases reserves (module LeaseSlots).  *)

\* The slots that leases.go:57-66 adds up are finitely many.
LEMMA SlotSetFinite ==
    ASSUME NEW ls \in SUBSET LeaseIDs
    PROVE  /\ IsFiniteSet(SlotSet(ls))
           /\ Reserved(ls) \in Nat
<1>1. IsFiniteSet(ls)
    BY LeasesAssumption, FS_Subset
<1>2. IsFiniteSet(1 .. MaxSlots)
    BY LeasesAssumption, FS_Interval
<1>3. IsFiniteSet(ls \X (1 .. MaxSlots))
    BY <1>1, <1>2, FS_Product
<1>4. SlotSet(ls) \in SUBSET (ls \X (1 .. MaxSlots))
    BY DEF SlotSet
<1>5. IsFiniteSet(SlotSet(ls))
    BY <1>3, <1>4, FS_Subset
<1> QED BY <1>5, FS_CardinalityType DEF Reserved

\* Fewer leases reserve no more slots: dropping expired leases (leases.go:59-62) or a
\* released one never makes the sum larger.
LEMMA ReservedMonotone ==
    ASSUME NEW ls \in SUBSET LeaseIDs, NEW ks \in SUBSET ls
    PROVE  Reserved(ks) <= Reserved(ls)
<1>1. SlotSet(ks) \in SUBSET SlotSet(ls)
    BY DEF SlotSet
<1> QED BY <1>1, SlotSetFinite, FS_Subset DEF Reserved

\* One more lease reserves at most its own slots more, which is what the budget check
\* of leases.go:65 computes.
LEMMA ReservedAdd ==
    ASSUME NEW ls \in SUBSET LeaseIDs, NEW l \in LeaseIDs
    PROVE  Reserved(ls \cup {l}) <= Reserved(ls) + SlotsOf[l]
<1> DEFINE own == {l} \X (1 .. SlotsOf[l])
<1>1. SlotsOf[l] \in Nat /\ SlotsOf[l] <= MaxSlots /\ MaxSlots \in Nat
    BY LeasesAssumption
<1>2. SlotSet(ls \cup {l}) = SlotSet(ls) \cup own
    BY <1>1 DEF SlotSet
<1>3. IsFiniteSet({l}) /\ Cardinality({l}) = 1
    BY FS_Singleton
<1>4. IsFiniteSet(1 .. SlotsOf[l]) /\ Cardinality(1 .. SlotsOf[l]) = SlotsOf[l]
  <2>1. /\ IsFiniteSet(1 .. SlotsOf[l])
        /\ Cardinality(1 .. SlotsOf[l]) = IF 1 > SlotsOf[l] THEN 0 ELSE SlotsOf[l] - 1 + 1
      BY <1>1, FS_Interval, 1 \in Int, SlotsOf[l] \in Int
  <2> QED BY <2>1, <1>1
<1>5. IsFiniteSet(own) /\ Cardinality(own) = SlotsOf[l]
  <2>1. IsFiniteSet(own) /\ Cardinality(own) = Cardinality({l}) * Cardinality(1 .. SlotsOf[l])
      BY <1>3, <1>4, FS_Product
  <2> QED BY <2>1, <1>1, <1>3, <1>4
<1>6. IsFiniteSet(SlotSet(ls)) /\ Cardinality(SlotSet(ls)) \in Nat
    BY SlotSetFinite DEF Reserved
<1>7. Cardinality(SlotSet(ls) \cup own)
          = Cardinality(SlotSet(ls)) + Cardinality(own) - Cardinality(SlotSet(ls) \cap own)
    BY <1>5, <1>6, FS_Union
<1>8. SlotSet(ls) \cap own \in SUBSET own
    OBVIOUS
<1>9. Cardinality(SlotSet(ls) \cap own) \in Nat
    BY <1>5, <1>8, FS_Subset, FS_CardinalityType
<1>10. Cardinality(SlotSet(ls) \cup own) <= Cardinality(SlotSet(ls)) + SlotsOf[l]
  <2> HIDE DEF own
  <2> QED BY <1>1, <1>5, <1>6, <1>7, <1>9
<1> QED BY <1>2, <1>10 DEF Reserved

\* Nothing reserves nothing.
LEMMA ReservedNone == Reserved({}) = 0
<1>1. SlotSet({}) = {}
    BY DEF SlotSet
<1> QED BY <1>1, FS_EmptySet DEF Reserved

-----------------------------------------------------------------------------
(* The inductive invariant.                                                *)

\* An empty store satisfies the invariant.
LEMMA LeaseInit == Init => LeaseInv
<1> SUFFICES ASSUME Init PROVE LeaseInv
    OBVIOUS
<1>1. TypeOK
  <2>1. 0 \in 0 .. MaxTime /\ 0 \in 0 .. MaxTries - 1
      BY TimesAssumption, TTLAssumption, TriesAssumption
  <2> QED BY <2>1 DEF Init, TypeOK, Places
<1>2. Reserved(stored) <= slotBudget
    BY ReservedNone, BudgetAssumption DEF Init
<1> QED BY <1>1, <1>2 DEF Init, LeaseInv, DataFits, PlanIsCurrent, SavedByItself,
                          GrantedIsStored, inForce

\* The budget check of acquire (leases.go:54-69): whatever is planned on top of `data'
\* fits, adds only l and drops only what some clock has seen expire.
LEMMA DecideFits ==
    ASSUME TypeOK, NEW l \in LeaseIDs, NEW version \in Nat, NEW data \in SUBSET LeaseIDs,
           l \notin data, Decide(l, version, data)
    PROVE  \/ \E kept \in SUBSET data :
                 /\ Prepare(l, "save", version, kept \cup {l})
                 /\ Reserved(kept \cup {l}) <= slotBudget
                 /\ \A m \in data \ kept : expires[m] < now + Skew
           \/ EndTry(l, "refused", 0)
<1>1. PICK clock \in clocks :
          LET kept == unexpired(data, clock)
          IN  \/ fits(l, kept) /\ Prepare(l, "save", version, kept \cup {l})
              \/ ~fits(l, kept) /\ EndTry(l, "refused", 0)
    BY DEF Decide
<1> DEFINE kept == unexpired(data, clock)
<1>2. kept \in SUBSET data /\ kept \in SUBSET LeaseIDs
    BY DEF unexpired
<1>3. \A m \in data \ kept : expires[m] < now + Skew
    BY TimesAssumption, TTLAssumption DEF unexpired, TypeOK, clocks
<1>4. CASE fits(l, kept) /\ Prepare(l, "save", version, kept \cup {l})
  <2>1. Reserved(kept) + SlotsOf[l] <= slotBudget
      BY <1>2, <1>4 DEF fits
  <2>2. Reserved(kept) \in Nat /\ Reserved(kept \cup {l}) \in Nat /\ SlotsOf[l] \in Nat
      BY <1>2, SlotSetFinite, LeasesAssumption
  <2>3. Reserved(kept \cup {l}) <= Reserved(kept) + SlotsOf[l]
      BY <1>2, ReservedAdd
  <2>4. Reserved(kept \cup {l}) <= slotBudget
      BY <2>1, <2>2, <2>3, BudgetAssumption
  <2> QED BY <1>2, <1>3, <1>4, <2>4
<1>5. CASE ~fits(l, kept) /\ EndTry(l, "refused", 0)
    BY <1>5
<1> QED BY <1>1, <1>4, <1>5

\* A try that ends without a write (a conflict, a failure, a refusal) keeps the invariant.
LEMMA EndTryKeepsInv ==
    ASSUME LeaseInv, NEW l \in LeaseIDs, NEW place \in Places, NEW n \in 0 .. MaxTries - 1,
           EndTry(l, place, n), UNCHANGED <<configMap, now, expires>>,
           place \notin {"held", "save", "update"},
           place \in {"get", "refused"} => pc[l] \in {"get", "save"},
           place \notin {"new", "create"},
           place = "released" => l \notin stored
    PROVE  LeaseInv'
<1> USE DEF EndTry, Goto, configMap, LeaseInv
<1>1. TypeOK'
    BY DEF TypeOK
<1>2. DataFits'
    BY DEF TypeOK, DataFits, Reserved, SlotSet
<1>3. PlanIsCurrent'
    BY DEF TypeOK, PlanIsCurrent
<1>4. SavedByItself'
    BY DEF TypeOK, SavedByItself
<1>5. GrantedIsStored'
    BY DEF TypeOK, GrantedIsStored, inForce
<1> QED BY <1>1, <1>2, <1>3, <1>4, <1>5

\* A lease moves on without touching its locals or the store: an attempt begins, sees
\* that the ConfigMap is missing or was just created, or a release begins.
LEMMA GotoKeepsInv ==
    ASSUME LeaseInv, NEW l \in LeaseIDs, NEW place \in {"get", "create", "list"},
           Goto(l, place), UNCHANGED <<configMap, now, attempt>>,
           \/ expires' = expires
           \/ pc[l] = "new" /\ \E clock \in clocks : expires' = [expires EXCEPT ![l] = clock + TTL],
           place # "list" => pc[l] \in {"new", "get", "create"}
    PROVE  LeaseInv'
<1> USE DEF Goto, configMap, attempt, LeaseInv
<1>1. TypeOK'
  <2>1. expires' \in [LeaseIDs -> Nat]
      BY TimesAssumption, TTLAssumption DEF TypeOK, clocks
  <2> QED BY <2>1 DEF TypeOK, Places
<1>2. DataFits'
    BY DEF TypeOK, DataFits, Reserved, SlotSet
<1>3. PlanIsCurrent'
    BY DEF TypeOK, PlanIsCurrent, SavedByItself
<1>4. SavedByItself'
    BY DEF TypeOK, SavedByItself
<1>5. GrantedIsStored'
    BY DEF TypeOK, GrantedIsStored, inForce
<1> QED BY <1>1, <1>2, <1>3, <1>4, <1>5

\* Preparing a save on top of the data just read keeps the invariant.
LEMMA PrepareSaveKeepsInv ==
    ASSUME LeaseInv, NEW l \in LeaseIDs, NEW kept \in SUBSET stored,
           pc[l] \in {"get", "create"},
           Prepare(l, "save", resourceVersion', kept \cup {l}),
           Reserved(kept \cup {l}) <= slotBudget,
           \A m \in stored \ kept : expires[m] < now + Skew,
           UNCHANGED <<stored, now, expires>>,
           exists' = TRUE,
           resourceVersion' \in Nat, resourceVersion' >= resourceVersion
    PROVE  LeaseInv'
<1> USE DEF Prepare, Goto, LeaseInv
<1>1. TypeOK'
    BY DEF TypeOK, Places
<1>2. DataFits'
    BY DEF TypeOK, DataFits, Reserved, SlotSet
<1>3. PlanIsCurrent'
    BY DEF TypeOK, PlanIsCurrent
<1>4. SavedByItself'
    BY DEF TypeOK, SavedByItself
<1>5. GrantedIsStored'
    BY DEF TypeOK, GrantedIsStored, inForce
<1> QED BY <1>1, <1>2, <1>3, <1>4, <1>5

\* load and create, whose read and decision are one step.
LEMMA LoadKeepsInv ==
    ASSUME LeaseInv, NEW l \in LeaseIDs, load(l) \/ create(l)
    PROVE  LeaseInv'
<1>1. CASE load(l) /\ ~exists
    BY <1>1, GotoKeepsInv DEF load, configMap
<1>2. CASE create(l) /\ exists
    BY <1>2, GotoKeepsInv DEF create, configMap
<1>3. CASE (load(l) /\ exists) \/ (create(l) /\ ~exists)
  <2>1. /\ pc[l] \in {"get", "create"} /\ Decide(l, resourceVersion', stored)
        /\ UNCHANGED <<stored, now, expires>>
        /\ exists' = TRUE
        /\ resourceVersion' \in Nat /\ resourceVersion' >= resourceVersion
    <3>1. CASE load(l) /\ exists
      <4>1. Decide(l, resourceVersion, stored) /\ resourceVersion' = resourceVersion
          BY <3>1 DEF load, configMap
      <4> QED BY <3>1, <4>1 DEF load, configMap, LeaseInv, TypeOK
    <3>2. CASE create(l) /\ ~exists
      <4>1. Decide(l, resourceVersion', {}) /\ stored = {}
          BY <3>2 DEF create, LeaseInv, SavedByItself
      <4>2. Decide(l, resourceVersion', stored)
          BY <4>1
      <4>3. resourceVersion \in Nat
          BY DEF LeaseInv, TypeOK
      <4>4. /\ pc[l] = "create" /\ exists' = TRUE /\ UNCHANGED <<stored, now, expires>>
            /\ resourceVersion' = resourceVersion + 1
          BY <3>2 DEF create
      <4> QED BY <4>2, <4>3, <4>4
    <3> QED BY <1>3, <3>1, <3>2
  <2>2. l \notin stored /\ stored \in SUBSET LeaseIDs
      BY <2>1 DEF LeaseInv, SavedByItself, TypeOK
  <2>3. CASE \E kept \in SUBSET stored :
                 /\ Prepare(l, "save", resourceVersion', kept \cup {l})
                 /\ Reserved(kept \cup {l}) <= slotBudget
                 /\ \A m \in stored \ kept : expires[m] < now + Skew
      BY <2>1, <2>3, PrepareSaveKeepsInv
  <2>4. CASE EndTry(l, "refused", 0)
    <3> USE DEF EndTry, Goto, LeaseInv
    <3>0. 0 \in 0 .. MaxTries - 1
        BY TriesAssumption
    <3>1. TypeOK'
        BY <2>1, <2>4, <3>0 DEF TypeOK, Places
    <3>2. DataFits'
        BY <2>1, <2>4 DEF TypeOK, DataFits, Reserved, SlotSet
    <3>3. PlanIsCurrent'
        BY <2>1, <2>4 DEF TypeOK, PlanIsCurrent
    <3>4. SavedByItself'
        BY <2>1, <2>2, <2>4 DEF TypeOK, SavedByItself
    <3>5. GrantedIsStored'
        BY <2>1, <2>4 DEF TypeOK, GrantedIsStored, inForce
    <3> QED BY <3>1, <3>2, <3>3, <3>4, <3>5
  <2>5. LeaseInv => TypeOK
      BY DEF LeaseInv
  <2> QED BY <2>1, <2>2, <2>3, <2>4, <2>5, DecideFits
<1> QED BY <1>1, <1>2, <1>3 DEF load, create

\* A save that the API server accepts.
LEMMA SaveKeepsInv ==
    ASSUME LeaseInv, NEW l \in LeaseIDs, pc[l] = "save", UpdateTakesEffect(l),
           NEW place \in {"held", "lost"}, EndTry(l, place, 0), UNCHANGED <<now, expires>>
    PROVE  LeaseInv'
<1> USE DEF UpdateTakesEffect, EndTry, Goto, LeaseInv
<1>1. TypeOK'
  <2>1. 0 \in 0 .. MaxTries - 1
      BY TriesAssumption
  <2> QED BY <2>1 DEF TypeOK, Places
<1>2. DataFits'
    BY DEF TypeOK, DataFits, Reserved, SlotSet
<1>3. PlanIsCurrent'
    BY DEF TypeOK, PlanIsCurrent
<1>4. SavedByItself'
  <2>1. exists
      BY DEF TypeOK, PlanIsCurrent, SavedByItself
  <2> QED BY <2>1 DEF TypeOK, SavedByItself, PlanIsCurrent
<1>5. GrantedIsStored'
    BY TimesAssumption, TTLAssumption DEF TypeOK, GrantedIsStored, inForce, PlanIsCurrent
<1> QED BY <1>1, <1>2, <1>3, <1>4, <1>5

\* Preparing the update that drops a released lease from the data just listed.
LEMMA PrepareUpdateKeepsInv ==
    ASSUME LeaseInv, NEW l \in LeaseIDs, pc[l] = "list", l \in stored,
           Prepare(l, "update", resourceVersion, stored \ {l}),
           UNCHANGED <<configMap, now, expires>>
    PROVE  LeaseInv'
<1> USE DEF Prepare, Goto, LeaseInv, configMap
<1>1. TypeOK'
    BY DEF TypeOK, Places
<1>2. DataFits'
  <2>1. /\ Reserved(stored \ {l}) <= Reserved(stored)
        /\ Reserved(stored) \in Nat /\ Reserved(stored \ {l}) \in Nat
      BY ReservedMonotone, SlotSetFinite, stored \ {l} \in SUBSET stored DEF TypeOK
  <2>2. Reserved(stored \ {l}) <= slotBudget
      BY <2>1, BudgetAssumption DEF DataFits
  <2> QED BY <2>2 DEF TypeOK, DataFits, Reserved, SlotSet
<1>3. PlanIsCurrent'
    BY DEF TypeOK, PlanIsCurrent
<1>4. SavedByItself'
    BY DEF TypeOK, SavedByItself
<1>5. GrantedIsStored'
    BY DEF TypeOK, GrantedIsStored, inForce
<1> QED BY <1>1, <1>2, <1>3, <1>4, <1>5

\* The update of a release that the API server accepts.
LEMMA UpdateKeepsInv ==
    ASSUME LeaseInv, NEW l \in LeaseIDs, pc[l] = "update", UpdateTakesEffect(l),
           NEW place \in {"released", "list", "abandoned"}, EndTry(l, place, 0),
           UNCHANGED <<now, expires>>
    PROVE  LeaseInv'
<1> USE DEF UpdateTakesEffect, EndTry, Goto, LeaseInv
<1>1. TypeOK'
  <2>1. 0 \in 0 .. MaxTries - 1
      BY TriesAssumption
  <2> QED BY <2>1 DEF TypeOK, Places
<1>2. DataFits'
    BY DEF TypeOK, DataFits, Reserved, SlotSet
<1>3. PlanIsCurrent'
    BY DEF TypeOK, PlanIsCurrent
<1>4. SavedByItself'
    BY DEF TypeOK, SavedByItself, PlanIsCurrent
<1>5. GrantedIsStored'
    BY DEF TypeOK, GrantedIsStored, inForce, PlanIsCurrent
<1> QED BY <1>1, <1>2, <1>3, <1>4, <1>5

\* A conflicting update ends the try, for the next one or for good.
LEMMA ConflictKeepsInv ==
    ASSUME LeaseInv, NEW l \in LeaseIDs,
           \/ pc[l] = "save" /\ UpdateConflicts(l, "get", {"refused"})
           \/ pc[l] = "update" /\ UpdateConflicts(l, "list", retryRelease)
    PROVE  LeaseInv'
<1>1. PICK place \in {"get", "refused", "list", "abandoned"}, n \in 0 .. MaxTries - 1 :
          /\ EndTry(l, place, n)
          /\ place \in {"get", "refused"} => pc[l] = "save"
          /\ UNCHANGED <<configMap, now, expires>>
  <2>1. tries[l] \in Nat /\ MaxTries \in Nat /\ 0 \in 0 .. MaxTries - 1
      BY TriesAssumption DEF LeaseInv, TypeOK
  <2>2. tries[l] + 1 < MaxTries => tries[l] + 1 \in 0 .. MaxTries - 1
      BY <2>1
  <2> QED BY <2>1, <2>2 DEF UpdateConflicts, retryRelease
<1> QED BY <1>1, EndTryKeepsInv DEF Places

\* Every step keeps the invariant.
LEMMA LeaseStep == LeaseInv /\ [Next]_vars => LeaseInv'
<1> SUFFICES ASSUME LeaseInv, [Next]_vars PROVE LeaseInv'
    OBVIOUS
<1>0. 0 \in 0 .. MaxTries - 1
    BY TriesAssumption
<1>1. CASE Tick
  <2> USE <1>1 DEF Tick, configMap, attempt, LeaseInv
  <2>1. TypeOK'
      BY TimesAssumption, TTLAssumption DEF TypeOK
  <2>2. DataFits'
      BY DEF DataFits, Reserved, SlotSet
  <2>3. PlanIsCurrent'
      BY TimesAssumption, TTLAssumption DEF TypeOK, PlanIsCurrent
  <2>4. SavedByItself'
      BY DEF SavedByItself
  <2>5. GrantedIsStored'
      BY TimesAssumption, TTLAssumption DEF TypeOK, GrantedIsStored, inForce
  <2> QED BY <2>1, <2>2, <2>3, <2>4, <2>5
<1>2. ASSUME NEW l \in LeaseIDs, acquire(l) \/ release(l) PROVE LeaseInv'
    BY <1>2, GotoKeepsInv DEF acquire, release
<1>3. ASSUME NEW l \in LeaseIDs, load(l) \/ create(l) PROVE LeaseInv'
    BY <1>3, LoadKeepsInv
<1>4. ASSUME NEW l \in LeaseIDs, save(l) \/ saveAnswerLost(l) PROVE LeaseInv'
    BY <1>4, SaveKeepsInv, ConflictKeepsInv DEF save, saveAnswerLost
<1>5. ASSUME NEW l \in LeaseIDs, acquireFails(l) PROVE LeaseInv'
    BY <1>0, <1>5, EndTryKeepsInv DEF acquireFails, Places
<1>6. ASSUME NEW l \in LeaseIDs, list(l) PROVE LeaseInv'
    BY <1>0, <1>6, PrepareUpdateKeepsInv, EndTryKeepsInv DEF list, Places
<1>7. ASSUME NEW l \in LeaseIDs, update(l) \/ updateAnswerLost(l) PROVE LeaseInv'
    BY <1>7, UpdateKeepsInv, ConflictKeepsInv DEF update, updateAnswerLost, retryRelease
<1>8. ASSUME NEW l \in LeaseIDs, releaseFails(l) PROVE LeaseInv'
    BY <1>0, <1>8, EndTryKeepsInv DEF releaseFails, retryRelease, Places
<1>9. CASE UNCHANGED vars
    BY <1>9 DEF vars, configMap, attempt, LeaseInv, TypeOK, DataFits, Reserved, SlotSet,
                PlanIsCurrent, SavedByItself, GrantedIsStored, inForce
<1> QED BY <1>1, <1>2, <1>3, <1>4, <1>5, <1>6, <1>7, <1>8, <1>9
        DEF Next, AcquireStep, ReleaseStep

\* The invariant holds in every reachable state.
THEOREM LeaseInvariant == Spec => []LeaseInv
<1> QED BY LeaseInit, LeaseStep, PTL DEF Spec

-----------------------------------------------------------------------------
(* What the store guarantees.                                              *)

\* No lost update, for any number of replicas: a granted lease stays in the ConfigMap
\* as long as it is in force (leases.go:51-70, 142-154).
THEOREM GrantedStaysStored == Spec => []GrantedIsStored
<1>1. LeaseInv => GrantedIsStored
    BY DEF LeaseInv
<1> QED BY <1>1, LeaseInvariant, PTL

\* No resurrection: a lease that was released is gone for good (leases.go:77-98).
THEOREM ReleasedStaysGone == Spec => []ReleasedIsGone
<1>1. LeaseInv => ReleasedIsGone
    BY DEF LeaseInv, SavedByItself, ReleasedIsGone
<1> QED BY <1>1, LeaseInvariant, PTL

\* What is in force fits the budget, whenever it is stored and the data fits.
LEMMA InForceFits == LeaseInv => BudgetRespected
<1> SUFFICES ASSUME LeaseInv PROVE BudgetRespected
    OBVIOUS
<1>1. inForce \in SUBSET stored /\ stored \in SUBSET LeaseIDs /\ inForce \in SUBSET LeaseIDs
    BY DEF LeaseInv, GrantedIsStored, TypeOK
<1>2. Reserved(inForce) <= Reserved(stored) /\ Reserved(inForce) \in Nat /\ Reserved(stored) \in Nat
    BY <1>1, ReservedMonotone, SlotSetFinite
<1>3. Reserved(stored) <= slotBudget
    BY DEF LeaseInv, DataFits
<1> QED BY <1>2, <1>3, BudgetAssumption DEF BudgetRespected

\* The leases in force never exceed the slot budget (leases.go:65-67), although every
\* replica decides on data that may be stale by the time it writes.
THEOREM BudgetHolds == Spec => []BudgetRespected
<1> QED BY InForceFits, LeaseInvariant, PTL

\* The ConfigMap with its optimistic concurrency implements the atomic pool.
THEOREM PoolImplemented == Spec => ImplementsCapacityPool
<1>1. Init => Pool!PoolInit
    BY DEF Init, Pool!PoolInit, inForce
<1>2. LeaseInv' => BudgetRespected'
    BY InForceFits, PTL
<1>3. LeaseInv /\ LeaseInv' /\ [Next]_vars => [Pool!PoolNext]_inForce
  <2> SUFFICES ASSUME LeaseInv, LeaseInv', [Next]_vars PROVE [Pool!PoolNext]_inForce
      OBVIOUS
  <2>1. CASE inForce' \in SUBSET inForce
      BY <2>1 DEF Pool!PoolNext, Pool!Lapse
  <2>2. CASE inForce' \notin SUBSET inForce
    <3>1. PICK l \in LeaseIDs : save(l)
      <4>1. \A l \in LeaseIDs : pc'[l] = "held" /\ pc[l] # "held" => save(l)
          BY DEF Next, vars, Tick, AcquireStep, ReleaseStep, acquire, load, create, save,
                 saveAnswerLost, acquireFails, release, list, update, updateAnswerLost,
                 releaseFails, Decide, Prepare, EndTry, Goto, UpdateConflicts, retryRelease,
                 LeaseInv, TypeOK
      <4>2. \A l \in LeaseIDs : pc'[l] = "held" /\ pc[l] = "held" =>
                expires'[l] = expires[l] /\ now' >= now
        <5>1. CASE Tick
            BY <5>1 DEF Tick, LeaseInv, TypeOK
        <5>2. CASE \E k \in LeaseIDs : AcquireStep(k) \/ ReleaseStep(k)
          <6>1. PICK k \in LeaseIDs : AcquireStep(k) \/ ReleaseStep(k)
              BY <5>2
          <6>2. CASE acquire(k)
              BY <6>2 DEF acquire, Goto, LeaseInv, TypeOK
          <6>3. CASE ~acquire(k)
            <7>1. UNCHANGED <<now, expires>>
                BY <6>1, <6>3 DEF AcquireStep, ReleaseStep, load, create, save, saveAnswerLost,
                    acquireFails, release, list, update, updateAnswerLost, releaseFails,
                    UpdateConflicts
            <7> QED BY <7>1 DEF LeaseInv, TypeOK
          <6> QED BY <6>2, <6>3
        <5>3. CASE UNCHANGED vars
            BY <5>3 DEF vars, LeaseInv, TypeOK
        <5> QED BY <5>1, <5>2, <5>3 DEF Next
      <4>3. PICK l \in LeaseIDs : l \in inForce' /\ l \notin inForce
          BY <2>2 DEF inForce
      <4>4. pc[l] # "held"
          BY <4>2, <4>3, TimesAssumption, TTLAssumption DEF inForce, LeaseInv, TypeOK
      <4> QED BY <4>1, <4>3, <4>4 DEF inForce
    <3>2. UNCHANGED <<now, expires>> /\ pc' \in {[pc EXCEPT ![l] = "held"],
                          [pc EXCEPT ![l] = "get"], [pc EXCEPT ![l] = "refused"]}
        BY <3>1 DEF save, UpdateConflicts, EndTry, Goto
    <3>3. inForce' \subseteq inForce \cup {l} /\ inForce \subseteq inForce' /\ l \notin inForce
        BY <3>1, <3>2 DEF inForce, save, LeaseInv, TypeOK
    <3>4. inForce' = inForce \cup {l}
        BY <2>2, <3>3
    <3>5. Pool!Reserved(inForce') <= slotBudget
      <4>1. ASSUME NEW ls PROVE Pool!Reserved(ls) = Reserved(ls)
        <5>1. Pool!SlotSet(ls) = SlotSet(ls)
            BY DEF SlotSet, Pool!SlotSet
        <5> QED BY <5>1 DEF Reserved, Pool!Reserved, Cardinality, Pool!Cardinality
      <4>2. Reserved(inForce') <= slotBudget
          BY <1>2 DEF BudgetRespected, Reserved, SlotSet
      <4> QED BY <4>1, <4>2
    <3> QED BY <3>3, <3>4, <3>5 DEF Pool!PoolNext, Pool!Grant
  <2> QED BY <2>1, <2>2
<1> QED BY <1>1, <1>3, LeaseInvariant, PTL DEF Spec, Pool!PoolSpec, ImplementsCapacityPool

=============================================================================
