--------------------------- MODULE CapacityLeases ---------------------------
(***************************************************************************)
(* The capacity-lease store of the Kubernetes backend (kubernetes/         *)
(* leases.go) for one node pool: a ConfigMap that the activity workers of  *)
(* all replicas read, change and write back concurrently.  The API server  *)
(* is external: an Update carries the resourceVersion it was read with and *)
(* is refused as a conflict when the object has changed since.             *)
(*                                                                         *)
(* An acquire attempt draws a random lease id, so attempts are named by    *)
(* their lease and each id lives one life: acquired at most once, held by  *)
(* a rollout, released.  A read and the in-memory check that follows are   *)
(* one step; everything else may happen between a read and its write.      *)
(* Each replica has its own clock: a reading is at most Skew ahead of the  *)
(* slowest one, `now'.                                                     *)
(***************************************************************************)
EXTENDS LeaseSlots

CONSTANTS
    Skew,           \* how far the clocks of the replicas are apart
    MaxTries,       \* retry.DefaultRetry.Steps, 5 in client-go
    MaxTime         \* bound: the last instant

ASSUME TimesAssumption == Skew \in Nat /\ MaxTime \in Nat
ASSUME TriesAssumption == MaxTries \in Nat \ {0}

VARIABLES
    exists,             \* has the ConfigMap been created?
    resourceVersion,    \* its version, counts the writes
    stored,             \* the leases in its data
    now,                \* the slowest replica's clock
    pc,                 \* where each lease is in its life
    expires,            \* its ExpiresAt
    base,               \* the resourceVersion its attempt has read ...
    plan,               \* ... and the data it is about to write
    tries               \* conflicts met by its attempt

configMap == <<exists, resourceVersion, stored>>
attempt == <<base, plan, tries>>
vars == <<configMap, now, pc, expires, attempt>>

-----------------------------------------------------------------------------

Goto(l, place) == pc' = [pc EXCEPT ![l] = place]

\* A try ends and its locals are gone; RetryOnConflict counts the conflicts so far.
EndTry(l, place, conflicts) ==
    /\ Goto(l, place)
    /\ base' = [base EXCEPT ![l] = 0]
    /\ plan' = [plan EXCEPT ![l] = {}]
    /\ tries' = [tries EXCEPT ![l] = conflicts]

\* What a replica may read from its clock.
clocks == now .. now + Skew

\* Plan a write of `data', based on the version just read.
Prepare(l, place, version, data) ==
    /\ Goto(l, place)
    /\ base' = [base EXCEPT ![l] = version]
    /\ plan' = [plan EXCEPT ![l] = data]
    /\ UNCHANGED tries

\* Mutant: writes whatever version it has read.
UpdateUnconditionally(l) ==
    /\ stored' = plan[l]
    /\ resourceVersion' = resourceVersion + 1
    /\ UNCHANGED exists

\* Update succeeds: the version is the one that was read.
UpdateTakesEffect(l) ==
    /\ base[l] = resourceVersion
    /\ stored' = plan[l]
    /\ resourceVersion' = resourceVersion + 1
    /\ UNCHANGED exists

\* Update is refused; RetryOnConflict starts over at `place' or gives up.
UpdateConflicts(l, place, giveUp) ==
    /\ base[l] # resourceVersion
    /\ \/ tries[l] + 1 < MaxTries /\ EndTry(l, place, tries[l] + 1)
       \/ tries[l] + 1 >= MaxTries /\ \E end \in giveUp : EndTry(l, end, 0)
    /\ UNCHANGED <<configMap, now, expires>>

-----------------------------------------------------------------------------
(* acquire.                                                                *)

\* The expiry is fixed once, before the first try.
acquire(l) ==
    /\ pc[l] = "new"
    /\ \E clock \in clocks : expires' = [expires EXCEPT ![l] = clock + TTL]
    /\ Goto(l, "get")
    /\ UNCHANGED <<configMap, now, attempt>>

\* Mutant: drops a lease that expires at this very instant.
unexpiredStrictly(ls, clock) == {m \in ls : expires[m] > clock}

\* Expired leases are dropped and do not count against the budget.
unexpired(ls, clock) == {m \in ls : expires[m] >= clock}

\* Mutant: does not add up what the others reserve.
fitsAlone(l, ls) == SlotsOf[l] <= slotBudget

fits(l, ls) == l \in ls \/ Reserved(ls) + SlotsOf[l] <= slotBudget

Decide(l, version, data) ==
    \E clock \in clocks :
        LET kept == unexpired(data, clock)
        IN  \/ fits(l, kept) /\ Prepare(l, "save", version, kept \cup {l})
            \/ ~fits(l, kept) /\ EndTry(l, "refused", 0)

\* load: Get answers; a missing ConfigMap has to be created first.
load(l) ==
    /\ pc[l] = "get"
    /\ \/ exists /\ Decide(l, resourceVersion, stored)
       \/ ~exists /\ Goto(l, "create") /\ UNCHANGED attempt
    /\ UNCHANGED <<configMap, now, expires>>

\* load: Create answers; whoever comes second gets AlreadyExists and reads again.
create(l) ==
    /\ pc[l] = "create"
    /\ \/ /\ ~exists
          /\ exists' = TRUE
          /\ resourceVersion' = resourceVersion + 1
          /\ UNCHANGED stored
          /\ Decide(l, resourceVersion', {})
       \/ /\ exists
          /\ Goto(l, "get")
          /\ UNCHANGED <<configMap, attempt>>
    /\ UNCHANGED <<now, expires>>

save(l) ==
    /\ pc[l] = "save"
    /\ \/ /\ UpdateTakesEffect(l)
          /\ EndTry(l, "held", 0)
          /\ UNCHANGED <<now, expires>>
       \/ UpdateConflicts(l, "get", {"refused"})

\* The update is made and its answer never reaches the workflow: an orphan.
saveAnswerLost(l) ==
    /\ pc[l] = "save"
    /\ UpdateTakesEffect(l)
    /\ EndTry(l, "lost", 0)
    /\ UNCHANGED <<now, expires>>

\* A request fails, or the worker dies; the workflow retries with another id.
acquireFails(l) ==
    /\ pc[l] \in {"get", "create", "save"}
    /\ EndTry(l, "lost", 0)
    /\ UNCHANGED <<configMap, now, expires>>

-----------------------------------------------------------------------------
(* release.                                                                *)

release(l) ==
    /\ pc[l] = "held"
    /\ Goto(l, "list")
    /\ UNCHANGED <<configMap, now, expires, attempt>>

\* List answers; a lease that is not there any more needs no release.
list(l) ==
    /\ pc[l] = "list"
    /\ \/ l \in stored /\ Prepare(l, "update", resourceVersion, stored \ {l})
       \/ l \notin stored /\ EndTry(l, "released", 0)
    /\ UNCHANGED <<configMap, now, expires>>

\* Temporal runs a failed release again, or gives up and the error is ignored.
retryRelease == {"list", "abandoned"}

update(l) ==
    /\ pc[l] = "update"
    /\ \/ /\ UpdateTakesEffect(l)
          /\ EndTry(l, "released", 0)
          /\ UNCHANGED <<now, expires>>
       \/ UpdateConflicts(l, "list", retryRelease)

updateAnswerLost(l) ==
    /\ pc[l] = "update"
    /\ UpdateTakesEffect(l)
    /\ \E end \in retryRelease : EndTry(l, end, 0)
    /\ UNCHANGED <<now, expires>>

releaseFails(l) ==
    /\ pc[l] \in {"list", "update"}
    /\ \E end \in retryRelease : EndTry(l, end, 0)
    /\ UNCHANGED <<configMap, now, expires>>

-----------------------------------------------------------------------------

Tick ==
    /\ now < MaxTime
    /\ now' = now + 1
    /\ UNCHANGED <<configMap, pc, expires, attempt>>

Init ==
    /\ exists = FALSE
    /\ resourceVersion = 0
    /\ stored = {}
    /\ now = 0
    /\ pc = [l \in LeaseIDs |-> "new"]
    /\ expires = [l \in LeaseIDs |-> 0]
    /\ base = [l \in LeaseIDs |-> 0]
    /\ plan = [l \in LeaseIDs |-> {}]
    /\ tries = [l \in LeaseIDs |-> 0]

AcquireStep(l) ==
    acquire(l) \/ load(l) \/ create(l) \/ save(l) \/ saveAnswerLost(l) \/ acquireFails(l)

ReleaseStep(l) ==
    release(l) \/ list(l) \/ update(l) \/ updateAnswerLost(l) \/ releaseFails(l)

Next == Tick \/ \E l \in LeaseIDs : AcquireStep(l) \/ ReleaseStep(l)

Spec == Init /\ [][Next]_vars

-----------------------------------------------------------------------------
(* Properties.                                                             *)

Places == {"new", "get", "create", "save", "held", "refused", "lost",
           "list", "update", "released", "abandoned"}

\* The types of the variables, for the proofs.
TypeOK ==
    /\ exists \in BOOLEAN
    /\ resourceVersion \in Nat
    /\ stored \subseteq LeaseIDs
    /\ now \in 0 .. MaxTime
    /\ pc \in [LeaseIDs -> Places]
    /\ expires \in [LeaseIDs -> Nat]
    /\ base \in [LeaseIDs -> Nat]
    /\ plan \in [LeaseIDs -> SUBSET LeaseIDs]
    /\ tries \in [LeaseIDs -> 0 .. MaxTries - 1]

\* Leases a rollout holds and that no replica's clock has seen expire.
inForce == {l \in LeaseIDs : pc[l] = "held" /\ expires[l] >= now + Skew}

\* No lost update: a lease that was granted and is in force is in the store,
\* whatever the other replicas read before it was written (leases.go:51-70, 142-154).
GrantedIsStored == inForce \subseteq stored

\* No resurrection: a released lease never comes back, although others may write
\* back data they read before the release (leases.go:77-98).
ReleasedIsGone == \A l \in LeaseIDs : pc[l] = "released" => l \notin stored

\* The leases the rollouts of all replicas hold at the same time fit the budget of
\* the node pool (adapter.go:36-37 "SlotBudget caps total reserved task slots").
BudgetRespected == Reserved(inForce) <= slotBudget

\* Seen by the rollouts, the store is an atomic pool of capacity.
Pool == INSTANCE CapacityPool
ImplementsCapacityPool == Pool!PoolSpec

-----------------------------------------------------------------------------
(* Inductive invariant, used by CapacityLeasesProofs.                      *)

\* The stored data fits the budget, and so does all data about to be written.
DataFits ==
    /\ Reserved(stored) <= slotBudget
    /\ \A l \in LeaseIDs : pc[l] \in {"save", "update"} => Reserved(plan[l]) <= slotBudget

\* A write that will be accepted drops nothing but its own lease, or leases that
\* some clock has seen expire, and adds nothing but its own lease.
PlanIsCurrent ==
    \A l \in LeaseIDs :
        /\ pc[l] \in {"save", "update"} => base[l] <= resourceVersion
        /\ (pc[l] = "save" /\ base[l] = resourceVersion) =>
              /\ l \in plan[l] /\ plan[l] \subseteq stored \cup {l}
              /\ \A m \in stored \ plan[l] : expires[m] < now + Skew
        /\ (pc[l] = "update" /\ base[l] = resourceVersion) => plan[l] = stored \ {l}

\* A lease is stored only after its own save.
SavedByItself ==
    /\ ~exists => stored = {} /\ \A l \in LeaseIDs : pc[l] # "save"
    /\ \A l \in LeaseIDs :
          pc[l] \in {"new", "get", "create", "save", "refused", "released"} => l \notin stored

LeaseInv == TypeOK /\ DataFits /\ PlanIsCurrent /\ SavedByItself /\ GrantedIsStored

=============================================================================
