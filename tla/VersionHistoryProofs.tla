------------------------ MODULE VersionHistoryProofs ------------------------
(***************************************************************************)
(* What sequences of deploys, rescalings and rollbacks can reach, for any  *)
(* policy and any specs.                                                   *)
(***************************************************************************)
EXTENDS VersionHistory, TLAPS

\* Ids count from 1, and the current spec is among the recorded ones: compaction
\* never drops it (deployment_actor.go:282-284), so an unapproved change that counts
\* as none starts from material that was approved.
CurrentIsRecorded ==
    current # Null =>
        /\ current.versionId \in Nat /\ current.versionId > 0
        /\ current.spec \in recorded

HistoryInv == CurrentIsRecorded /\ OnlyApprovedMaterial

-----------------------------------------------------------------------------

\* Where approval is required, what is admitted without it differs from the current
\* version in nothing material (change.go:29-81, validate.go:32-34).
LEMMA UnapprovedIsImmaterial ==
    ASSUME NEW cur, NEW target, NEW incident, NEW policy,
           policy.requireProdApproval,
           Admits(cur, target, FALSE, incident, policy)
    PROVE  cur # Null /\ Material(target) = Material(cur.spec)
<1>1. ~ClassifyChange(cur, target, policy).requiresApproval
    BY DEF Admits, ValidateSpec
<1>2. cur # Null
    BY <1>1 DEF ClassifyChange, Classification
<1>3. /\ ~ArgumentsChange(cur.spec, target)
      /\ ~ShapeChanges(cur.spec, target)
      /\ ~BinaryChanges(cur.spec, target)
    BY <1>1, <1>2 DEF ClassifyChange, Classification
<1> QED
    BY <1>2, <1>3 DEF ArgumentsChange, ShapeChanges, BinaryChanges, Material

-----------------------------------------------------------------------------

\* A promotion records the new current spec and counts the id up.
LEMMA PromoteKeeps ==
    ASSUME HistoryInv, NEW target, NEW approved, NEW incident,
           Promote(target, approved, incident)
    PROVE  CurrentIsRecorded'
<1> QED
    BY DEF HistoryInv, CurrentIsRecorded, Promote

\* Every step of the history preserves the invariant.
LEMMA HistoryStep ==
    ASSUME HistoryInv, [HistoryNext]_historyVars
    PROVE  HistoryInv'
<1>1. CASE DeployChange
  <2>1. PICK target \in Specs, approved, incident \in BOOLEAN :
            /\ Promote(target, approved, incident)
            /\ endorsed' = IF approved THEN endorsed \cup {target} ELSE endorsed
      BY <1>1 DEF DeployChange
  <2>2. recorded' = recorded \cup {target} /\ endorsed \subseteq endorsed'
      BY <2>1 DEF Promote
  <2>3. ASSUME Policy.requireProdApproval
        PROVE  \E e \in endorsed' : Material(e) = Material(target)
    <3>1. CASE approved
        BY <3>1, <2>1
    <3>2. CASE ~approved
      <4>1. Admits(current, target, FALSE, incident, Policy)
          BY <3>2, <2>1 DEF Promote
      <4>2. current # Null /\ Material(target) = Material(current.spec)
          BY <4>1, <2>3, UnapprovedIsImmaterial
      <4> QED
          BY <4>2, <2>2, <2>3 DEF HistoryInv, CurrentIsRecorded, OnlyApprovedMaterial
    <3> QED BY <3>1, <3>2
  <2>4. OnlyApprovedMaterial'
      BY <2>2, <2>3 DEF HistoryInv, OnlyApprovedMaterial
  <2> QED BY <2>1, <2>4, PromoteKeeps DEF HistoryInv
<1>2. CASE RollbackChange
  <2>1. PICK target \in recorded, incident \in BOOLEAN :
            Promote(target, TRUE, incident) /\ UNCHANGED endorsed
      BY <1>2 DEF RollbackChange
  <2>2. recorded' = recorded
      BY <2>1 DEF Promote
  <2>3. OnlyApprovedMaterial'
      BY <2>1, <2>2 DEF HistoryInv, OnlyApprovedMaterial
  <2> QED BY <2>1, <2>3, PromoteKeeps DEF HistoryInv
<1>3. CASE Forget
    BY <1>3 DEF Forget, HistoryInv, CurrentIsRecorded, OnlyApprovedMaterial
<1>4. CASE UNCHANGED historyVars
    BY <1>4 DEF historyVars, HistoryInv, CurrentIsRecorded, OnlyApprovedMaterial
<1> QED
    BY <1>1, <1>2, <1>3, <1>4 DEF HistoryNext

\* The invariant holds throughout every history.
THEOREM HistoryInvariant == HistorySpec => []HistoryInv
<1>1. HistoryInit => HistoryInv
    BY DEF HistoryInit, HistoryInv, CurrentIsRecorded, OnlyApprovedMaterial
<1>2. HistoryInv /\ [HistoryNext]_historyVars => HistoryInv'
    BY HistoryStep
<1> QED
    BY <1>1, <1>2, PTL DEF HistorySpec

\* Rollbacks need no approval of their own and yet lead only to material that was
\* deployed with approval (deployment_actor.go:220-224).
THEOREM ApprovedMaterialHolds == HistorySpec => []OnlyApprovedMaterial
<1>1. HistoryInv => OnlyApprovedMaterial
    BY DEF HistoryInv
<1> QED
    BY <1>1, HistoryInvariant, PTL

=============================================================================
