---------------------- MODULE CueInstanceStatusProofs ----------------------
(***************************************************************************)
(* Lemmas about the functions of CueInstanceStatus, for the proofs of the  *)
(* modules that use them.                                                  *)
(***************************************************************************)
EXTENDS CueInstanceStatus, TLAPS

(* The functions of api/v1alpha1 turn statuses into statuses. *)
LEMMA StatusFunctions ==
  ASSUME NEW s \in Status, NEW i \in SUBSET Objects, NEW g \in Nat, NEW r \in Revision
  PROVE  /\ EmptyStatus \in Status
         /\ CueInstanceProgressing(s) \in Status
         /\ SetCueInstanceHealthiness(s, "Unknown") \in Status
         /\ CueInstanceNotReady(s, r) \in Status
         /\ CueInstanceNotReadyInventory(s, i, g, r) \in Status
         /\ CueInstanceReadyInventory(s, i, g, r) \in Status
<1>1. EmptyStatus \in Status
  BY DEF EmptyStatus, Status, ConditionStatus, Revision
<1>2. CueInstanceProgressing(s) \in Status
  BY DEF CueInstanceProgressing, Status, ConditionStatus
<1>3. SetCueInstanceHealthiness(s, "Unknown") \in Status
  BY DEF SetCueInstanceHealthiness, Status, ConditionStatus
<1>4. CueInstanceNotReady(s, r) \in Status
  BY DEF CueInstanceNotReady, Status, ConditionStatus
<1>5. CueInstanceNotReadyInventory(s, i, g, r) \in Status
  BY DEF CueInstanceNotReadyInventory, SetCueInstanceReadiness, Status, ConditionStatus
<1>6. CueInstanceReadyInventory(s, i, g, r) \in Status
  BY DEF CueInstanceReadyInventory, SetCueInstanceReadiness, Status, ConditionStatus
<1>7. QED BY <1>1, <1>2, <1>3, <1>4, <1>5, <1>6

(* A merge patch of statuses is a status. *)
LEMMA MergePatchType ==
  ASSUME NEW onServer \in Status, NEW base \in Status, NEW new \in Status,
         NEW sent \in BOOLEAN
  PROVE  MergePatch(onServer, base, new, sent) \in Status
BY DEF MergePatch, Status

(* What each function says of Ready, the inventory and the last applied     *)
(* revision.                                                               *)
LEMMA ProgressFields ==
  ASSUME NEW s \in Status
  PROVE  /\ LET t == CueInstanceProgressing(s)
            IN  /\ t.conditions.ready = "Unknown" /\ t.inventory = s.inventory
                /\ t.lastAppliedRevision = s.lastAppliedRevision
         /\ LET t == SetCueInstanceHealthiness(CueInstanceProgressing(s), "Unknown")
            IN  /\ t.conditions.ready = "Unknown" /\ t.inventory = s.inventory
                /\ t.lastAppliedRevision = s.lastAppliedRevision
BY DEF SetCueInstanceHealthiness, CueInstanceProgressing, Status

LEMMA NotReadyFields ==
  ASSUME NEW s \in Status, NEW r \in Revision
  PROVE  LET t == CueInstanceNotReady(s, r)
         IN  /\ t.conditions.ready = "False" /\ t.inventory = s.inventory
             /\ t.lastAppliedRevision = s.lastAppliedRevision
BY DEF CueInstanceNotReady, Status

LEMMA InventoryFields ==
  ASSUME NEW s \in Status, NEW i \in SUBSET Objects, NEW g \in Nat, NEW r \in Revision
  PROVE  /\ LET t == CueInstanceNotReadyInventory(s, i, g, r)
            IN  t.conditions.ready = "False" /\ t.inventory = i
         /\ LET t == CueInstanceReadyInventory(s, i, g, r)
            IN  /\ t.conditions.ready = "True" /\ t.inventory = i /\ t.observedGeneration = g
                /\ t.lastAppliedRevision = r /\ t.lastAttemptedRevision = r
BY DEF CueInstanceNotReadyInventory, CueInstanceReadyInventory, SetCueInstanceReadiness, Status

(* A merge patch computed from what the server has writes just the new     *)
(* status, whatever the wording of the conditions.                         *)
LEMMA MergePatchFresh ==
  ASSUME NEW base \in Status, NEW new \in Status, NEW sent \in BOOLEAN
  PROVE  MergePatch(base, base, new, sent) = new
BY DEF MergePatch, Status
=============================================================================
