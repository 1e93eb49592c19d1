--------------------------- MODULE OwnershipProofs ---------------------------
(***************************************************************************)
(* Proofs about Inventory and Ownership, for any number of CueInstances,   *)
(* objects and overlaps between their builds.                              *)
(***************************************************************************)
EXTENDS Ownership, TLAPS

-----------------------------------------------------------------------------
(* What the inventory operators return.                                    *)

LEMMA TargetType == \A id \in ObjMetadata : Target(id) \in AllTargets
BY DEF AllTargets

LEMMA TargetsType == ASSUME NEW inv \in SUBSET ResourceRef PROVE Targets(inv) \subseteq AllTargets
BY DEF Targets, AllTargets, ResourceRef

LEMMA TargetsUnion == ASSUME NEW S, NEW T PROVE Targets(S \cup T) = Targets(S) \cup Targets(T)
BY DEF Targets

(* What DiffInventory lists was recorded, as it is listed. *)
LEMMA DiffRecorded ==
  ASSUME NEW old \in SUBSET ResourceRef, NEW new \in SUBSET ResourceRef,
         NEW obj \in DiffInventory(old, new)
  PROVE  obj \in old /\ obj.id \notin ListMeta(new)
<1>1. PICK id \in ListMeta(old) \ ListMeta(new) :
        obj = [id |-> id, version |-> VersionOf(old, id)]
  BY DEF DiffInventory
<1>2. PICK e \in old : e.id = id
  BY <1>1 DEF ListMeta
<1>3. e.version \in Versions /\ [id |-> id, version |-> e.version] \in old
  BY <1>2 DEF ResourceRef
<1>4. [id |-> id, version |-> VersionOf(old, id)] \in old
  BY <1>3 DEF VersionOf
<1>5. QED BY <1>1, <1>4

LEMMA StaleType ==
  ASSUME NEW old \in SUBSET ResourceRef, NEW new \in SUBSET ResourceRef
  PROVE  StaleObjects(old, new) \subseteq old
BY DiffRecorded DEF StaleObjects

(* Nothing that was recorded is lost: what a recorded entry denotes is     *)
(* either denoted by the new inventory, or stale.                          *)
LEMMA StaleIsAll ==
  ASSUME NEW old \in SUBSET ResourceRef, NEW new \in SUBSET ResourceRef,
         \A ref \in new : WellFormed(ref)
  PROVE  Targets(old) \subseteq Targets(new) \cup Targets(StaleObjects(old, new))
<1>1. SUFFICES ASSUME NEW e \in old, Target(e.id) \notin Targets(new)
               PROVE  Target(e.id) \in Targets(StaleObjects(old, new))
  BY DEF Targets
<1>2. e.id \in ListMeta(old) \ ListMeta(new)
  BY <1>1 DEF ListMeta, Targets
<1> DEFINE obj == [id |-> e.id, version |-> VersionOf(old, e.id)]
<1>3. obj \in DiffInventory(old, new) /\ obj.id = e.id /\ e.id \in ObjMetadata
  BY <1>2 DEF DiffInventory, ResourceRef
<1> HIDE DEF obj
<1>4. ~Preserve(obj, new)
  <2>1. SUFFICES ASSUME NEW ref \in new, ref.id.namespace = NoNamespace,
                        \A field \in {"group", "kind", "name"} : ref.id[field] = obj.id[field]
                 PROVE  FALSE
    BY DEF Preserve
  <2>2. /\ ref.id.group = obj.id.group /\ ref.id.kind = obj.id.kind
        /\ ref.id.name = obj.id.name
    BY <2>1
  <2>3. ref.id \in ObjMetadata /\ obj.id \in ObjMetadata
    BY <1>3 DEF ResourceRef
  <2>4. obj.id.kind \in ClusterKinds
    BY <2>1, <2>2 DEF WellFormed
  <2>5. Target(ref.id) = Target(obj.id)
    BY <2>1, <2>2, <2>3, <2>4 DEF Target, ObjMetadata
  <2>6. QED BY <1>1, <1>3, <2>5 DEF Targets
<1>5. QED BY <1>3, <1>4 DEF StaleObjects, Targets

(* And what is stale is not what was just applied under another name, if   *)
(* both name one version.                                                  *)
LEMMA StaleIsNotNew ==
  ASSUME NEW old \in SUBSET ResourceRef, NEW new \in SUBSET ResourceRef,
         \A ref \in new : WellFormed(ref),
         NEW obj \in StaleObjects(old, new), NEW ref \in new,
         Target(ref.id) = Target(obj.id)
  PROVE  ref.version # obj.version
<1>1. obj \in old /\ obj.id # ref.id /\ ~Preserve(obj, new)
  BY DiffRecorded DEF StaleObjects, ListMeta
<1>2. ref.id \in ObjMetadata /\ obj.id \in ObjMetadata
  BY <1>1 DEF ResourceRef
<1>3. /\ ref.id.group = obj.id.group /\ ref.id.kind = obj.id.kind
      /\ ref.id.name = obj.id.name
  BY <1>2 DEF Target, ObjMetadata
<1>4. ref.id.kind \in ClusterKinds
  BY <1>1, <1>2, <1>3 DEF Target, ObjMetadata
<1>5. ref.id.namespace = NoNamespace /\ obj.id.namespace # NoNamespace
  BY <1>1, <1>2, <1>3, <1>4 DEF WellFormed, ObjMetadata
<1>6. \A field \in {"group", "kind", "name"} : ref.id[field] = obj.id[field]
  BY <1>3
<1>7. QED BY <1>1, <1>5, <1>6 DEF Preserve

-----------------------------------------------------------------------------
(* Types.                                                                  *)

LEMMA LeavesType ==
  ASSUME TypeOK, NEW i \in Instances, NEW S \in SUBSET AllTargets
  PROVE  Leaves(i, S) \subseteq Instances \X AllTargets
BY DEF Leaves

LEMMA ReturnType ==
  ASSUME TypeOK, NEW i \in Instances, Return(i)
  PROVE  /\ pc' \in [Instances -> PCs] /\ build' \in [Instances -> SpecType]
         /\ applied' \in [Instances -> SUBSET ResourceRef]
         /\ todo' \in [Instances -> SUBSET ResourceRef]
         /\ found' \in [Instances -> SUBSET ResourceRef]
         /\ retaken' \subseteq Instances
<1>1. NoBuild \in SpecType
  BY DEF NoBuild, SpecType
<1>2. QED BY <1>1 DEF Return, TypeOK, PCs

(* A step is one of these. *)
LEMMA NextCases ==
  ASSUME [Next]_vars,
         NEW P,
         UNCHANGED vars => P,
         \A i \in Instances :
           /\ EditSpec(i) \/ Delete(i) \/ Start(i) => P
           /\ (\E ref \in build[i].objects \cup todo[i] : Apply(i, ref)) => P
           /\ (\E obj \in build[i].objects \cup todo[i] : Find(i, obj)) => P
           /\ (\E obj \in build[i].objects \cup todo[i] : Skip(i, obj)) => P
           /\ (\E obj \in build[i].objects \cup todo[i] : Remove(i, obj)) => P
           /\ PruneBegins(i) \/ FinalizeBegins(i) => P
           /\ Record(i) \/ PruneFails(i) \/ Abort(i) => P
           /\ FinalizeFails(i) \/ Finalized(i) => P
  PROVE  P
BY DEF Next, Proceeds

LEMMA TypeInit == Init => TypeOK
<1> SUFFICES ASSUME Init PROVE TypeOK
  OBVIOUS
<1>1. NoBuild \in SpecType
  BY DEF NoBuild, SpecType
<1>2. inventory \in [Instances -> SUBSET ResourceRef]
  BY RecordedAssumption DEF Init
<1>3. QED BY <1>1, <1>2 DEF Init, TypeOK, Phases, PCs

LEMMA TypeStep == ASSUME TypeOK, [Next]_vars PROVE TypeOK'
<1>1. UNCHANGED vars => TypeOK'
  BY DEF TypeOK, vars, cluster, run, history
<1>2. ASSUME NEW i \in Instances
      PROVE  /\ EditSpec(i) \/ Delete(i) \/ Start(i) => TypeOK'
             /\ (\E ref \in build[i].objects \cup todo[i] : Apply(i, ref)) => TypeOK'
             /\ (\E obj \in build[i].objects \cup todo[i] : Find(i, obj)) => TypeOK'
             /\ (\E obj \in build[i].objects \cup todo[i] : Skip(i, obj)) => TypeOK'
             /\ (\E obj \in build[i].objects \cup todo[i] : Remove(i, obj)) => TypeOK'
             /\ PruneBegins(i) \/ FinalizeBegins(i) => TypeOK'
             /\ Record(i) \/ PruneFails(i) \/ Abort(i) => TypeOK'
             /\ FinalizeFails(i) \/ Finalized(i) => TypeOK'
  <2>0. build[i].objects \in SUBSET ResourceRef /\ todo[i] \in SUBSET ResourceRef
    BY DEF TypeOK, SpecType
  <2>1. CASE EditSpec(i) \/ Delete(i) \/ Start(i)
    <3>1. CASE EditSpec(i)
      <4>1. PICK s \in Specs : spec' = [spec EXCEPT ![i] = s]
        BY <3>1 DEF EditSpec
      <4>2. spec' \in [Instances -> Specs] /\ edits' \in [Instances -> Nat]
        BY <3>1, <4>1 DEF EditSpec, TypeOK
      <4>3. QED BY <3>1, <4>2 DEF EditSpec, TypeOK, run, history
    <3>2. CASE Delete(i)
      BY <3>2 DEF Delete, TypeOK, Phases, run, history
    <3>3. CASE Start(i)
      <4>1. spec[i] \in SpecType
        BY SpecsAssumption DEF TypeOK
      <4>2. QED BY <3>3, <4>1 DEF Start, TypeOK, PCs, cluster, history
    <3>4. QED BY <2>1, <3>1, <3>2, <3>3
  <2>2. ASSUME NEW ref \in build[i].objects \cup todo[i], Apply(i, ref) PROVE TypeOK'
    <3>1. Target(ref.id) \in AllTargets /\ ref \in ResourceRef
      BY <2>0, TargetType DEF ResourceRef
    <3>2. Labelled(i, Target(ref.id)) \in Instances \cup {Nobody}
      BY <3>1 DEF Labelled, TypeOK
    <3>3. QED BY <2>2, <3>1, <3>2 DEF Apply, TypeOK, cluster
  <2>3. ASSUME NEW obj \in build[i].objects \cup todo[i], Find(i, obj) PROVE TypeOK'
    BY <2>0, <2>3 DEF Find, TypeOK, cluster, history
  <2>4. ASSUME NEW obj \in build[i].objects \cup todo[i], Skip(i, obj) PROVE TypeOK'
    <3>1. Target(obj.id) \in AllTargets
      BY <2>0, TargetType DEF ResourceRef
    <3>2. Leaves(i, {Target(obj.id)}) \subseteq Instances \X AllTargets
      BY <3>1, LeavesType
    <3>3. QED BY <2>4, <3>2 DEF Skip, TypeOK, cluster
  <2>5. ASSUME NEW obj \in build[i].objects \cup todo[i], Remove(i, obj) PROVE TypeOK'
    BY <2>5 DEF Remove, TypeOK, cluster
  <2>6. CASE PruneBegins(i) \/ FinalizeBegins(i)
    <3>1. ASSUME NEW prune, NEW stale \in SUBSET ResourceRef, Collect(i, prune, stale)
          PROVE  /\ todo' \in [Instances -> SUBSET ResourceRef]
                 /\ unaccounted' \subseteq Instances \X AllTargets
      <4>1. Leaves(i, Targets(stale) \ Targets(build[i].objects)) \subseteq Instances \X AllTargets
        BY LeavesType, TargetsType
      <4>2. QED BY <3>1, <4>1 DEF Collect, TypeOK
    <3>2. inventory[i] \in SUBSET ResourceRef
      BY DEF TypeOK
    <3>3. StaleObjects(inventory[i], build[i].objects) \in SUBSET ResourceRef
      BY <2>0, <3>2, StaleType
    <3>4. /\ todo' \in [Instances -> SUBSET ResourceRef]
          /\ unaccounted' \subseteq Instances \X AllTargets
      BY <2>6, <3>1, <3>2, <3>3 DEF PruneBegins, FinalizeBegins
    <3>5. QED BY <2>6, <3>4 DEF PruneBegins, FinalizeBegins, TypeOK, PCs, cluster
  <2>7. CASE Record(i) \/ PruneFails(i) \/ Abort(i)
    <3>1. /\ Leaves(i, Targets(todo[i]) \ Targets(build[i].objects)) \subseteq Instances \X AllTargets
          /\ Leaves(i, Targets(applied[i]) \ Targets(inventory[i])) \subseteq Instances \X AllTargets
      <4>1. applied[i] \in SUBSET ResourceRef
        BY DEF TypeOK
      <4>2. QED BY <2>0, <4>1, LeavesType, TargetsType
    <3>2. inventory' \in [Instances -> SUBSET ResourceRef]
      BY <2>0, <2>7 DEF Record, PruneFails, Abort, TypeOK
    <3>3. unaccounted' \subseteq Instances \X AllTargets
      BY <2>7, <3>1 DEF Record, PruneFails, Abort, TypeOK
    <3>4. UNCHANGED <<cluster, label>> /\ Return(i)
      BY <2>7 DEF Record, PruneFails, Abort
    <3>5. QED BY <3>2, <3>3, <3>4, ReturnType DEF TypeOK, cluster
  <2>8. CASE FinalizeFails(i) \/ Finalized(i)
    <3>1. CASE FinalizeFails(i)
      BY <3>1, ReturnType DEF FinalizeFails, TypeOK, cluster
    <3>2. CASE Finalized(i)
      <4>1. phase' \in [Instances -> Phases] /\ inventory' \in [Instances -> SUBSET ResourceRef]
        BY <3>2 DEF Finalized, TypeOK, Phases
      <4>2. QED BY <3>2, <4>1, ReturnType DEF Finalized, TypeOK
    <3>3. QED BY <2>8, <3>1, <3>2
  <2>9. QED BY <2>1, <2>2, <2>3, <2>4, <2>5, <2>6, <2>7, <2>8
<1>3. QED BY <1>1, <1>2, NextCases

(* Every state of every behaviour has its type. *)
THEOREM TypeCorrect == Spec => []TypeOK
BY TypeInit, TypeStep, PTL DEF Spec

-----------------------------------------------------------------------------
(* The invariant that makes them inductive.                                *)

(* The registers of a run at each of its places. *)
Running ==
  \A i \in Instances :
    /\ applied[i] \subseteq build[i].objects /\ found[i] \subseteq todo[i]
    /\ \A ref \in build[i].objects : WellFormed(ref)
    /\ pc[i] \in {"idle", "finalize"} => build[i].objects = {}
    /\ pc[i] \in {"idle", "apply"} => todo[i] = {}
    /\ pc[i] = "prune" => todo[i] \subseteq StaleObjects(inventory[i], build[i].objects)

(* What a collection found had its label, unless it was applied since. *)
FoundOwn ==
  \A i \in Instances : \A obj \in found[i] :
    label[Target(obj.id)] \in {i, Nobody} \/ i \in retaken

(* While a run collects, what it had recorded and still owns is of the new *)
(* build, or yet to be collected, or left behind knowingly.                *)
Collected(i) ==
  \A t \in AllTargets :
    label[t] = i /\ t \in Targets(inventory[i]) =>
      \/ t \in Targets(build[i].objects) \cup Targets(todo[i])
      \/ <<i, t>> \in unaccounted

AllCollected == \A i \in Instances : pc[i] \in {"prune", "finalize"} => Collected(i)

IInv == TypeOK /\ Running /\ FoundOwn /\ AllCollected /\ NothingForgotten

LEMMA InvInit == Init => IInv
<1> SUFFICES ASSUME Init PROVE IInv
  OBVIOUS
<1>1. TypeOK
  BY TypeInit
<1>2. Running /\ FoundOwn /\ AllCollected
  BY DEF Init, Running, FoundOwn, AllCollected, NoBuild
<1>3. NothingForgotten
  BY NobodyAssumption DEF Init, NothingForgotten
<1>4. QED BY <1>1, <1>2, <1>3 DEF IInv

(* A step of one run leaves alone what belongs to the others. *)
Others(i) ==
  \A j \in Instances \ {i} :
    /\ pc'[j] = pc[j] /\ build'[j] = build[j] /\ applied'[j] = applied[j]
    /\ todo'[j] = todo[j] /\ found'[j] = found[j] /\ inventory'[j] = inventory[j]

LEMMA RunningStep == ASSUME TypeOK, Running, [Next]_vars PROVE Running'
<1>1. UNCHANGED vars => Running'
  BY DEF Running, vars, cluster, run
<1>2. ASSUME NEW i \in Instances
      PROVE  /\ EditSpec(i) \/ Delete(i) \/ Start(i) => Running'
             /\ (\E ref \in build[i].objects \cup todo[i] : Apply(i, ref)) => Running'
             /\ (\E obj \in build[i].objects \cup todo[i] : Find(i, obj)) => Running'
             /\ (\E obj \in build[i].objects \cup todo[i] : Skip(i, obj)) => Running'
             /\ (\E obj \in build[i].objects \cup todo[i] : Remove(i, obj)) => Running'
             /\ PruneBegins(i) \/ FinalizeBegins(i) => Running'
             /\ Record(i) \/ PruneFails(i) \/ Abort(i) => Running'
             /\ FinalizeFails(i) \/ Finalized(i) => Running'
  <2>1. CASE EditSpec(i) \/ Delete(i)
    BY <2>1 DEF EditSpec, Delete, Running, run
  <2>2. CASE Start(i)
    <3>1. \A ref \in spec[i].objects : WellFormed(ref)
      BY SpecsAssumption DEF TypeOK
    <3>2. build'[i] = spec[i] /\ pc'[i] = "apply"
      BY <2>2 DEF Start, TypeOK
    <3>3. applied[i] = {} /\ todo[i] = {} /\ found[i] = {}
      BY <2>2 DEF Start, Running
    <3>4. QED BY <2>2, <3>1, <3>2, <3>3 DEF Start, Running, TypeOK
  <2>3. ASSUME NEW ref \in build[i].objects \cup todo[i], Apply(i, ref) PROVE Running'
    <3>1. ref \in build[i].objects
      BY <2>3 DEF Apply, ToApply
    <3>2. applied'[i] \subseteq build[i].objects
      BY <2>3, <3>1 DEF Apply, Running, TypeOK
    <3>3. QED BY <2>3, <3>2 DEF Apply, Running, TypeOK
  <2>4. ASSUME NEW obj \in build[i].objects \cup todo[i], Find(i, obj) PROVE Running'
    BY <2>4 DEF Find, Running, TypeOK
  <2>5. ASSUME NEW obj \in build[i].objects \cup todo[i], Skip(i, obj) PROVE Running'
    BY <2>5 DEF Skip, Running, TypeOK
  <2>6. ASSUME NEW obj \in build[i].objects \cup todo[i], Remove(i, obj) PROVE Running'
    BY <2>6 DEF Remove, Running, TypeOK
  <2>7. CASE PruneBegins(i)
    <3>1. found[i] = {} /\ pc'[i] = "prune"
      BY <2>7 DEF PruneBegins, Running, TypeOK
    <3>2. todo'[i] \subseteq StaleObjects(inventory[i], build[i].objects)
      BY <2>7 DEF PruneBegins, Collect, TypeOK
    <3>3. \A j \in Instances \ {i} : todo'[j] = todo[j] /\ pc'[j] = pc[j]
      BY <2>7 DEF PruneBegins, Collect, TypeOK
    <3>4. QED BY <2>7, <3>1, <3>2, <3>3 DEF PruneBegins, Running
  <2>8. CASE FinalizeBegins(i)
    <3>1. found[i] = {} /\ pc'[i] = "finalize" /\ build[i].objects = {}
      BY <2>8 DEF FinalizeBegins, Running, TypeOK
    <3>2. \A j \in Instances \ {i} : todo'[j] = todo[j] /\ pc'[j] = pc[j]
      BY <2>8 DEF FinalizeBegins, Collect, TypeOK
    <3>3. QED BY <2>8, <3>1, <3>2 DEF FinalizeBegins, Running
  <2>9. CASE Record(i) \/ PruneFails(i) \/ Abort(i) \/ FinalizeFails(i) \/ Finalized(i)
    <3>1. Return(i) /\ \A j \in Instances \ {i} : inventory'[j] = inventory[j]
      BY <2>9 DEF Record, PruneFails, Abort, FinalizeFails, Finalized, TypeOK
    <3>2. /\ applied'[i] = {} /\ found'[i] = {} /\ todo'[i] = {} /\ pc'[i] = "idle"
          /\ build'[i].objects = {}
      BY <3>1 DEF Return, TypeOK, NoBuild
    <3>3. Others(i)
      BY <3>1 DEF Return, TypeOK, Others
    <3>4. QED BY <3>2, <3>3 DEF Running, Others
  <2>10. QED BY <2>1, <2>2, <2>3, <2>4, <2>5, <2>6, <2>7, <2>8, <2>9
<1>3. QED BY <1>1, <1>2, NextCases

LEMMA FoundOwnStep == ASSUME TypeOK, Running, FoundOwn, [Next]_vars PROVE FoundOwn'
<1>1. UNCHANGED vars => FoundOwn'
  BY DEF FoundOwn, vars, run, history
<1>2. ASSUME NEW i \in Instances
      PROVE  /\ EditSpec(i) \/ Delete(i) \/ Start(i) => FoundOwn'
             /\ (\E ref \in build[i].objects \cup todo[i] : Apply(i, ref)) => FoundOwn'
             /\ (\E obj \in build[i].objects \cup todo[i] : Find(i, obj)) => FoundOwn'
             /\ (\E obj \in build[i].objects \cup todo[i] : Skip(i, obj)) => FoundOwn'
             /\ (\E obj \in build[i].objects \cup todo[i] : Remove(i, obj)) => FoundOwn'
             /\ PruneBegins(i) \/ FinalizeBegins(i) => FoundOwn'
             /\ Record(i) \/ PruneFails(i) \/ Abort(i) => FoundOwn'
             /\ FinalizeFails(i) \/ Finalized(i) => FoundOwn'
  <2>1. CASE EditSpec(i) \/ Delete(i) \/ Start(i) \/ PruneBegins(i) \/ FinalizeBegins(i)
    BY <2>1 DEF EditSpec, Delete, Start, PruneBegins, FinalizeBegins, FoundOwn, run, history
  <2>2. ASSUME NEW ref \in build[i].objects \cup todo[i], Apply(i, ref) PROVE FoundOwn'
    <3>1. SUFFICES ASSUME NEW j \in Instances, NEW obj \in found[j]
                   PROVE  label'[Target(obj.id)] \in {j, Nobody} \/ j \in retaken'
      BY <2>2 DEF Apply, FoundOwn
    <3>2. Target(obj.id) \in AllTargets
      BY TargetType DEF TypeOK, ResourceRef
    <3>3. CASE Target(obj.id) = Target(ref.id)
      <4>1. Target(ref.id) \in Targets(found[j])
        BY <3>3 DEF Targets
      <4>2. label'[Target(obj.id)] \in {i, label[Target(obj.id)]} /\ found' = found
        BY <2>2, <3>2, <3>3 DEF Apply, Labelled, TypeOK
      <4>3. j # i => j \in retaken'
        BY <2>2, <4>1 DEF Apply
      <4>4. QED BY <2>2, <4>2, <4>3 DEF Apply, FoundOwn
    <3>4. CASE Target(obj.id) # Target(ref.id)
      BY <2>2, <3>2, <3>4 DEF Apply, FoundOwn, TypeOK
    <3>5. QED BY <3>3, <3>4
  <2>3. ASSUME NEW obj \in build[i].objects \cup todo[i], Find(i, obj) PROVE FoundOwn'
    BY <2>3 DEF Find, Prunable, FoundOwn, TypeOK, history
  <2>4. ASSUME NEW obj \in build[i].objects \cup todo[i], Skip(i, obj) PROVE FoundOwn'
    BY <2>4 DEF Skip, FoundOwn
  <2>5. ASSUME NEW obj \in build[i].objects \cup todo[i], Remove(i, obj) PROVE FoundOwn'
    <3>1. \A t \in AllTargets : label'[t] \in {label[t], Nobody}
      BY <2>5 DEF Remove, TypeOK
    <3>2. found'[i] = {} /\ \A j \in Instances \ {i} : found'[j] = found[j]
      BY <2>5 DEF Remove, TypeOK
    <3>3. \A j \in Instances : \A o \in found[j] : Target(o.id) \in AllTargets
      BY TargetType DEF TypeOK, ResourceRef
    <3>4. retaken' = retaken \ {i}
      BY <2>5 DEF Remove
    <3>5. QED BY <3>1, <3>2, <3>3, <3>4 DEF FoundOwn
  <2>6. CASE Record(i) \/ PruneFails(i) \/ Abort(i) \/ FinalizeFails(i) \/ Finalized(i)
    <3>1. Return(i) /\ label' = label
      BY <2>6 DEF Record, PruneFails, Abort, FinalizeFails, Finalized
    <3>2. QED BY <3>1 DEF Return, FoundOwn, TypeOK
  <2>7. QED BY <2>1, <2>2, <2>3, <2>4, <2>5, <2>6
<1>3. QED BY <1>1, <1>2, NextCases

(* Each part for one object t and one CueInstance j. *)
Accounts(j, t) ==
  /\ label[t] = j => \/ t \in Targets(inventory[j]) \cup Targets(applied[j])
                     \/ <<j, t>> \in unaccounted
  /\ pc[j] \in {"prune", "finalize"} /\ label[t] = j /\ t \in Targets(inventory[j]) =>
       \/ t \in Targets(build[j].objects) \cup Targets(todo[j])
       \/ <<j, t>> \in unaccounted

LEMMA AccountsAll ==
  (AllCollected /\ NothingForgotten) <=> \A j \in Instances, t \in AllTargets : Accounts(j, t)
BY DEF AllCollected, Collected, NothingForgotten, Accounts

LEMMA AccountsStep ==
  ASSUME TypeOK, Running, [Next]_vars,
         NEW j \in Instances, NEW t \in AllTargets, Accounts(j, t)
  PROVE  Accounts(j, t)'
<1>1. UNCHANGED vars => Accounts(j, t)'
  BY DEF Accounts, vars, run, history
<1>2. ASSUME NEW i \in Instances
      PROVE  /\ EditSpec(i) \/ Delete(i) \/ Start(i) => Accounts(j, t)'
             /\ (\E ref \in build[i].objects \cup todo[i] : Apply(i, ref)) => Accounts(j, t)'
             /\ (\E obj \in build[i].objects \cup todo[i] : Find(i, obj)) => Accounts(j, t)'
             /\ (\E obj \in build[i].objects \cup todo[i] : Skip(i, obj)) => Accounts(j, t)'
             /\ (\E obj \in build[i].objects \cup todo[i] : Remove(i, obj)) => Accounts(j, t)'
             /\ PruneBegins(i) \/ FinalizeBegins(i) => Accounts(j, t)'
             /\ Record(i) \/ PruneFails(i) \/ Abort(i) => Accounts(j, t)'
             /\ FinalizeFails(i) \/ Finalized(i) => Accounts(j, t)'
  <2>1. CASE EditSpec(i) \/ Delete(i)
    BY <2>1 DEF EditSpec, Delete, Accounts, run, history
  <2>2. CASE Start(i)
    <3>1. pc'[i] = "apply" /\ (j # i => pc'[j] = pc[j] /\ build'[j] = build[j])
      BY <2>2 DEF Start, TypeOK
    <3>2. QED BY <2>2, <3>1 DEF Start, Accounts, history
  <2>3. ASSUME NEW ref \in build[i].objects \cup todo[i], Apply(i, ref) PROVE Accounts(j, t)'
    <3>1. label'[t] = IF t = Target(ref.id) THEN Labelled(i, t) ELSE label[t]
      BY <2>3 DEF Apply, TypeOK
    <3>2. applied'[j] = IF j = i THEN applied[i] \cup {ref} ELSE applied[j]
      BY <2>3 DEF Apply, TypeOK
    <3>3. CASE t = Target(ref.id)
      <4>1. CASE i = j
        <5>1. t \in Targets(applied'[j])
          BY <3>2, <3>3, <4>1 DEF Targets
        <5>2. pc'[j] = "apply"
          BY <2>3, <4>1 DEF Apply
        <5>3. QED BY <5>1, <5>2 DEF Accounts
      <4>2. CASE i # j
        <5>1. label'[t] = j => label[t] = j
          BY <3>1, <3>3, <4>2 DEF Labelled
        <5>2. <<j, t>> \in unaccounted => <<j, t>> \in unaccounted'
          BY <2>3, <4>2 DEF Apply
        <5>3. QED BY <2>3, <3>2, <4>2, <5>1, <5>2 DEF Apply, Accounts
      <4>3. QED BY <4>1, <4>2
    <3>4. CASE t # Target(ref.id)
      <4>1. Targets(applied[j]) \subseteq Targets(applied'[j])
        BY <3>2 DEF Targets
      <4>2. <<j, t>> \in unaccounted => <<j, t>> \in unaccounted'
        BY <2>3, <3>4 DEF Apply
      <4>3. QED BY <2>3, <3>1, <3>4, <4>1, <4>2 DEF Apply, Accounts
    <3>5. QED BY <3>3, <3>4
  <2>4. ASSUME NEW obj \in build[i].objects \cup todo[i], Find(i, obj) PROVE Accounts(j, t)'
    BY <2>4 DEF Find, Accounts, history
  <2>5. ASSUME NEW obj \in build[i].objects \cup todo[i], Skip(i, obj) \/ Remove(i, obj)
        PROVE  Accounts(j, t)'
    <3>1. todo'[j] = todo[j] \/ (j = i /\ todo'[i] = todo[i] \ {obj})
      BY <2>5 DEF Skip, Remove, TypeOK
    <3>2. t = Target(obj.id) \/ (t \in Targets(todo[j]) => t \in Targets(todo'[j]))
      BY <3>1 DEF Targets
    <3>3. <<j, t>> \in unaccounted => <<j, t>> \in unaccounted'
      BY <2>5 DEF Skip, Remove
    <3>4. CASE t = Target(obj.id)
      <4>1. CASE Skip(i, obj)
        <5>1. label[t] = i => <<i, t>> \in unaccounted'
          BY <3>4, <4>1 DEF Skip, Leaves
        <5>2. QED BY <3>1, <3>3, <4>1, <5>1 DEF Skip, Accounts
      <4>2. CASE Remove(i, obj)
        BY <3>4, <4>2, NobodyAssumption DEF Remove, Accounts, TypeOK
      <4>3. QED BY <2>5, <4>1, <4>2
    <3>5. CASE t # Target(obj.id)
      <4>1. label'[t] = label[t]
        BY <2>5, <3>5 DEF Skip, Remove, TypeOK
      <4>2. UNCHANGED <<inventory, applied, build, pc>>
        BY <2>5 DEF Skip, Remove
      <4>3. QED BY <3>2, <3>3, <3>5, <4>1, <4>2 DEF Accounts
    <3>6. QED BY <3>4, <3>5
  <2>6. CASE PruneBegins(i) \/ FinalizeBegins(i)
    <3>1. UNCHANGED <<inventory, label, build, applied>>
      BY <2>6 DEF PruneBegins, FinalizeBegins
    <3>2. PICK prune \in BOOLEAN, stale \in SUBSET ResourceRef :
            /\ Collect(i, prune, stale)
            /\ Targets(inventory[i]) \subseteq Targets(build[i].objects) \cup Targets(stale)
      <4>1. inventory[i] \in SUBSET ResourceRef /\ build[i] \in SpecType
        BY DEF TypeOK
      <4>2. build[i].objects \in SUBSET ResourceRef /\ build[i].prune \in BOOLEAN
        BY <4>1 DEF SpecType
      <4>3. CASE PruneBegins(i)
        <5>1. \A ref \in build[i].objects : WellFormed(ref)
          BY DEF Running
        <5>2. /\ StaleObjects(inventory[i], build[i].objects) \in SUBSET ResourceRef
              /\ Targets(inventory[i]) \subseteq Targets(build[i].objects)
                   \cup Targets(StaleObjects(inventory[i], build[i].objects))
          BY <4>1, <4>2, <5>1, StaleType, StaleIsAll
        <5>3. QED BY <4>2, <4>3, <5>2 DEF PruneBegins
      <4>4. CASE FinalizeBegins(i)
        <5>1. spec[i].prune \in BOOLEAN
          BY SpecsAssumption DEF TypeOK, SpecType
        <5>2. QED BY <4>1, <4>4, <5>1 DEF FinalizeBegins
      <4>5. QED BY <2>6, <4>3, <4>4
    <3>3. CASE j # i
      <4>1. pc'[j] = pc[j] /\ todo'[j] = todo[j]
        BY <2>6, <3>2, <3>3 DEF PruneBegins, FinalizeBegins, Collect, TypeOK
      <4>2. <<j, t>> \in unaccounted => <<j, t>> \in unaccounted'
        BY <3>2 DEF Collect
      <4>3. QED BY <3>1, <4>1, <4>2 DEF Accounts
    <3>4. CASE j = i
      <4>1. <<j, t>> \in unaccounted => <<j, t>> \in unaccounted'
        BY <3>2 DEF Collect
      <4>2. label[t] = i /\ t \in Targets(stale) \ Targets(build[i].objects) =>
              t \in Targets(todo'[i]) \/ <<i, t>> \in unaccounted'
        BY <3>2 DEF Collect, Leaves, TypeOK
      <4>3. QED BY <3>1, <3>2, <3>4, <4>1, <4>2 DEF Accounts
    <3>5. QED BY <3>3, <3>4
  <2>7. CASE Record(i) \/ PruneFails(i) \/ Abort(i) \/ FinalizeFails(i) \/ Finalized(i)
    <3>1. Return(i) /\ label' = label
          /\ (<<j, t>> \in unaccounted => <<j, t>> \in unaccounted')
      BY <2>7 DEF Record, PruneFails, Abort, FinalizeFails, Finalized
    <3>2. CASE j # i
      <4>1. /\ pc'[j] = pc[j] /\ build'[j] = build[j] /\ applied'[j] = applied[j]
            /\ todo'[j] = todo[j]
        BY <3>1, <3>2 DEF Return, TypeOK
      <4>2. inventory'[j] = inventory[j]
        BY <2>7, <3>2 DEF Record, PruneFails, Abort, FinalizeFails, Finalized, TypeOK
      <4>3. QED BY <3>1, <4>1, <4>2 DEF Accounts
    <3>3. CASE j = i
      <4>1. pc'[i] = "idle"
        BY <3>1 DEF Return, TypeOK
      <4>2. SUFFICES ASSUME label[t] = i
                     PROVE  t \in Targets(inventory'[i]) \/ <<i, t>> \in unaccounted'
        BY <3>1, <3>3, <4>1 DEF Accounts
      <4>3. Targets(applied[i]) \subseteq Targets(build[i].objects)
        BY DEF Running, Targets
      <4>4. CASE Abort(i)
        <5>1. inventory' = inventory
          BY <4>4 DEF Abort
        <5>2. QED BY <3>1, <3>3, <4>2, <4>4, <5>1 DEF Abort, Leaves, Accounts
      <4>5. CASE FinalizeFails(i)
        <5>1. inventory' = inventory /\ Targets(applied[i]) = {}
          BY <4>5 DEF FinalizeFails, Running, Targets
        <5>2. QED BY <3>1, <3>3, <4>2, <5>1 DEF Accounts
      <4>6. CASE Record(i) \/ PruneFails(i)
        <5>1. inventory'[i] = build[i].objects /\ pc[i] = "prune"
          BY <4>6 DEF Record, PruneFails, TypeOK
        <5>2. \/ t \in Targets(build[i].objects) \cup Targets(todo[i])
              \/ <<i, t>> \in unaccounted
          BY <3>3, <4>2, <4>3, <5>1 DEF Accounts
        <5>3. t \in Targets(todo[i]) \ Targets(build[i].objects) => <<i, t>> \in unaccounted'
          BY <4>2, <4>6 DEF Record, PruneFails, Leaves, Targets
        <5>4. QED BY <3>1, <3>3, <5>1, <5>2, <5>3
      <4>7. CASE Finalized(i)
        <5>1. Targets(applied[i]) = {} /\ Targets(todo[i]) = {} /\ Targets(build[i].objects) = {}
          BY <4>7 DEF Finalized, Running, Targets
        <5>2. pc[i] = "finalize"
          BY <4>7 DEF Finalized
        <5>3. QED BY <3>1, <3>3, <4>2, <5>1, <5>2 DEF Accounts
      <4>8. QED BY <2>7, <4>4, <4>5, <4>6, <4>7
    <3>4. QED BY <3>2, <3>3
  <2>8. QED BY <2>1, <2>2, <2>3, <2>4, <2>5, <2>6, <2>7
<1>3. QED BY <1>1, <1>2, NextCases

LEMMA InvStep == ASSUME IInv, [Next]_vars PROVE IInv'
<1>1. TypeOK' /\ Running' /\ FoundOwn'
  BY TypeStep, RunningStep, FoundOwnStep DEF IInv
<1>2. \A j \in Instances, t \in AllTargets : Accounts(j, t)
  BY AccountsAll DEF IInv
<1>3. \A j \in Instances, t \in AllTargets : Accounts(j, t)'
  BY <1>2, AccountsStep DEF IInv
<1>4. (AllCollected /\ NothingForgotten)'
  BY <1>3 DEF AllCollected, Collected, NothingForgotten, Accounts
<1>5. QED BY <1>1, <1>4 DEF IInv

LEMMA Invariant == Spec => []IInv
BY InvInit, InvStep, PTL DEF Spec

(* An object that has the label of a CueInstance is in its inventory or of *)
(* its run under way, unless it was left behind knowingly.                 *)
THEOREM NothingIsForgotten == Spec => []NothingForgotten
<1>1. IInv => NothingForgotten
  BY DEF IInv
<1>2. QED BY <1>1, Invariant, PTL

(* No collection deletes what others applied before it looked.             *)
THEOREM OthersAreSpared == Spec => DeletesOwn
<1> DEFINE Own == \A i \in Instances : \A ref \in found[i] :
                    Remove(i, ref) => label[Target(ref.id)] \in {i, Nobody} \/ i \in retaken
<1>1. IInv => Own
  BY DEF IInv, FoundOwn
<1>2. QED BY <1>1, Invariant, PTL DEF DeletesOwn

-----------------------------------------------------------------------------
(* What a run applied, and the workaround for namespaces.                  *)

(* Where an entry comes from: an earlier version of the controller, or a   *)
(* run, which records what the API server returned; and a build from a     *)
(* spec.                                                                   *)
Origins ==
  \A i \in Instances :
    /\ build[i] \in Specs \cup {NoBuild}
    /\ \A ref \in inventory[i] : WellFormed(ref) \/ \E old \in Recorded : ref \in old[i]

LEMMA OriginsInit == Init => Origins
BY DEF Init, Origins

LEMMA OriginsStep == ASSUME TypeOK, Running, Origins, [Next]_vars PROVE Origins'
<1> DEFINE Kept(j) == inventory'[j] = inventory[j] \/ inventory'[j] \subseteq build[j].objects
<1>1. ASSUME NEW j \in Instances PROVE build'[j] \in {build[j], spec[j], NoBuild} /\ Kept(j)
  <2> DEFINE P == build'[j] \in {build[j], spec[j], NoBuild} /\ Kept(j)
  <2> HIDE DEF P
  <2>1. UNCHANGED vars => P
    BY DEF P, vars, run
  <2>2. ASSUME NEW i \in Instances
        PROVE  /\ EditSpec(i) \/ Delete(i) \/ Start(i) => P
               /\ (\E ref \in build[i].objects \cup todo[i] : Apply(i, ref)) => P
               /\ (\E obj \in build[i].objects \cup todo[i] : Find(i, obj)) => P
               /\ (\E obj \in build[i].objects \cup todo[i] : Skip(i, obj)) => P
               /\ (\E obj \in build[i].objects \cup todo[i] : Remove(i, obj)) => P
               /\ PruneBegins(i) \/ FinalizeBegins(i) => P
               /\ Record(i) \/ PruneFails(i) \/ Abort(i) => P
               /\ FinalizeFails(i) \/ Finalized(i) => P
    <3>1. EditSpec(i) \/ Delete(i) => P
      BY DEF P, EditSpec, Delete, run
    <3>2. Start(i) => P
      BY DEF P, Start, TypeOK
    <3>3. \A obj : Apply(i, obj) \/ Find(i, obj) \/ Skip(i, obj) \/ Remove(i, obj) => P
      BY DEF P, Apply, Find, Skip, Remove
    <3>4. PruneBegins(i) \/ FinalizeBegins(i) => P
      BY DEF P, PruneBegins, FinalizeBegins
    <3>5. Record(i) \/ PruneFails(i) \/ Abort(i) \/ FinalizeFails(i) \/ Finalized(i) => P
      BY DEF P, Record, PruneFails, Abort, FinalizeFails, Finalized, Return, TypeOK
    <3>6. QED BY <3>1, <3>2, <3>3, <3>4, <3>5
  <2>3. P
    BY <2>1, <2>2, NextCases
  <2>4. QED BY <2>3 DEF P
<1>2. \A j \in Instances : spec[j] \in Specs /\ \A ref \in build[j].objects : WellFormed(ref)
  BY DEF TypeOK, Running
<1>3. QED BY <1>1, <1>2 DEF Origins

LEMMA OriginsInvariant == Spec => []Origins
<1>1. IInv /\ Origins /\ [Next]_vars => Origins'
  BY OriginsStep DEF IInv
<1>2. QED BY <1>1, OriginsInit, Invariant, PTL DEF Spec

(* What a collection deletes of what its run has just applied was recorded *)
(* by an earlier version of the controller, with a namespace its kind has  *)
(* not, at an API version other than the one it was applied at.            *)
Misrecorded(i, obj) ==
  ~WellFormed(obj) /\ \E old \in Recorded : obj \in old[i]

HitsMisrecordedOnly ==
  \A i \in Instances : \A obj \in found[i] : \A ref \in applied[i] :
    Remove(i, obj) /\ Target(ref.id) = Target(obj.id)
      => Misrecorded(i, obj) /\ ref.version # obj.version

LEMMA HitsMisrecorded == IInv /\ Origins => HitsMisrecordedOnly
<1> SUFFICES ASSUME IInv, Origins, NEW i \in Instances, NEW obj \in found[i],
                    NEW ref \in applied[i], Target(ref.id) = Target(obj.id)
             PROVE  Misrecorded(i, obj) /\ ref.version # obj.version
  BY DEF HitsMisrecordedOnly
<1>1. /\ obj \in todo[i] /\ ref \in build[i].objects
      /\ \A new \in build[i].objects : WellFormed(new)
      /\ pc[i] = "prune"
  BY DEF IInv, Running, TypeOK, PCs
<1>2. obj \in StaleObjects(inventory[i], build[i].objects)
  BY <1>1 DEF IInv, Running
<1>3. inventory[i] \in SUBSET ResourceRef /\ build[i].objects \in SUBSET ResourceRef
  BY DEF IInv, TypeOK, SpecType
<1>4. ref.version # obj.version
  BY <1>1, <1>2, <1>3, StaleIsNotNew
<1>5. /\ obj \in inventory[i] /\ obj.id # ref.id
      /\ obj.id \in ObjMetadata /\ ref.id \in ObjMetadata
  BY <1>1, <1>2, <1>3, DiffRecorded DEF StaleObjects, ListMeta, ResourceRef
<1>6. ~WellFormed(obj)
  <2>1. SUFFICES ASSUME WellFormed(obj) PROVE obj.id = ref.id
    BY <1>5
  <2>2. WellFormed(ref)
    BY <1>1
  <2>3. QED BY <1>5, <2>1, <2>2 DEF WellFormed, Target, ObjMetadata
<1>7. QED BY <1>4, <1>5, <1>6 DEF Origins, Misrecorded

(* No collection deletes what its own run applied, but for an entry that   *)
(* an earlier version of the controller wrongly recorded as namespaced, of *)
(* an object whose API version has changed since: whatever else is edited, *)
(* renamed or applied at a new version is spared.                          *)
THEOREM OnlyMisrecordedIsHit == Spec => [][HitsMisrecordedOnly]_vars
BY HitsMisrecorded, Invariant, OriginsInvariant, PTL

(* The API version of what was wrongly recorded stays what it is. *)
MisrecordedKeepVersions ==
  \A old \in Recorded, i \in Instances : \A obj \in old[i] :
    WellFormed(obj) \/
    \A s \in Specs : \A ref \in s.objects :
      Target(ref.id) = Target(obj.id) => ref.version = obj.version

(* No collection deletes what its own run applied, under whatever name it  *)
(* was recorded, while what was wrongly recorded keeps its API version;    *)
(* all other versions may change.                                          *)
THEOREM BuiltIsSpared ==
  ASSUME MisrecordedKeepVersions
  PROVE  Spec => PruneSparesBuilt
<1> DEFINE Spared == \A i \in Instances : \A ref \in found[i] :
                       Remove(i, ref) => Target(ref.id) \notin Targets(applied[i])
<1>1. IInv /\ Origins => Spared
  <2>1. SUFFICES ASSUME IInv, Origins, NEW i \in Instances, NEW obj \in found[i],
                        NEW ref \in applied[i], Remove(i, obj), Target(ref.id) = Target(obj.id)
                 PROVE  FALSE
    BY DEF Targets
  <2>2. Misrecorded(i, obj) /\ ref.version # obj.version
    BY <2>1, HitsMisrecorded DEF HitsMisrecordedOnly
  <2>3. ref \in build[i].objects /\ build[i] \in Specs
    BY <2>1 DEF IInv, Running, Origins, NoBuild
  <2>4. QED BY <2>1, <2>2, <2>3 DEF Misrecorded, MisrecordedKeepVersions
<1>2. QED BY <1>1, Invariant, OriginsInvariant, PTL DEF PruneSparesBuilt
=============================================================================
