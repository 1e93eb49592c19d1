------------------------------ MODULE Ownership ------------------------------
(***************************************************************************)
(* CueInstances whose builds overlap: each run applies its objects one by  *)
(* one, labels them as its own, and collects what it recorded before and   *)
(* builds no more (apply, prune and finalize of                            *)
(* controllers/cueinstance_controller.go, the inventory of                 *)
(* controllers/cueinstance_inventory.go).  A collection reads an object,   *)
(* looks for its own label, and deletes in a request of its own, which     *)
(* asks for nothing: others apply in between.                              *)
(*                                                                         *)
(* Statuses other than the inventory, and old copies of it, are            *)
(* CueInstanceReconciler's subject: a run reads and records the newest.    *)
(***************************************************************************)
EXTENDS Inventory, Naturals

CONSTANTS
  Instances,   \* the CueInstances
  Nobody,      \* the label of an object that does not exist
  Specs,       \* what a CueInstance may be told to build
  Recorded,    \* the inventories it may have from an earlier version
  Protected,   \* objects marked prune: disabled or reconcile: disabled
  Disabled,    \* those marked reconcile: disabled, in the manifest while not on the cluster
  MaxEdits     \* bound: edits of each spec

SpecType == [objects : SUBSET ResourceRef, prune : BOOLEAN]

AllTargets == {Target(id) : id \in ObjMetadata}

(* The API server applies, and returns, no others. *)
WellFormed(ref) == ref.id.namespace = NoNamespace <=> ref.id.kind \in ClusterKinds

ASSUME SpecsAssumption ==
  Specs \subseteq SpecType /\ \A s \in Specs : \A ref \in s.objects : WellFormed(ref)
ASSUME RecordedAssumption == Recorded \subseteq [Instances -> SUBSET ResourceRef]
ASSUME DisabledAssumption == Disabled \subseteq Protected
ASSUME NobodyAssumption == Nobody \notin Instances
ASSUME EditsAssumption == MaxEdits \in Nat

VARIABLES
  phase, spec, edits,  \* of each CueInstance, in the API server
  inventory,           \* status.inventory of each
  label,               \* of each object, whose label it has
  pc,                  \* of each run: its place
  build,               \* what it builds: the spec it read
  applied,             \* what it has applied
  todo,                \* what it has yet to collect
  found,               \* the object it found with its own label
  unaccounted,         \* history: <<i, object>>, what i left behind knowingly
  retaken              \* history: those that found an object others applied since

cluster == <<phase, spec, edits>>
run == <<pc, build, applied, todo, found>>
history == <<unaccounted, retaken>>
vars == <<cluster, inventory, label, run, history>>

Phases == {"active", "deleting", "gone"}
PCs == {"idle", "apply", "prune", "finalize"}

NoBuild == [objects |-> {}, prune |-> FALSE]

Init ==
  /\ phase = [i \in Instances |-> "active"]
  /\ spec \in [Instances -> Specs]
  /\ edits = [i \in Instances |-> 0]
  /\ inventory \in Recorded
  /\ label \in [AllTargets -> Instances \cup {Nobody}]
  /\ \A t \in AllTargets :
       \/ label[t] # Nobody /\ t \in Targets(inventory[label[t]])
       \/ label[t] = Nobody
            /\ (t \in Disabled \/ \A i \in Instances : t \notin Targets(inventory[i]))
  /\ pc = [i \in Instances |-> "idle"]
  /\ build = [i \in Instances |-> NoBuild]
  /\ applied = [i \in Instances |-> {}]
  /\ todo = [i \in Instances |-> {}]
  /\ found = [i \in Instances |-> {}]
  /\ unaccounted = {} /\ retaken = {}

-----------------------------------------------------------------------------
(* The users.                                                              *)

EditSpec(i) ==
  /\ phase[i] = "active" /\ edits[i] < MaxEdits
  /\ spec' \in {[spec EXCEPT ![i] = s] : s \in Specs \ {spec[i]}}
  /\ edits' = [edits EXCEPT ![i] = @ + 1]
  /\ UNCHANGED <<phase, inventory, label, run, history>>

Delete(i) ==
  /\ phase[i] = "active" /\ edits[i] < MaxEdits
  /\ phase' = [phase EXCEPT ![i] = "deleting"]
  /\ UNCHANGED <<spec, edits, inventory, label, run, history>>

-----------------------------------------------------------------------------
(* The run.                                                                *)

Return(i) ==
  /\ pc' = [pc EXCEPT ![i] = "idle"]
  /\ build' = [build EXCEPT ![i] = NoBuild]
  /\ applied' = [applied EXCEPT ![i] = {}]
  /\ todo' = [todo EXCEPT ![i] = {}]
  /\ found' = [found EXCEPT ![i] = {}]
  /\ retaken' = retaken \ {i}

(* Of these objects, the ones i leaves with its label: no inventory names  *)
(* them any more.                                                          *)
Leaves(i, targets) == {<<i, t>> : t \in {u \in targets : label[u] = i}}

Start(i) ==
  /\ pc[i] = "idle" /\ phase[i] = "active"
  /\ pc' = [pc EXCEPT ![i] = "apply"]
  /\ build' = [build EXCEPT ![i] = spec[i]]
  /\ UNCHANGED <<cluster, inventory, label, applied, todo, found, history>>

(* Mutant of ToApply: what is recorded is taken to exist. *)
ToApplyUnrecorded(i) == build[i].objects \ (applied[i] \cup inventory[i])

ToApply(i) == build[i].objects \ applied[i]

(* The apply forces the ownership of the fields, the label's too.  What is *)
(* marked reconcile: disabled is passed over, but counts as applied.       *)
Labelled(i, t) == IF t \in Disabled THEN label[t] ELSE i

Apply(i, ref) ==
  /\ pc[i] = "apply" /\ ref \in ToApply(i)
  /\ label' = [label EXCEPT ![Target(ref.id)] = Labelled(i, Target(ref.id))]
  /\ applied' = [applied EXCEPT ![i] = @ \cup {ref}]
  /\ unaccounted' = unaccounted \ {<<i, Target(ref.id)>>}
  /\ retaken' = retaken \cup {j \in Instances \ {i} : Target(ref.id) \in Targets(found[j])}
  /\ UNCHANGED <<cluster, inventory, pc, build, todo, found>>

(* With prune unset what is stale is left where it is. *)
Collect(i, prune, stale) ==
  /\ todo' = [todo EXCEPT ![i] = IF prune THEN stale ELSE {}]
  /\ unaccounted' = IF prune THEN unaccounted
                      ELSE unaccounted \cup Leaves(i, Targets(stale) \ Targets(build[i].objects))

(* The new inventory holds all that the run applied. *)
PruneBegins(i) ==
  /\ pc[i] = "apply" /\ ToApply(i) = {}
  /\ Collect(i, build[i].prune, StaleObjects(inventory[i], build[i].objects))
  /\ pc' = [pc EXCEPT ![i] = "prune"]
  /\ UNCHANGED <<cluster, inventory, label, build, applied, found, retaken>>

(* Mutant of Prunable: whoever applied it last. *)
PrunableAnyones(i, t) == label[t] # Nobody /\ t \notin Protected

Prunable(i, t) == label[t] = i /\ t \notin Protected

(* DeleteAll reads the object and finds it is to be deleted. *)
Find(i, obj) ==
  /\ found[i] = {} /\ obj \in todo[i] /\ Prunable(i, Target(obj.id))
  /\ found' = [found EXCEPT ![i] = {obj}]
  /\ UNCHANGED <<cluster, inventory, label, pc, build, applied, todo, history>>

(* Or that it is gone, another's, or excluded. *)
Skip(i, obj) ==
  /\ found[i] = {} /\ obj \in todo[i] /\ ~Prunable(i, Target(obj.id))
  /\ todo' = [todo EXCEPT ![i] = @ \ {obj}]
  /\ unaccounted' = unaccounted \cup Leaves(i, {Target(obj.id)})
  /\ UNCHANGED <<cluster, inventory, label, pc, build, applied, found, retaken>>

(* The request to delete it has no precondition. *)
Remove(i, obj) ==
  /\ obj \in found[i]
  /\ label' = [label EXCEPT ![Target(obj.id)] = Nobody]
  /\ todo' = [todo EXCEPT ![i] = @ \ {obj}]
  /\ found' = [found EXCEPT ![i] = {}]
  /\ retaken' = retaken \ {i}
  /\ UNCHANGED <<cluster, inventory, pc, build, applied, unaccounted>>

(* The inventory is published, whatever comes of the health assessment. *)
Record(i) ==
  /\ pc[i] = "prune" /\ todo[i] = {}
  /\ inventory' = [inventory EXCEPT ![i] = build[i].objects]
  /\ Return(i)
  /\ UNCHANGED <<cluster, label, unaccounted>>

(* And when the collection fails: what it had yet to collect is in no      *)
(* inventory then.                                                         *)
PruneFails(i) ==
  /\ pc[i] = "prune" /\ todo[i] # {}
  /\ inventory' = [inventory EXCEPT ![i] = build[i].objects]
  /\ unaccounted' = unaccounted \cup
       Leaves(i, Targets(todo[i]) \ Targets(build[i].objects))
  /\ Return(i)
  /\ UNCHANGED <<cluster, label>>

(* The run ends and records nothing: the apply or the patch fails, or the  *)
(* process dies.                                                           *)
Abort(i) ==
  /\ pc[i] \in {"apply", "prune"}
  /\ unaccounted' = unaccounted \cup
       Leaves(i, Targets(applied[i]) \ Targets(inventory[i]))
  /\ Return(i)
  /\ UNCHANGED <<cluster, inventory, label>>

-----------------------------------------------------------------------------
(* finalize: the inventory is collected, and the CueInstance let go.       *)

(* Suspended, or with its account gone, it leaves its objects behind. *)
FinalizeBegins(i) ==
  /\ pc[i] = "idle" /\ phase[i] = "deleting"
  /\ pc' = [pc EXCEPT ![i] = "finalize"]
  /\ \E prune \in {spec[i].prune, FALSE} : Collect(i, prune, inventory[i])
  /\ UNCHANGED <<cluster, inventory, label, build, applied, found, retaken>>

(* Retried: nothing is forgotten. *)
FinalizeFails(i) ==
  /\ pc[i] = "finalize"
  /\ Return(i)
  /\ UNCHANGED <<cluster, inventory, label, unaccounted>>

Finalized(i) ==
  /\ pc[i] = "finalize" /\ todo[i] = {}
  /\ phase' = [phase EXCEPT ![i] = "gone"]
  /\ inventory' = [inventory EXCEPT ![i] = {}]
  /\ Return(i)
  /\ UNCHANGED <<spec, edits, label, unaccounted>>

-----------------------------------------------------------------------------

(* A run of i that goes on without a fault. *)
Proceeds(i) ==
  \/ Start(i) \/ PruneBegins(i) \/ Record(i) \/ FinalizeBegins(i) \/ Finalized(i)
  \/ \E ref \in build[i].objects \cup todo[i] :
       Apply(i, ref) \/ Find(i, ref) \/ Skip(i, ref) \/ Remove(i, ref)

Next ==
  \E i \in Instances :
    \/ EditSpec(i) \/ Delete(i) \/ Proceeds(i)
    \/ PruneFails(i) \/ Abort(i) \/ FinalizeFails(i)

Spec == Init /\ [][Next]_vars

(* Runs go on, and come back after every interval. *)
FairSpec == Spec /\ \A i \in Instances : WF_vars(Proceeds(i))

-----------------------------------------------------------------------------
(* Types. *)
TypeOK ==
  /\ phase \in [Instances -> Phases] /\ spec \in [Instances -> Specs]
  /\ edits \in [Instances -> Nat]
  /\ inventory \in [Instances -> SUBSET ResourceRef]
  /\ label \in [AllTargets -> Instances \cup {Nobody}]
  /\ pc \in [Instances -> PCs] /\ build \in [Instances -> SpecType]
  /\ applied \in [Instances -> SUBSET ResourceRef]
  /\ todo \in [Instances -> SUBSET ResourceRef]
  /\ found \in [Instances -> SUBSET ResourceRef]
  /\ unaccounted \subseteq Instances \X AllTargets /\ retaken \subseteq Instances

(* An object with the label of i is named by the inventory of i, or was    *)
(* applied by the run of i that is under way, unless i left it knowingly:  *)
(* a run failed, pruning is unset or refused.  Whatever others apply, take *)
(* over and delete meanwhile, nothing is merely forgotten.                 *)
NothingForgotten ==
  \A i \in Instances, t \in AllTargets :
    label[t] = i => \/ t \in Targets(inventory[i]) \cup Targets(applied[i])
                    \/ <<i, t>> \in unaccounted

(* What is deleted has the label of the one that deletes it, however many  *)
(* have recorded it; but for what another applied between the read and the *)
(* delete, for the request asks for nothing.                               *)
DeletesOwn ==
  [][\A i \in Instances : \A ref \in found[i] :
       Remove(i, ref) => label[Target(ref.id)] \in {i, Nobody} \/ i \in retaken]_vars

(* A run does not delete what it has just applied, even where an earlier   *)
(* version recorded it with a namespace it has not.  Here such an entry    *)
(* keeps its API version: where that has changed as well, the workaround   *)
(* misses it (OwnershipProofs, OnlyMisrecordedIsHit).                      *)
PruneSparesBuilt ==
  [][\A i \in Instances : \A ref \in found[i] :
       Remove(i, ref) => Target(ref.id) \notin Targets(applied[i])]_vars

(* Once there are no edits and no faults, what someone builds exists for   *)
(* good, unless it is marked reconcile: disabled, though another that took *)
(* it over collected it; and what nobody builds is gone, though two had    *)
(* applied it and each saw the label of the other.                         *)
Wanted == UNION {Targets(spec[i].objects) : i \in {j \in Instances : phase[j] = "active"}}

Settled ==
  \A t \in AllTargets :
    IF t \in Wanted THEN label[t] # Nobody \/ t \in Disabled
                    ELSE label[t] = Nobody \/ <<label[t], t>> \in unaccounted

Settles == <>[][\E i \in Instances : Proceeds(i)]_vars => <>[]Settled
=============================================================================
