------------------------------ MODULE Inventory ------------------------------
(***************************************************************************)
(* controllers/cueinstance_inventory.go, and what reconcile makes of it:   *)
(* from the inventory recorded and the one just applied, the objects to    *)
(* collect.  Nothing here has a state.                                     *)
(*                                                                         *)
(* An inventory is the set of its entries: they are written and parsed     *)
(* without loss, and their order decides only that of the deletions.       *)
(***************************************************************************)
CONSTANTS
  Groups, Kinds, Names, Namespaces, Versions,
  NoNamespace,   \* the empty namespace
  ClusterKinds   \* external: the kinds the API server keeps in no namespace

ASSUME NamespaceAssumption == NoNamespace \notin Namespaces
ASSUME ClusterKindsAssumption == ClusterKinds \subseteq Kinds

ObjMetadata ==
  [group : Groups, kind : Kinds, name : Names, namespace : Namespaces \cup {NoNamespace}]

ResourceRef == [id : ObjMetadata, version : Versions]

(* The object an entry denotes to the API server, which takes no notice of *)
(* the namespace where the kind has none.                                  *)
Target(id) == [id EXCEPT !.namespace = IF id.kind \in ClusterKinds THEN NoNamespace ELSE @]

(* ListMetaInInventory. *)
ListMeta(inv) == {e.id : e \in inv}

Targets(inv) == {Target(e.id) : e \in inv}

(* Mutant of VersionOf: looks in the target, which has no such entry. *)
VersionOfNone(inv, id) == ""

VersionOf(inv, id) == CHOOSE v \in Versions : [id |-> id, version |-> v] \in inv

DiffInventory(inv, target) ==
  {[id |-> id, version |-> VersionOf(inv, id)] : id \in ListMeta(inv) \ ListMeta(target)}

(* Mutant of Preserve: there is no workaround. *)
PreserveNone(obj, newObjects) == FALSE

(* The workaround for objects that were wrongly recorded as namespaced: an *)
(* entry just applied without a namespace and alike otherwise.             *)
Preserve(obj, newObjects) ==
  /\ obj.id.namespace # NoNamespace
  /\ \E new \in newObjects :
       /\ new.id.namespace = NoNamespace
       /\ new.version = obj.version
       /\ \A field \in {"group", "kind", "name"} : new.id[field] = obj.id[field]

(* Mutant of StaleObjects: compares with itself. *)
StaleObjectsOfNew(old, new) == DiffInventory(new, new)

StaleObjects(old, new) == {obj \in DiffInventory(old, new) : ~Preserve(obj, new)}
=============================================================================
