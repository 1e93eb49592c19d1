----------------------------- MODULE MCOwnership -----------------------------
(***************************************************************************)
(* Two CueInstances and three objects: two namespaced ones, of which one   *)
(* is not to be reconciled and one was recorded at an older version, and   *)
(* one of a kind that has no namespace, which an earlier version of the    *)
(* controller recorded with one.                                           *)
(***************************************************************************)
EXTENDS Ownership

CONSTANTS a, b

Ref(kind, name, namespace) ==
  [ id |-> [group |-> "g", kind |-> kind, name |-> name, namespace |-> namespace],
    version |-> "v1" ]

App    == Ref("Deployment", "app", "default")
OldApp == [App EXCEPT !.version = "v0"]
Kept   == Ref("Deployment", "role", "default")
Role   == Ref("ClusterRole", "role", NoNamespace)
Legacy == Ref("ClusterRole", "role", "default")

MCSpecs ==
  { [objects |-> {App, Role}, prune |-> TRUE],
    [objects |-> {App, Kept}, prune |-> TRUE],
    [objects |-> {Role}, prune |-> FALSE] }

MCRecorded == {[i \in Instances |-> IF i = a THEN {Legacy, OldApp} ELSE {Kept}]}

(* Kept is marked reconcile: disabled; whether it exists is left open. *)
MCDisabled == {Kept.id}
=============================================================================
