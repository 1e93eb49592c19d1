--------------------------- MODULE MCDependencies ---------------------------
(***************************************************************************)
(* Two CueInstances that wait for each other in several ways, over a       *)
(* source that releases two revisions.                                     *)
(***************************************************************************)
EXTENDS Dependencies, TLC

CONSTANTS a, b, r1, r2

(* a depends on nothing but for the circles. *)
Shape(dependsOnA, dependsOnB, awaitsB) ==
  [ dependsOn |-> (a :> dependsOnA) @@ (b :> dependsOnB),
    awaits    |-> (a :> {}) @@ (b :> awaitsB),
    sourceRef |-> [i \in Instances |-> "name"] ]

MCTopologies ==
  { Shape({}, {a}, {b}),    \* a chain; b applies itself as well
    [Shape({}, {a}, {a}) EXCEPT !.sourceRef[b] = "namespace/name"],
    Shape({b}, {a}, {}),    \* a circle
    Shape({b}, {}, {a}),    \* b applies a, which depends on b
    [Shape({}, {}, {a}) EXCEPT !.awaits[a] = {b}] }   \* they apply each other

MCReleases == <<r1, r2>>

MCMaxEdits == (a :> 1) @@ (b :> 0)
=============================================================================
