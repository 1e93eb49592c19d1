------------------------------- MODULE Rollout -------------------------------
(***************************************************************************)
(* What dependsOn promises, with nothing said of statuses and copies: a    *)
(* CueInstance applies a revision only when each of those it depends on    *)
(* has been rolled out, and at that very revision where both are known to  *)
(* follow the same source.                                                 *)
(***************************************************************************)
CONSTANTS
  Instances,
  Revisions

VARIABLES
  dependsOn, \* of each instance, those it depends on
  alike,     \* of each instance, those known to follow its source
  applied,   \* of each instance, the revisions it ever applied
  rolled     \* of each instance, those it ever was Ready at

vars == <<dependsOn, alike, applied, rolled>>

Init ==
  /\ dependsOn \in [Instances -> SUBSET Instances]
  /\ alike \in [Instances -> SUBSET Instances]
  /\ applied = [i \in Instances |-> {}]
  /\ rolled = [i \in Instances |-> {}]

Apply(i, r) ==
  /\ \A d \in dependsOn[i] : rolled[d] # {} /\ (d \in alike[i] => r \in rolled[d])
  /\ applied' = [applied EXCEPT ![i] = @ \cup {r}]
  /\ UNCHANGED <<dependsOn, alike, rolled>>

RollOut(i, r) ==
  /\ r \in applied[i]
  /\ rolled' = [rolled EXCEPT ![i] = @ \cup {r}]
  /\ UNCHANGED <<dependsOn, alike, applied>>

Next == \E i \in Instances, r \in Revisions : Apply(i, r) \/ RollOut(i, r)

Spec == Init /\ [][Next]_vars
=============================================================================
