------------------------- MODULE CueInstanceStatus -------------------------
(***************************************************************************)
(* The status of a CueInstance and the functions of api/v1alpha1 that      *)
(* compute a new one from an old one.  Nothing here has a state: the       *)
(* reconciler applies these operators to its working copy and publishes    *)
(* the result with patchStatus.                                            *)
(*                                                                         *)
(* A status keeps the two conditions the controller writes (Ready and      *)
(* Healthy, by their status only: reason, message and transition time are  *)
(* wording), the observed generation, the two revisions and the inventory. *)
(* A nil and an empty inventory are the same here: every reader treats     *)
(* them alike.                                                             *)
(***************************************************************************)
EXTENDS Naturals

CONSTANTS
  Objects,      \* identities of the Kubernetes objects a build may produce
  Revisions,    \* revisions a source artifact may have
  NoRevision    \* the empty revision string

ASSUME NoRevisionAssumption == NoRevision \notin Revisions

(* "none" is a condition the list does not hold. *)
ConditionStatus == {"none", "Unknown", "True", "False"}

Revision == Revisions \cup {NoRevision}

Status ==
  [ conditions          : [ready : ConditionStatus, healthy : ConditionStatus],
    observedGeneration  : Nat,
    lastAppliedRevision : Revision,
    lastAttemptedRevision : Revision,
    inventory           : SUBSET Objects ]

EmptyStatus ==
  [ conditions          |-> [ready |-> "none", healthy |-> "none"],
    observedGeneration  |-> 0,
    lastAppliedRevision |-> NoRevision,
    lastAttemptedRevision |-> NoRevision,
    inventory           |-> {} ]

(* Mutant of CueInstanceProgressing: Ready keeps its last value. *)
CueInstanceProgressingKept(s) == s

CueInstanceProgressing(s) == [s EXCEPT !.conditions.ready = "Unknown"]

(* Called with wait (or health checks) set: checkHealth returns before it  *)
(* otherwise, so the branch that removes the condition never runs.         *)
SetCueInstanceHealthiness(s, status) ==
  [s EXCEPT !.conditions.healthy = status]

SetCueInstanceReadiness(s, status, generation, revision) ==
  [s EXCEPT !.conditions.ready       = status,
            !.observedGeneration     = generation,
            !.lastAttemptedRevision  = revision]

(* Neither the inventory nor the observed generation moves. *)
CueInstanceNotReady(s, revision) ==
  [s EXCEPT !.conditions.ready      = "False",
            !.lastAttemptedRevision = IF revision # NoRevision THEN revision ELSE @]

CueInstanceNotReadyInventory(s, inventory, generation, revision) ==
  [SetCueInstanceReadiness(s, "False", generation, revision)
     EXCEPT !.inventory = inventory]

(* Mutant of CueInstanceReadyInventory: the applied revision is not noted. *)
CueInstanceReadyInventoryUnapplied(s, inventory, generation, revision) ==
  [SetCueInstanceReadiness(s, "True", generation, revision)
     EXCEPT !.inventory = inventory]

(* Mutant of CueInstanceReadyInventory: its parameters revision and reason, *)
(* both strings, swapped in the function's header.                         *)
CueInstanceReadyInventoryReason(s, inventory, generation, revision) ==
  [SetCueInstanceReadiness(s, "True", generation, "Succeeded")
     EXCEPT !.inventory = inventory,
            !.lastAppliedRevision = "Succeeded"]

CueInstanceReadyInventory(s, inventory, generation, revision) ==
  [SetCueInstanceReadiness(s, "True", generation, revision)
     EXCEPT !.inventory = inventory,
            !.lastAppliedRevision = revision]

(* A JSON merge patch computed from base to new and applied to server:     *)
(* only the fields in which base and new differ are sent, so a field whose *)
(* new value equals the base's keeps the server's value.  The conditions   *)
(* are one list: sent is TRUE when their wording or transition time        *)
(* differs although their statuses do not.                                 *)
MergePatch(server, base, new, sent) ==
  LET patched(field) == IF new[field] # base[field] THEN new[field] ELSE server[field]
  IN  [ conditions |-> IF sent THEN new.conditions ELSE patched("conditions"),
        observedGeneration    |-> patched("observedGeneration"),
        lastAppliedRevision   |-> patched("lastAppliedRevision"),
        lastAttemptedRevision |-> patched("lastAttemptedRevision"),
        inventory             |-> patched("inventory") ]
=============================================================================
