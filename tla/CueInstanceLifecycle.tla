----------------------- MODULE CueInstanceLifecycle ------------------------
(***************************************************************************)
(* What a CueInstance promises whoever owns the cluster, with nothing said *)
(* of copies, workers or failures: objects are applied only while it is    *)
(* there, and when it goes it takes along what it has on record, unless    *)
(* pruning was switched off or had to be waived.                           *)
(***************************************************************************)
CONSTANTS
  Objects,    \* identities of cluster objects
  Protected   \* objects their owner asked to keep

VARIABLES
  phase,      \* "live", "deleting" or "gone"
  prunes,     \* the owner wants the objects gone with the CueInstance
  recorded,   \* the inventory its status shows
  objects,    \* the cluster objects that carry its labels
  waived      \* pruning was given up for want of an account

vars == <<phase, prunes, recorded, objects, waived>>

(* Objects an earlier CueInstance left behind carry the same labels.       *)
Init ==
  /\ phase = "live" /\ prunes \in BOOLEAN
  /\ recorded = {} /\ objects \in SUBSET Objects /\ waived = FALSE

(* Only a CueInstance that is there is edited, reconciled and recorded.    *)
Edit ==
  /\ phase # "gone" /\ prunes' \in BOOLEAN
  /\ UNCHANGED <<phase, recorded, objects, waived>>

Apply ==
  /\ phase # "gone"
  /\ objects' \in SUBSET Objects /\ objects \subseteq objects'
  /\ UNCHANGED <<phase, prunes, recorded, waived>>

Record ==
  /\ phase # "gone" /\ recorded' \in SUBSET Objects
  /\ UNCHANGED <<phase, prunes, objects, waived>>

(* Objects may be deleted at any time, pruning waived at any time.         *)
Collect ==
  /\ objects' \in SUBSET objects
  /\ UNCHANGED <<phase, prunes, recorded, waived>>

Waive ==
  /\ waived' = TRUE
  /\ UNCHANGED <<phase, prunes, recorded, objects>>

(* One that was never reconciled is gone at once.                          *)
Delete ==
  /\ phase = "live"
  /\ \/ phase' = "deleting"
     \/ phase' = "gone" /\ recorded = {}
  /\ UNCHANGED <<prunes, recorded, objects, waived>>

Finish ==
  /\ phase = "deleting" /\ phase' = "gone"
  /\ prunes /\ ~waived => recorded \cap objects \subseteq Protected
  /\ UNCHANGED <<prunes, recorded, objects, waived>>

Next == Edit \/ Apply \/ Record \/ Collect \/ Waive \/ Delete \/ Finish

Spec == Init /\ [][Next]_vars
=============================================================================
