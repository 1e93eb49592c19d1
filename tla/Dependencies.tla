---------------------------- MODULE Dependencies ----------------------------
(***************************************************************************)
(* CueInstances of one source that depend on each other (checkDependencies *)
(* of controllers/cueinstance_controller.go) and wait for each other's     *)
(* health (checkHealth): each run reads the others' statuses, which their  *)
(* own runs write at the same time.                                        *)
(*                                                                         *)
(* A run is reduced to what the others can see of it: the statuses it      *)
(* publishes, and that it applied its revision.  What it reads and         *)
(* publishes with nothing to wait for in between is one step here; the     *)
(* rest is CueInstanceReconciler's subject.                                *)
(***************************************************************************)
EXTENDS CueInstanceStatus, Sequences

CONSTANTS
  Instances,   \* the CueInstances
  Topologies,  \* how they may depend on each other
  Releases,    \* bound: the revisions the source publishes, one after another
  MaxEdits,    \* bound: of each, the edits of its spec
  Lagging      \* bound: whether a run may begin before its own copy is up to date

(* dependsOn; awaits: the CueInstances among the objects whose health is   *)
(* assessed; sourceRef: the reference to the one source, as it is written, *)
(* with its namespace or without.                                          *)
Topology ==
  [ dependsOn : [Instances -> SUBSET Instances],
    awaits    : [Instances -> SUBSET Instances],
    sourceRef : [Instances -> {"name", "namespace/name"}] ]

ASSUME TopologiesAssumption == Topologies \subseteq Topology
ASSUME ReleasesAssumption == Releases \in Seq(Revisions) /\ Releases # <<>>
ASSUME BoundsAssumption == MaxEdits \in [Instances -> Nat] /\ Lagging \in BOOLEAN

(* Of a CueInstance, what a run reads. *)
Instance == [generation : Nat, status : Status]

(* What others read of a status: not the inventory, nor the revision       *)
(* attempted, nor the Healthy condition.                                   *)
Seen(status) ==
  [EmptyStatus EXCEPT !.conditions.ready    = status.conditions.ready,
                      !.observedGeneration  = status.observedGeneration,
                      !.lastAppliedRevision = status.lastAppliedRevision]

(* What a run that ended Ready was about. *)
Done == [generation : Nat, revision : Revisions]

VARIABLES
  topology,
  source,       \* the release the source is at
  sourceCache,  \* the informer's copy of it
  instance,     \* the CueInstances in the API server
  cache,        \* the informer's copies of them
  pc, work, rev, \* of each run: place, working copy, revision
  applied,      \* history: the revisions each ever applied
  rolled        \* history: of each, the specs and revisions it ever published Ready

sources == <<source, sourceCache>>
history == <<applied, rolled>>
locals  == <<pc, work, rev>>
vars == <<topology, sources, instance, cache, locals, history>>

PCs == {"idle", "apply", "await"}

Created == [generation |-> 1, status |-> EmptyStatus]

Init ==
  /\ topology \in Topologies
  /\ source = 1 /\ sourceCache = source
  /\ instance = [i \in Instances |-> Created] /\ cache = instance
  /\ pc = [i \in Instances |-> "idle"]
  /\ work = [i \in Instances |-> Created]
  /\ rev = [i \in Instances |-> NoRevision]
  /\ applied = [i \in Instances |-> {}]
  /\ rolled = [i \in Instances |-> {}]

-----------------------------------------------------------------------------
(* The API server, the source, the users, the informers.  A copy may trail *)
(* by any number of versions.                                              *)

PublishArtifact ==
  /\ source < Len(Releases) /\ source' = source + 1
  /\ UNCHANGED <<topology, sourceCache, instance, cache, locals, history>>

EditSpec(i) ==
  /\ instance[i].generation <= MaxEdits[i]
  /\ instance' = [instance EXCEPT ![i].generation = @ + 1]
  /\ UNCHANGED <<topology, sources, cache, locals, history>>

DeliverSource ==
  /\ sourceCache' = source
  /\ UNCHANGED <<topology, source, instance, cache, locals, history>>

Deliver(i) ==
  /\ cache' = [cache EXCEPT ![i] = instance[i]]
  /\ UNCHANGED <<topology, sources, instance, locals, history>>

(* patchStatus: a merge patch against the copy of the moment. *)
PatchStatus(i, new, sent) ==
  instance' = [instance EXCEPT
                 ![i].status = MergePatch(@, cache[i].status, Seen(new), sent)]

(* The run is over. *)
Return(i) ==
  /\ pc' = [pc EXCEPT ![i] = "idle"]
  /\ work' = [work EXCEPT ![i] = Created]
  /\ rev' = [rev EXCEPT ![i] = NoRevision]

-----------------------------------------------------------------------------
(* checkDependencies, on the copies.                                       *)

Ready(k) == k.status.conditions.ready = "True" /\ k.status.observedGeneration = k.generation

(* The references are compared as they are written. *)
SameSource(i, d) == topology.sourceRef[d] = topology.sourceRef[i]

(* Mutants of DependencyMet: not failed is enough; at any revision.        *)
DependencyMetUnlessFailed(i, d) == cache[d].status.conditions.ready # "False"
DependencyMetAtAny(i, d) == Ready(cache[d])

DependencyMet(i, d) ==
  /\ Ready(cache[d])
  /\ SameSource(i, d) => cache[d].status.lastAppliedRevision = Releases[sourceCache]

DependenciesMet(i) == \A d \in topology.dependsOn[i] : DependencyMet(i, d)

(* A run begins with the copies of the moment. *)
Begins(i) == pc[i] = "idle" /\ (cache[i] = instance[i] \/ Lagging)

(* The copies are in the process's memory: the run reads all of them, and  *)
(* reports that it is under way.                                           *)
Start(i, sent) ==
  /\ Begins(i) /\ DependenciesMet(i)
  /\ LET status == CueInstanceProgressing(cache[i].status)
     IN  /\ PatchStatus(i, status, sent)
         /\ work' = [work EXCEPT ![i] = [cache[i] EXCEPT !.status = status]]
  /\ pc' = [pc EXCEPT ![i] = "apply"]
  /\ rev' = [rev EXCEPT ![i] = Releases[sourceCache]]
  /\ UNCHANGED <<topology, sources, cache, history>>

(* The run ends; the next comes at the interval for dependencies.          *)
DependencyNotReady(i, sent) ==
  /\ Begins(i) /\ ~DependenciesMet(i)
  /\ PatchStatus(i, CueInstanceNotReady(cache[i].status, Releases[sourceCache]), sent)
  /\ UNCHANGED <<topology, sources, cache, locals, history>>

-----------------------------------------------------------------------------
(* The run, as far as others see it.                                       *)

Apply(i) ==
  /\ pc[i] = "apply"
  /\ applied' = [applied EXCEPT ![i] = @ \cup {rev[i]}]
  /\ pc' = [pc EXCEPT ![i] = "await"]
  /\ UNCHANGED <<topology, sources, instance, cache, work, rev, rolled>>

(* Whatever fails up to the apply, with objects applied or without.        *)
ApplyFails(i, sent) ==
  /\ pc[i] = "apply"
  /\ applied' \in {applied, [applied EXCEPT ![i] = @ \cup {rev[i]}]}
  /\ PatchStatus(i, CueInstanceNotReady(work[i].status, rev[i]), sent)
  /\ Return(i)
  /\ UNCHANGED <<topology, sources, cache, rolled>>

(* Mutant of ToCheck: an instance that applies itself awaits itself.       *)
ToCheckAll(i) == topology.awaits[i]

(* checkHealth leaves its own object out: the guard against deadlock.      *)
ToCheck(i) == topology.awaits[i] \ {i}

(* Mutant of Reconciled: the generation is read at the end of the run.     *)
ReconciledNewest(i) ==
  CueInstanceReadyInventory(work[i].status, {}, instance[i].generation, rev[i])

Reconciled(i) ==
  CueInstanceReadyInventory(work[i].status, {}, work[i].generation, rev[i])

(* Mutant of Current: one whose run is under way counts as healthy.        *)
CurrentUnlessFailed(k) == k.status.conditions.ready # "False"

(* What kstatus takes for healthy: neither the condition nor the observed  *)
(* generation, where there is one, says otherwise.  A CueInstance no run   *)
(* has reported on has none of them.                                       *)
Current(k) ==
  /\ k.status.conditions.ready \in {"none", "True"}
  /\ k.status.observedGeneration \in {0, k.generation}

(* WaitForSet reads the API server, not the copies.                        *)
Healthy(i, sent) ==
  /\ pc[i] = "await" /\ \A j \in ToCheck(i) : Current(instance[j])
  /\ PatchStatus(i, Reconciled(i), sent)
  /\ rolled' = [rolled EXCEPT ![i] = @ \cup
                   {[generation |-> work[i].generation, revision |-> rev[i]]}]
  /\ Return(i)
  /\ UNCHANGED <<topology, sources, cache, applied>>

(* The objects are applied, but stale ones cannot be deleted, or those     *)
(* awaited are not ready in time.                                          *)
HealthFails(i, sent) ==
  /\ pc[i] = "await"
  /\ PatchStatus(i, CueInstanceNotReadyInventory(
                      work[i].status, {}, work[i].generation, rev[i]), sent)
  /\ Return(i)
  /\ UNCHANGED <<topology, sources, cache, history>>

(* A patch is refused, the first of the run or the last. *)
Abort(i) ==
  /\ pc[i] # "idle"
  /\ Return(i)
  /\ UNCHANGED <<topology, sources, instance, cache, history>>

(* The process dies; its successor lists everything. *)
Restart ==
  /\ pc' = [i \in Instances |-> "idle"]
  /\ work' = [i \in Instances |-> Created]
  /\ rev' = [i \in Instances |-> NoRevision]
  /\ sourceCache' = source /\ cache' = instance
  /\ UNCHANGED <<topology, source, instance, history>>

Next ==
  \/ PublishArtifact \/ DeliverSource \/ Restart
  \/ \E i \in Instances :
       \/ EditSpec(i) \/ Deliver(i) \/ Apply(i) \/ Abort(i)
       \/ \E sent \in BOOLEAN :
            \/ Start(i, sent) \/ DependencyNotReady(i, sent)
            \/ ApplyFails(i, sent) \/ Healthy(i, sent) \/ HealthFails(i, sent)

Spec == Init /\ [][Next]_vars

(* Informers deliver every version.  A run comes back after every          *)
(* interval, so that one whose dependencies are ready between their runs,  *)
(* again and again, is some time started then, and one that awaits others  *)
(* polls them then.  Its first and its last patch are seconds apart every  *)
(* so often: the times in the conditions differ, and are sent.             *)
Fairness ==
  /\ WF_vars(DeliverSource)
  /\ \A i \in Instances :
       /\ SF_vars(Deliver(i))
       /\ SF_vars(\E sent \in BOOLEAN : Start(i, sent))
       /\ WF_vars(Apply(i))
       /\ SF_vars(Healthy(i, TRUE))

FairSpec == Spec /\ Fairness

-----------------------------------------------------------------------------
(* Every variable has its type. *)
TypeOK ==
  /\ topology \in Topology
  /\ source \in 1 .. Len(Releases) /\ sourceCache \in 1 .. Len(Releases)
  /\ instance \in [Instances -> Instance] /\ cache \in [Instances -> Instance]
  /\ pc \in [Instances -> PCs]
  /\ work \in [Instances -> Instance]
  /\ rev \in [Instances -> Revision]
  /\ applied \in [Instances -> SUBSET Revisions]
  /\ rolled \in [Instances -> SUBSET Done]

(* What a run concludes from a status is so: a CueInstance that reads as   *)
(* Ready, in the API server or in a copy however old, did become Ready,    *)
(* with the very spec and at the very revision the two show together,      *)
(* although they are patched field by field.                               *)
ReadyIsRolledOut ==
  \A i \in Instances : \A k \in {instance[i], cache[i]} :
    Ready(k) => [generation |-> k.generation,
                 revision   |-> k.status.lastAppliedRevision] \in rolled[i]

(* Those that depend on each other, or on one of those that do.  Awaiting  *)
(* one's own health is guarded against; depending on oneself is not.       *)
Blocked ==
  UNION {S \in SUBSET Instances : \A i \in S : topology.dependsOn[i] \cap S # {}}

(* Those never become Ready, whatever is delivered, restarted or lost.     *)
BlockedForever == \A i \in Blocked : rolled[i] = {}

(* Those that wait for each other in whatever way: each depends on one of  *)
(* them, or awaits the health of one.                                      *)
Waits(i) == topology.dependsOn[i] \cup (topology.awaits[i] \ {i})

Stuck == UNION {S \in SUBSET Instances : \A i \in S : Waits(i) \cap S # {}}

(* The first of those to become Ready has taken one of them for healthy    *)
(* that no run had reported on: that alone opens such a circle.            *)
UnseenAloneOpens ==
  [][ (\A i \in Stuck : rolled[i] = {}) =>
        \A i \in Stuck : rolled'[i] # {} =>
          \E j \in ToCheck(i) \cap Stuck : instance[j].status.conditions.ready = "none" ]_vars

(* And no others are held up: every CueInstance that waits for none of     *)
(* those comes to the source's revision once there are no edits and no     *)
(* faults and its assessments outlast the runs they await, although the    *)
(* Ready condition it waits for is withdrawn in every run.                 *)
Undisturbed ==
  \/ DeliverSource
  \/ \E i \in Instances :
       \/ Deliver(i) \/ Apply(i)
       \/ \E sent \in BOOLEAN :
            \/ Start(i, sent) \/ DependencyNotReady(i, sent) \/ Healthy(i, sent)
            \/ i \in Stuck /\ HealthFails(i, sent)

RollsOut ==
  \A i \in Instances :
    i \notin Stuck /\ <>[][Undisturbed]_vars =>
      <>[](instance[i].status.lastAppliedRevision = Releases[source])

(* The statuses, patched field by field and read from old copies, keep the *)
(* promise of dependsOn.  No run applies a revision that a dependency at   *)
(* the same source has never been Ready at.  References of one source      *)
(* written differently are not known to be alike: only Ready is asked then. *)
R == INSTANCE Rollout WITH
  dependsOn <- topology.dependsOn,
  alike     <- [i \in Instances |-> {d \in Instances : SameSource(i, d)}],
  rolled    <- [i \in Instances |-> {done.revision : done \in rolled[i]}]

ImplementsRollout == R!Spec
=============================================================================
