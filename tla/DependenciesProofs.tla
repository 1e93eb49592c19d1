------------------------- MODULE DependenciesProofs -------------------------
(***************************************************************************)
(* Proofs about Dependencies, for any number of CueInstances in any        *)
(* topology, and copies that trail as they like.                           *)
(***************************************************************************)
EXTENDS Dependencies, CueInstanceStatusProofs, TLAPS

-----------------------------------------------------------------------------
(* Type correctness.                                                       *)

LEMMA CreatedType == Created \in Instance
BY StatusFunctions DEF Created, Instance, EmptyStatus, Status, ConditionStatus, Revision

LEMMA SeenType == ASSUME NEW s \in Status PROVE Seen(s) \in Status
BY DEF Seen, EmptyStatus, Status, ConditionStatus, Revision

LEMMA ReleasesType == /\ Len(Releases) \in Nat /\ Len(Releases) >= 1
                      /\ \A n \in 1 .. Len(Releases) : Releases[n] \in Revisions
BY ReleasesAssumption

(* A patch with a status keeps the CueInstances ones. *)
LEMMA PatchStatusType ==
  ASSUME TypeOK, NEW i \in Instances, NEW new \in Status, NEW sent \in BOOLEAN,
         PatchStatus(i, new, sent)
  PROVE  instance' \in [Instances -> Instance]
<1>1. MergePatch(instance[i].status, cache[i].status, Seen(new), sent) \in Status
  BY SeenType, MergePatchType DEF TypeOK, Instance
<1>2. QED BY <1>1 DEF PatchStatus, TypeOK, Instance

LEMMA ReturnType ==
  ASSUME TypeOK, NEW i \in Instances, Return(i)
  PROVE  /\ pc' \in [Instances -> PCs] /\ work' \in [Instances -> Instance]
         /\ rev' \in [Instances -> Revision]
BY CreatedType DEF Return, TypeOK, PCs, Revision

LEMMA TypeInit == Init => TypeOK
<1> SUFFICES ASSUME Init PROVE TypeOK
  OBVIOUS
<1>1. source \in 1 .. Len(Releases)
  BY ReleasesType DEF Init
<1>2. QED
  BY <1>1, CreatedType, TopologiesAssumption DEF Init, TypeOK, PCs, Revision

(* The statuses a run of i publishes, of the types they ought to be. *)
LEMMA ConclusionsType ==
  ASSUME TypeOK, NEW i \in Instances
  PROVE  /\ CueInstanceProgressing(cache[i].status) \in Status
         /\ CueInstanceNotReady(cache[i].status, Releases[sourceCache]) \in Status
         /\ CueInstanceNotReady(work[i].status, rev[i]) \in Status
         /\ CueInstanceNotReadyInventory(
              work[i].status, {}, work[i].generation, rev[i]) \in Status
         /\ Reconciled(i) \in Status
<1>1. cache[i].status \in Status /\ work[i].status \in Status
      /\ work[i].generation \in Nat /\ rev[i] \in Revision
  BY DEF TypeOK, Instance
<1>2. Releases[sourceCache] \in Revision
  BY ReleasesType DEF TypeOK, Revision
<1>3. {} \in SUBSET Objects
  OBVIOUS
<1>4. QED BY <1>1, <1>2, <1>3, StatusFunctions DEF Reconciled

(* A run that is under way has a revision of the source. *)
RevOK == \A i \in Instances : pc[i] # "idle" => rev[i] \in Revisions

LEMMA EditedType == ASSUME NEW k \in Instance
                    PROVE  [k EXCEPT !.generation = k.generation + 1] \in Instance
<1>1. k.generation + 1 \in Nat
  BY DEF Instance
<1>2. QED BY <1>1 DEF Instance

LEMMA TypeEnvironment ==
  ASSUME TypeOK,
         \/ PublishArtifact \/ DeliverSource \/ Restart
         \/ \E i \in Instances : EditSpec(i) \/ Deliver(i)
  PROVE  TypeOK'
<1>1. CASE PublishArtifact
  BY <1>1, ReleasesType DEF PublishArtifact, TypeOK, locals, history
<1>2. CASE DeliverSource
  BY <1>2 DEF DeliverSource, TypeOK, locals, history
<1>3. CASE Restart
  BY <1>3, CreatedType DEF Restart, TypeOK, PCs, Revision, history
<1>4. CASE \E i \in Instances : EditSpec(i)
  <2>1. PICK i \in Instances : EditSpec(i)
    BY <1>4
  <2>2. instance[i] \in Instance
    BY <2>1 DEF TypeOK
  <2>3. instance' \in [Instances -> Instance]
    BY <2>1, <2>2, EditedType DEF EditSpec, TypeOK
  <2>4. QED BY <2>1, <2>3 DEF EditSpec, TypeOK, sources, locals, history
<1>5. CASE \E i \in Instances : Deliver(i)
  BY <1>5 DEF Deliver, TypeOK, sources, locals, history
<1>6. QED BY <1>1, <1>2, <1>3, <1>4, <1>5

LEMMA TypeRun ==
  ASSUME TypeOK, RevOK, NEW i \in Instances, NEW sent \in BOOLEAN,
         \/ Start(i, sent) \/ DependencyNotReady(i, sent) \/ Apply(i) \/ Abort(i)
         \/ ApplyFails(i, sent) \/ Healthy(i, sent) \/ HealthFails(i, sent)
  PROVE  TypeOK'
<1> USE ConclusionsType, PatchStatusType, ReturnType
<1>1. CASE Start(i, sent)
  <2>1. instance' \in [Instances -> Instance]
    BY <1>1 DEF Start
  <2>2. work' \in [Instances -> Instance]
    BY <1>1 DEF Start, TypeOK, Instance
  <2>3. Releases[sourceCache] \in Revision
    BY ReleasesType DEF TypeOK, Revision
  <2>4. QED BY <1>1, <2>1, <2>2, <2>3 DEF Start, TypeOK, PCs, sources, history
<1>2. CASE DependencyNotReady(i, sent)
  <2>1. instance' \in [Instances -> Instance]
    BY <1>2 DEF DependencyNotReady
  <2>2. QED BY <1>2, <2>1 DEF DependencyNotReady, TypeOK, sources, locals, history
<1>3. CASE Apply(i)
  <2>1. rev[i] \in Revisions
    BY <1>3 DEF Apply, RevOK
  <2>2. QED BY <1>3, <2>1 DEF Apply, TypeOK, PCs, sources
<1>4. CASE Abort(i)
  BY <1>4 DEF Abort, TypeOK, sources, history
<1>5. CASE ApplyFails(i, sent)
  <2>1. instance' \in [Instances -> Instance]
    BY <1>5 DEF ApplyFails
  <2>2. applied' \in [Instances -> SUBSET Revisions]
    <3>1. rev[i] \in Revisions
      BY <1>5 DEF ApplyFails, RevOK
    <3>2. QED BY <1>5, <3>1 DEF ApplyFails, TypeOK
  <2>3. QED BY <1>5, <2>1, <2>2 DEF ApplyFails, TypeOK, sources
<1>6. CASE Healthy(i, sent)
  <2>1. instance' \in [Instances -> Instance]
    BY <1>6 DEF Healthy
  <2>2. rolled' \in [Instances -> SUBSET Done]
    <3>1. [generation |-> work[i].generation, revision |-> rev[i]] \in Done
      BY <1>6 DEF Healthy, RevOK, TypeOK, Instance, Done
    <3>2. QED BY <1>6, <3>1 DEF Healthy, TypeOK
  <2>3. QED BY <1>6, <2>1, <2>2 DEF Healthy, TypeOK, sources
<1>7. CASE HealthFails(i, sent)
  <2>1. instance' \in [Instances -> Instance]
    BY <1>7 DEF HealthFails
  <2>2. QED BY <1>7, <2>1 DEF HealthFails, TypeOK, sources, history
<1>8. QED BY <1>1, <1>2, <1>3, <1>4, <1>5, <1>6, <1>7

(* A step is the environment's or that of one run. *)
LEMMA NextCases ==
  ASSUME Next
  PROVE  \/ \/ PublishArtifact \/ DeliverSource \/ Restart
            \/ \E i \in Instances : EditSpec(i) \/ Deliver(i)
         \/ \E i \in Instances, sent \in BOOLEAN :
              \/ Start(i, sent) \/ DependencyNotReady(i, sent) \/ Apply(i) \/ Abort(i)
              \/ ApplyFails(i, sent) \/ Healthy(i, sent) \/ HealthFails(i, sent)
<1>1. TRUE \in BOOLEAN
  OBVIOUS
<1>2. QED BY <1>1 DEF Next

LEMMA TypeStep == ASSUME TypeOK, RevOK, [Next]_vars PROVE TypeOK'
<1>1. CASE Next
  BY <1>1, NextCases, TypeEnvironment, TypeRun
<1>2. CASE UNCHANGED vars
  BY <1>2 DEF vars, TypeOK, sources, locals, history
<1>3. QED BY <1>1, <1>2

LEMMA RevStep == ASSUME TypeOK, RevOK, [Next]_vars PROVE RevOK'
<1>1. CASE Next
  <2>1. CASE PublishArtifact \/ DeliverSource \/ Restart
             \/ \E i \in Instances : EditSpec(i) \/ Deliver(i)
    BY <2>1 DEF PublishArtifact, DeliverSource, Restart, EditSpec, Deliver, RevOK, locals
  <2>2. ASSUME NEW i \in Instances, NEW sent \in BOOLEAN, Start(i, sent)
        PROVE  RevOK'
    BY <2>2, ReleasesType DEF Start, RevOK, TypeOK
  <2>3. ASSUME NEW i \in Instances, NEW sent \in BOOLEAN,
               DependencyNotReady(i, sent) \/ Apply(i)
        PROVE  RevOK'
    BY <2>3 DEF DependencyNotReady, Apply, RevOK, TypeOK, locals
  <2>4. ASSUME NEW i \in Instances, Return(i) PROVE RevOK'
    BY <2>4 DEF Return, RevOK, TypeOK
  <2>5. QED BY <1>1, <2>1, <2>2, <2>3, <2>4, NextCases
            DEF Abort, ApplyFails, Healthy, HealthFails
<1>2. CASE UNCHANGED vars
  BY <1>2 DEF vars, RevOK, locals
<1>3. QED BY <1>1, <1>2

(* Every variable keeps its type, and only revisions of the source are     *)
(* ever applied or rolled out.                                             *)
THEOREM TypeCorrect == Spec => []TypeOK
<1>1. Init => TypeOK /\ RevOK
  BY TypeInit DEF Init, RevOK
<1>2. TypeOK /\ RevOK /\ [Next]_vars => (TypeOK /\ RevOK)'
  BY TypeStep, RevStep
<1>3. QED BY <1>1, <1>2, PTL DEF Spec

-----------------------------------------------------------------------------
(* What a status says of its CueInstance.                                  *)

(* A status that says no more than what was done: Ready only if something  *)
(* was rolled out, and a revision only if that one was.                    *)
Known(s, done) ==
  /\ s.conditions.ready = "True" => done # {}
  /\ s.lastAppliedRevision # NoRevision =>
       \E d \in done : d.revision = s.lastAppliedRevision

LEMMA KnownGrows ==
  ASSUME NEW s, NEW done, NEW more, done \subseteq more, Known(s, done)
  PROVE  Known(s, more)
BY DEF Known

(* A patch takes each field from one status or the other, so it knows no   *)
(* more than both.                                                         *)
LEMMA MergePatchKnown ==
  ASSUME NEW s \in Status, NEW base \in Status, NEW new \in Status, NEW sent \in BOOLEAN,
         NEW done, Known(s, done), Known(new, done)
  PROVE  Known(MergePatch(s, base, Seen(new), sent), done)
<1>1. Seen(new) \in Status
  BY SeenType
<1>2. Seen(new).lastAppliedRevision = new.lastAppliedRevision
      /\ Seen(new).conditions.ready = new.conditions.ready
  BY DEF Seen, EmptyStatus, Status
<1>3. LET m == MergePatch(s, base, Seen(new), sent)
      IN  /\ m.lastAppliedRevision \in {s.lastAppliedRevision, Seen(new).lastAppliedRevision}
          /\ m.conditions \in {s.conditions, Seen(new).conditions}
  BY <1>1 DEF MergePatch, Status
<1>4. QED BY <1>2, <1>3 DEF Known

LEMMA EmptyKnown == ASSUME NEW done PROVE Known(EmptyStatus, done)
BY DEF Known, EmptyStatus

(* Of the statuses a run publishes only the last claims something new.     *)
LEMMA ConclusionsKnown ==
  ASSUME NEW s \in Status, NEW g \in Nat, NEW r \in Revision, NEW done, Known(s, done)
  PROVE  /\ Known(CueInstanceProgressing(s), done)
         /\ Known(CueInstanceNotReady(s, r), done)
         /\ Known(CueInstanceNotReadyInventory(s, {}, g, r), done)
         /\ [generation |-> g, revision |-> r] \in done
              => Known(CueInstanceReadyInventory(s, {}, g, r), done)
<1>1. Known(CueInstanceProgressing(s), done)
  BY DEF Known, CueInstanceProgressing, Status
<1>2. Known(CueInstanceNotReady(s, r), done)
  BY DEF Known, CueInstanceNotReady, Status
<1>3. Known(CueInstanceNotReadyInventory(s, {}, g, r), done)
  BY DEF Known, CueInstanceNotReadyInventory, SetCueInstanceReadiness, Status
<1>4. ASSUME [generation |-> g, revision |-> r] \in done
      PROVE  Known(CueInstanceReadyInventory(s, {}, g, r), done)
  <2>1. CueInstanceReadyInventory(s, {}, g, r).lastAppliedRevision = r
    BY DEF CueInstanceReadyInventory, SetCueInstanceReadiness, Status
  <2>2. QED BY <1>4, <2>1 DEF Known
<1>5. QED BY <1>1, <1>2, <1>3, <1>4

-----------------------------------------------------------------------------
(* The inductive invariant.                                                *)

StatusesKnown ==
  \A i \in Instances :
    /\ Known(instance[i].status, rolled[i])
    /\ Known(cache[i].status, rolled[i])
    /\ Known(work[i].status, rolled[i])

(* Every dependency of i has been rolled out, at r where the sources are   *)
(* known to be alike.                                                      *)
Allowed(i, r) ==
  \A d \in topology.dependsOn[i] :
    /\ rolled[d] # {}
    /\ SameSource(i, d) => \E done \in rolled[d] : done.revision = r

RunsOrdered ==
  \A i \in Instances :
    /\ pc[i] # "idle" => Allowed(i, rev[i])
    /\ pc[i] = "await" => rev[i] \in applied[i]

(* One of the blocked never starts. *)
BlockedIdle == \A i \in Blocked : rolled[i] = {} /\ pc[i] = "idle"

IInv == TypeOK /\ RevOK /\ StatusesKnown /\ RunsOrdered /\ BlockedIdle

LEMMA BlockedIsDepending ==
  ASSUME TypeOK, NEW i \in Blocked
  PROVE  topology.dependsOn[i] \cap Blocked # {} /\ i \in Instances
<1>1. PICK S \in SUBSET Instances :
        i \in S /\ \A j \in S : topology.dependsOn[j] \cap S # {}
  BY DEF Blocked
<1>2. S \subseteq Blocked
  BY <1>1 DEF Blocked
<1>3. QED BY <1>1, <1>2

LEMMA StuckIsWaiting ==
  ASSUME TypeOK, NEW i \in Stuck PROVE Waits(i) \cap Stuck # {} /\ i \in Instances
<1>1. PICK S \in SUBSET Instances : i \in S /\ \A j \in S : Waits(j) \cap S # {}
  BY DEF Stuck
<1>2. S \subseteq Stuck
  BY <1>1 DEF Stuck
<1>3. QED BY <1>1, <1>2

(* What no step of the environment, and no patch, touches. *)
LEMMA HistoryGrows ==
  ASSUME TypeOK, [Next]_vars
  PROVE  /\ UNCHANGED topology
         /\ \A i \in Instances : rolled[i] \subseteq rolled'[i] /\ applied[i] \subseteq applied'[i]
<1>1. CASE Next
  <2>1. CASE PublishArtifact \/ DeliverSource \/ Restart
             \/ \E i \in Instances : EditSpec(i) \/ Deliver(i)
    BY <2>1 DEF PublishArtifact, DeliverSource, Restart, EditSpec, Deliver, history
  <2>2. ASSUME NEW i \in Instances, NEW sent \in BOOLEAN,
               \/ Start(i, sent) \/ DependencyNotReady(i, sent) \/ Apply(i) \/ Abort(i)
               \/ ApplyFails(i, sent) \/ Healthy(i, sent) \/ HealthFails(i, sent)
        PROVE  /\ UNCHANGED topology
               /\ \A j \in Instances : rolled[j] \subseteq rolled'[j] /\ applied[j] \subseteq applied'[j]
    BY <2>2 DEF Start, DependencyNotReady, Apply, Abort, ApplyFails, Healthy, HealthFails,
                history, TypeOK
  <2>3. QED BY <1>1, <2>1, <2>2, NextCases
<1>2. CASE UNCHANGED vars
  BY <1>2 DEF vars, history
<1>3. QED BY <1>1, <1>2

LEMMA KnownInit == Init => IInv
<1> SUFFICES ASSUME Init PROVE IInv
  OBVIOUS
<1>1. TypeOK
  BY TypeInit
<1>2. StatusesKnown
  BY EmptyKnown DEF Init, StatusesKnown, Created
<1>3. RevOK /\ RunsOrdered
  BY DEF Init, RevOK, RunsOrdered
<1>4. BlockedIdle
  BY <1>1, BlockedIsDepending DEF Init, BlockedIdle
<1>5. QED BY <1>1, <1>2, <1>3, <1>4 DEF IInv

(* A patch with a status that is known leaves what is in the API server    *)
(* known.                                                                  *)
LEMMA PatchKnown ==
  ASSUME TypeOK, NEW i \in Instances, NEW new \in Status, NEW sent \in BOOLEAN,
         PatchStatus(i, new, sent),
         \A j \in Instances : Known(instance[j].status, rolled'[j]),
         Known(new, rolled'[i])
  PROVE  \A j \in Instances : Known(instance'[j].status, rolled'[j])
<1>1. instance[i].status \in Status /\ cache[i].status \in Status
  BY DEF TypeOK, Instance
<1>2. Known(MergePatch(instance[i].status, cache[i].status, Seen(new), sent), rolled'[i])
  BY <1>1, MergePatchKnown
<1>3. instance'[i].status = MergePatch(instance[i].status, cache[i].status, Seen(new), sent)
  BY DEF PatchStatus, TypeOK, Instance
<1>4. \A j \in Instances \ {i} : instance'[j] = instance[j]
  BY DEF PatchStatus, TypeOK
<1>5. QED BY <1>2, <1>3, <1>4

LEMMA KnownStep == ASSUME IInv, [Next]_vars PROVE StatusesKnown'
<1> USE DEF IInv
<1>1. \A j \in Instances : /\ Known(instance[j].status, rolled'[j])
                            /\ Known(cache[j].status, rolled'[j])
                            /\ Known(work[j].status, rolled'[j])
  BY HistoryGrows, KnownGrows DEF StatusesKnown
<1>2. CASE PublishArtifact \/ DeliverSource \/ UNCHANGED vars
  BY <1>1, <1>2 DEF PublishArtifact, DeliverSource, vars, locals, StatusesKnown
<1>3. CASE Restart
  BY <1>1, <1>3, EmptyKnown DEF Restart, Created, StatusesKnown
<1>4. ASSUME NEW i \in Instances, EditSpec(i) PROVE StatusesKnown'
  <2>1. \A j \in Instances : instance'[j].status = instance[j].status
    BY <1>4 DEF EditSpec, TypeOK, Instance
  <2>2. QED BY <1>1, <1>4, <2>1 DEF EditSpec, locals, StatusesKnown
<1>5. ASSUME NEW i \in Instances, Deliver(i) PROVE StatusesKnown'
  BY <1>1, <1>5 DEF Deliver, TypeOK, locals, StatusesKnown
<1>6. ASSUME NEW i \in Instances, Return(i)
      PROVE  \A j \in Instances : Known(work'[j].status, rolled'[j])
  BY <1>1, <1>6, EmptyKnown DEF Return, Created, TypeOK
<1>7. ASSUME NEW i \in Instances, NEW sent \in BOOLEAN,
             \/ Start(i, sent) \/ DependencyNotReady(i, sent) \/ Apply(i) \/ Abort(i)
             \/ ApplyFails(i, sent) \/ Healthy(i, sent) \/ HealthFails(i, sent)
      PROVE  StatusesKnown'
  <2>1. /\ cache[i].status \in Status /\ work[i].status \in Status
        /\ cache[i].generation \in Nat /\ work[i].generation \in Nat
        /\ rev[i] \in Revision /\ Releases[sourceCache] \in Revision
    BY ReleasesType DEF TypeOK, Instance, Revision
  <2>2. /\ Known(CueInstanceProgressing(cache[i].status), rolled'[i])
        /\ Known(CueInstanceNotReady(cache[i].status, Releases[sourceCache]), rolled'[i])
        /\ Known(CueInstanceNotReady(work[i].status, rev[i]), rolled'[i])
        /\ Known(CueInstanceNotReadyInventory(
                   work[i].status, {}, work[i].generation, rev[i]), rolled'[i])
    BY <1>1, <2>1, ConclusionsKnown
  <2>3. CASE Start(i, sent)
    <3>1. \A j \in Instances : Known(instance'[j].status, rolled'[j])
      BY <1>1, <2>2, <2>3, ConclusionsType, PatchKnown DEF Start
    <3>2. \A j \in Instances : Known(work'[j].status, rolled'[j])
      BY <1>1, <2>2, <2>3 DEF Start, TypeOK, Instance
    <3>3. QED BY <1>1, <2>3, <3>1, <3>2 DEF Start, StatusesKnown
  <2>4. CASE DependencyNotReady(i, sent)
    <3>1. \A j \in Instances : Known(instance'[j].status, rolled'[j])
      BY <1>1, <2>2, <2>4, ConclusionsType, PatchKnown DEF DependencyNotReady
    <3>2. QED BY <1>1, <2>4, <3>1 DEF DependencyNotReady, locals, StatusesKnown
  <2>5. CASE Apply(i)
    BY <1>1, <2>5 DEF Apply, StatusesKnown
  <2>6. CASE Abort(i)
    BY <1>1, <1>6, <2>6 DEF Abort, StatusesKnown
  <2>7. CASE ApplyFails(i, sent)
    <3>1. \A j \in Instances : Known(instance'[j].status, rolled'[j])
      BY <1>1, <2>2, <2>7, ConclusionsType, PatchKnown DEF ApplyFails
    <3>2. QED BY <1>1, <1>6, <2>7, <3>1 DEF ApplyFails, StatusesKnown
  <2>8. CASE Healthy(i, sent)
    <3>1. [generation |-> work[i].generation, revision |-> rev[i]] \in rolled'[i]
      BY <2>8 DEF Healthy, TypeOK
    <3>2. Known(Reconciled(i), rolled'[i])
      BY <1>1, <2>1, <3>1, ConclusionsKnown DEF Reconciled
    <3>3. \A j \in Instances : Known(instance'[j].status, rolled'[j])
      BY <1>1, <3>2, <2>8, ConclusionsType, PatchKnown DEF Healthy
    <3>4. QED BY <1>1, <1>6, <2>8, <3>3 DEF Healthy, StatusesKnown
  <2>9. CASE HealthFails(i, sent)
    <3>1. \A j \in Instances : Known(instance'[j].status, rolled'[j])
      BY <1>1, <2>2, <2>9, ConclusionsType, PatchKnown DEF HealthFails
    <3>2. QED BY <1>1, <1>6, <2>9, <3>1 DEF HealthFails, StatusesKnown
  <2>10. QED BY <1>7, <2>3, <2>4, <2>5, <2>6, <2>7, <2>8, <2>9
<1>8. QED BY <1>2, <1>3, <1>4, <1>5, <1>7, NextCases

(* What i's run learned from the statuses stays so. *)
LEMMA AllowedStays ==
  ASSUME TypeOK, [Next]_vars, NEW i \in Instances, NEW r, Allowed(i, r)
  PROVE  Allowed(i, r)'
<1>1. topology.dependsOn[i] \subseteq Instances
  BY DEF TypeOK, Topology
<1>2. QED BY <1>1, HistoryGrows DEF Allowed, SameSource

(* checkDependencies, on the copies, finds what was done. *)
LEMMA DependenciesMetAllow ==
  ASSUME IInv, NEW i \in Instances, DependenciesMet(i)
  PROVE  Allowed(i, Releases[sourceCache])
<1>1. SUFFICES ASSUME NEW d \in topology.dependsOn[i]
               PROVE  /\ rolled[d] # {}
                      /\ SameSource(i, d) =>
                           \E done \in rolled[d] : done.revision = Releases[sourceCache]
  BY DEF Allowed
<1>2. d \in Instances /\ Known(cache[d].status, rolled[d]) /\ DependencyMet(i, d)
  BY DEF IInv, TypeOK, Topology, StatusesKnown, DependenciesMet
<1>3. Releases[sourceCache] # NoRevision
  BY ReleasesType, NoRevisionAssumption DEF IInv, TypeOK
<1>4. QED BY <1>2, <1>3 DEF Known, DependencyMet, Ready

LEMMA OrderStep == ASSUME IInv, [Next]_vars PROVE RunsOrdered'
<1> USE DEF IInv
<1>1. SUFFICES ASSUME NEW j \in Instances
               PROVE  /\ pc'[j] # "idle" => Allowed(j, rev[j])'
                      /\ pc'[j] = "await" => rev'[j] \in applied'[j]
  BY DEF RunsOrdered
<1>2. CASE pc'[j] = pc[j] /\ rev'[j] = rev[j]
  <2>1. rev[j] \in applied[j] => rev'[j] \in applied'[j]
    BY <1>2, HistoryGrows
  <2>2. Allowed(j, rev[j]) => Allowed(j, rev[j])'
    <3>1. ASSUME NEW r, r = rev[j], Allowed(j, r) PROVE Allowed(j, r)'
      BY <3>1, AllowedStays
    <3>2. QED BY <1>2, <3>1 DEF Allowed
  <2>3. QED BY <1>2, <2>1, <2>2 DEF RunsOrdered
<1>3. CASE pc'[j] = "idle"
  BY <1>3
<1>4. ASSUME NEW sent \in BOOLEAN, Start(j, sent)
      PROVE  pc'[j] = "apply" /\ Allowed(j, rev[j])'
  <2>1. Allowed(j, Releases[sourceCache])
    BY <1>4, DependenciesMetAllow DEF Start
  <2>2. rev'[j] = Releases[sourceCache] /\ pc'[j] = "apply"
    BY <1>4 DEF Start, TypeOK
  <2>3. UNCHANGED <<topology, rolled>>
    BY <1>4 DEF Start, history
  <2>4. QED BY <2>1, <2>2, <2>3 DEF Allowed, SameSource
<1>5. ASSUME Apply(j) PROVE Allowed(j, rev[j])' /\ rev'[j] \in applied'[j]
  <2>1. Allowed(j, rev[j]) /\ rev'[j] = rev[j]
    BY <1>5 DEF Apply, RunsOrdered
  <2>2. ASSUME NEW r, r = rev[j], Allowed(j, r) PROVE Allowed(j, r)'
    BY <2>2, AllowedStays
  <2>3. Allowed(j, rev[j])'
    BY <2>1, <2>2 DEF Allowed
  <2>4. QED BY <1>5, <2>3 DEF Apply, TypeOK
<1>6. \/ pc'[j] = pc[j] /\ rev'[j] = rev[j]
      \/ pc'[j] = "idle"
      \/ \E sent \in BOOLEAN : Start(j, sent)
      \/ Apply(j)
  <2>1. CASE PublishArtifact \/ DeliverSource \/ Restart \/ UNCHANGED vars
             \/ \E i \in Instances : EditSpec(i) \/ Deliver(i)
    BY <2>1 DEF PublishArtifact, DeliverSource, Restart, EditSpec, Deliver, vars, locals
  <2>2. ASSUME NEW i \in Instances, NEW sent \in BOOLEAN,
               \/ Start(i, sent) \/ DependencyNotReady(i, sent) \/ Apply(i) \/ Abort(i)
               \/ ApplyFails(i, sent) \/ Healthy(i, sent) \/ HealthFails(i, sent)
        PROVE  \/ pc'[j] = pc[j] /\ rev'[j] = rev[j]
               \/ pc'[j] = "idle"
               \/ \E s \in BOOLEAN : Start(j, s)
               \/ Apply(j)
    BY <2>2 DEF Start, DependencyNotReady, Apply, Abort, ApplyFails, Healthy, HealthFails,
                Return, locals, TypeOK
  <2>3. QED BY <2>1, <2>2, NextCases
<1>7. QED BY <1>2, <1>3, <1>4, <1>5, <1>6

-----------------------------------------------------------------------------
(* Those that wait for each other.                                         *)

(* A blocked CueInstance is Ready for nobody. *)
LEMMA BlockedNotReady == ASSUME IInv, NEW i \in Blocked PROVE ~Ready(cache[i])
<1>1. i \in Instances /\ rolled[i] = {}
  BY BlockedIsDepending DEF IInv, BlockedIdle
<1>2. QED BY <1>1 DEF IInv, StatusesKnown, Known, Ready

(* Who becomes Ready, and who sets out. *)
LEMMA RunMoves ==
  ASSUME TypeOK, [Next]_vars, NEW i \in Instances
  PROVE  \/ rolled'[i] = rolled[i] /\ pc'[i] \in {pc[i], "idle"}
         \/ \E sent \in BOOLEAN : Start(i, sent)
         \/ Apply(i) /\ rolled'[i] = rolled[i]
         \/ \E sent \in BOOLEAN : Healthy(i, sent)
<1>1. CASE PublishArtifact \/ DeliverSource \/ Restart \/ UNCHANGED vars
           \/ \E j \in Instances : EditSpec(j) \/ Deliver(j)
  BY <1>1 DEF PublishArtifact, DeliverSource, Restart, EditSpec, Deliver, vars, locals, history
<1>2. ASSUME NEW j \in Instances, NEW sent \in BOOLEAN,
             \/ Start(j, sent) \/ DependencyNotReady(j, sent) \/ Apply(j) \/ Abort(j)
             \/ ApplyFails(j, sent) \/ Healthy(j, sent) \/ HealthFails(j, sent)
      PROVE  \/ rolled'[i] = rolled[i] /\ pc'[i] \in {pc[i], "idle"}
             \/ \E s \in BOOLEAN : Start(i, s)
             \/ Apply(i) /\ rolled'[i] = rolled[i]
             \/ \E s \in BOOLEAN : Healthy(i, s)
  BY <1>2 DEF Start, DependencyNotReady, Apply, Abort, ApplyFails, Healthy, HealthFails,
              Return, locals, history, TypeOK
<1>3. QED BY <1>1, <1>2, NextCases

LEMMA BlockedStep == ASSUME IInv, [Next]_vars PROVE BlockedIdle'
<1> USE DEF IInv
<1>1. Blocked' = Blocked
  BY HistoryGrows DEF Blocked
<1>2. SUFFICES ASSUME NEW i \in Blocked PROVE rolled'[i] = {} /\ pc'[i] = "idle"
  BY <1>1 DEF BlockedIdle
<1>3. i \in Instances /\ rolled[i] = {} /\ pc[i] = "idle"
  BY BlockedIsDepending DEF BlockedIdle
<1>4. ASSUME NEW sent \in BOOLEAN, Start(i, sent) PROVE FALSE
  <2>1. PICK j \in Blocked : j \in topology.dependsOn[i]
    BY BlockedIsDepending
  <2>2. Ready(cache[j])
    BY <1>4, <2>1 DEF Start, DependenciesMet, DependencyMet
  <2>3. QED BY <2>2, BlockedNotReady
<1>5. ~Apply(i) /\ \A sent \in BOOLEAN : ~Healthy(i, sent)
  BY <1>3 DEF Apply, Healthy
<1>6. QED BY <1>3, <1>4, <1>5, RunMoves

LEMMA InvStep == ASSUME IInv, [Next]_vars PROVE IInv'
BY TypeStep, RevStep, KnownStep, OrderStep, BlockedStep DEF IInv

LEMMA Invariant == Spec => []IInv
<1>1. Init => IInv
  BY KnownInit
<1>2. IInv /\ [Next]_vars => IInv'
  BY InvStep
<1>3. QED BY <1>1, <1>2, PTL DEF Spec

(* CueInstances that depend on each other in a circle, or on one of those  *)
(* that do, never become Ready: in any topology, of any number.            *)
THEOREM BlockedForGood == Spec => []BlockedForever
<1>1. IInv => BlockedForever
  BY DEF IInv, BlockedIdle, BlockedForever
<1>2. QED BY <1>1, Invariant, PTL

(* Where the health they await is part of what makes CueInstances wait for *)
(* each other, the first of them to become Ready has found another without *)
(* a status: no trailing copy, crash or failure opens the circle.          *)
THEOREM OnlyTheUnseenOpens == Spec => UnseenAloneOpens
<1> DEFINE Opens ==
      (\A i \in Stuck : rolled[i] = {}) =>
        \A i \in Stuck : rolled'[i] # {} =>
          \E j \in ToCheck(i) \cap Stuck : instance[j].status.conditions.ready = "none"
<1>1. IInv /\ [Next]_vars => Opens
  <2>1. SUFFICES ASSUME IInv, [Next]_vars, \A i \in Stuck : rolled[i] = {},
                        NEW i \in Stuck, rolled'[i] # {}
                 PROVE  \E j \in ToCheck(i) \cap Stuck :
                          instance[j].status.conditions.ready = "none"
    OBVIOUS
  <2>2. i \in Instances /\ rolled[i] = {} /\ Waits(i) \cap Stuck # {}
    BY <2>1, StuckIsWaiting DEF IInv
  <2>3. PICK sent \in BOOLEAN : Healthy(i, sent)
    BY <2>1, <2>2, RunMoves DEF IInv, Start, history
  <2>4. topology.dependsOn[i] \cap Stuck = {}
    <3>1. pc[i] = "await"
      BY <2>3 DEF Healthy
    <3>2. Allowed(i, rev[i])
      BY <2>1, <2>2, <3>1 DEF IInv, RunsOrdered
    <3>3. QED BY <2>1, <3>2 DEF Allowed
  <2>5. PICK j \in Stuck : j \in ToCheck(i)
    BY <2>2, <2>4 DEF Waits, ToCheck
  <2>6. j \in Instances /\ rolled[j] = {} /\ Known(instance[j].status, rolled[j])
    BY <2>1, StuckIsWaiting DEF IInv, StatusesKnown
  <2>7. instance[j].status.conditions.ready \in {"none", "True"}
    BY <2>3, <2>5 DEF Healthy, Current
  <2>8. QED BY <2>5, <2>6, <2>7 DEF Known
<1>2. IInv /\ [Next]_vars => [Opens]_vars
  BY <1>1
<1>3. QED BY <1>2, Invariant, PTL DEF Spec, UnseenAloneOpens

-----------------------------------------------------------------------------
(* The promise of dependsOn.                                               *)

LEMMA InitIsInit == ASSUME Init PROVE R!Init
<1>1. topology \in Topology
  BY TypeInit DEF TypeOK
<1>2. QED BY <1>1 DEF Init, R!Init, Topology

(* The step of a run that applies or becomes Ready, seen from Rollout. *)
LEMMA ApplyIsApply ==
  ASSUME IInv, NEW i \in Instances, NEW r, r = rev[i], pc[i] = "apply", UNCHANGED <<topology, rolled>>,
         applied' = [applied EXCEPT ![i] = @ \cup {rev[i]}]
  PROVE  R!Apply(i, r)
<1> DEFINE alike == [j \in Instances |-> {d \in Instances : SameSource(j, d)}]
           done == [j \in Instances |-> {d.revision : d \in rolled[j]}]
<1>1. Allowed(i, rev[i]) /\ topology.dependsOn[i] \subseteq Instances
  BY DEF IInv, RunsOrdered, TypeOK, Topology
<1>2. \A d \in topology.dependsOn[i] :
        done[d] # {} /\ (d \in alike[i] => rev[i] \in done[d])
  BY <1>1 DEF Allowed
<1>3. done' = done /\ alike' = alike
  BY DEF SameSource
<1>4. UNCHANGED <<topology.dependsOn, alike, done>>
  BY <1>3
<1>5. QED BY <1>2, <1>4 DEF R!Apply

LEMMA ReadyIsRollOut ==
  ASSUME IInv, NEW i \in Instances, NEW sent \in BOOLEAN, NEW r, r = rev[i],
         Healthy(i, sent)
  PROVE  R!RollOut(i, r)
<1> DEFINE alike == [j \in Instances |-> {d \in Instances : SameSource(j, d)}]
           done == [j \in Instances |-> {d.revision : d \in rolled[j]}]
<1>1. rev[i] \in applied[i]
  BY DEF Healthy, IInv, RunsOrdered
<1>2. /\ rolled'[i] = rolled[i] \cup {[generation |-> work[i].generation, revision |-> rev[i]]}
      /\ \A j \in Instances \ {i} : rolled'[j] = rolled[j]
  BY DEF Healthy, IInv, TypeOK
<1>3. done' = [done EXCEPT ![i] = @ \cup {rev[i]}]
  <2>0. DEFINE new == [generation |-> work[i].generation, revision |-> rev[i]]
  <2>1. {d.revision : d \in rolled'[i]} = {d.revision : d \in rolled[i]} \cup {rev[i]}
    <3>1. new.revision = rev[i] /\ rolled'[i] = rolled[i] \cup {new}
      BY <1>2
    <3>2. HIDE DEF new
    <3>3. QED BY <3>1
  <2>2. \A j \in Instances \ {i} : {d.revision : d \in rolled'[j]} = {d.revision : d \in rolled[j]}
    BY <1>2
  <2>3. QED BY <2>1, <2>2
<1>4. UNCHANGED <<topology.dependsOn, alike, applied>>
  BY DEF Healthy, SameSource
<1>5. QED BY <1>1, <1>3, <1>4 DEF R!RollOut

LEMMA StepIsStep == ASSUME IInv, [Next]_vars PROVE [R!Next]_(R!vars)
<1>1. ASSUME UNCHANGED <<topology, applied, rolled>> PROVE UNCHANGED R!vars
  BY <1>1 DEF R!vars, SameSource
<1>2. CASE PublishArtifact \/ DeliverSource \/ Restart \/ UNCHANGED vars
           \/ \E j \in Instances : EditSpec(j) \/ Deliver(j)
  BY <1>1, <1>2 DEF PublishArtifact, DeliverSource, Restart, EditSpec, Deliver, vars, history
<1>3. ASSUME NEW i \in Instances, NEW sent \in BOOLEAN,
             \/ Start(i, sent) \/ DependencyNotReady(i, sent) \/ Abort(i)
             \/ HealthFails(i, sent)
      PROVE  UNCHANGED R!vars
  BY <1>1, <1>3 DEF Start, DependencyNotReady, Abort, HealthFails, history
<1>4. ASSUME NEW i \in Instances, NEW sent \in BOOLEAN,
             Apply(i) \/ ApplyFails(i, sent) \/ Healthy(i, sent)
      PROVE  R!Next \/ UNCHANGED R!vars
  <2>1. PICK r \in Revisions : r = rev[i]
    BY <1>4 DEF IInv, RevOK, Apply, ApplyFails, Healthy
  <2>2. CASE Apply(i)
    BY <2>1, <2>2, ApplyIsApply DEF Apply, R!Next
  <2>3. CASE ApplyFails(i, sent)
    <3>1. CASE applied' = applied
      BY <1>1, <2>3, <3>1 DEF ApplyFails
    <3>2. CASE applied' = [applied EXCEPT ![i] = @ \cup {rev[i]}]
      BY <2>1, <2>3, <3>2, ApplyIsApply DEF ApplyFails, R!Next
    <3>3. QED BY <2>3, <3>1, <3>2 DEF ApplyFails
  <2>4. CASE Healthy(i, sent)
    <3>1. R!RollOut(i, r)
      BY <2>1, <2>4, ReadyIsRollOut
    <3>2. QED BY <3>1 DEF R!Next
  <2>5. QED BY <1>4, <2>2, <2>3, <2>4
<1>5. QED BY <1>2, <1>3, <1>4, NextCases

(* Runs that read copies however old of statuses patched field by field    *)
(* apply a revision only after every dependency was Ready, and at that     *)
(* revision if it follows the source under the same reference.             *)
THEOREM DependenciesRollOutFirst == Spec => ImplementsRollout
<1>1. Init => R!Init
  BY InitIsInit
<1>2. IInv /\ [Next]_vars => [R!Next]_(R!vars)
  BY StepIsStep
<1>3. QED BY <1>1, <1>2, Invariant, PTL DEF Spec, ImplementsRollout, R!Spec

-----------------------------------------------------------------------------
(* With an own copy that is up to date when a run begins, a status that    *)
(* reads as Ready is one that a run concluded, whole.                      *)

(* What a copy shows is so. *)
Truthful(k, done) ==
  /\ k.status.observedGeneration <= k.generation
  /\ Ready(k) => [generation |-> k.generation,
                  revision   |-> k.status.lastAppliedRevision] \in done

(* While a run is under way Ready is withdrawn, and the API server, its    *)
(* working copy and the informer's differ in nothing else.                 *)
Agree(i) ==
  /\ instance[i].status.conditions.ready = "Unknown"
  /\ work[i].generation <= instance[i].generation
  /\ \A status \in {work[i].status, cache[i].status} :
       /\ instance[i].status.observedGeneration = status.observedGeneration
       /\ instance[i].status.lastAppliedRevision = status.lastAppliedRevision

Truth ==
  \A i \in Instances :
    /\ Truthful(instance[i], rolled[i]) /\ Truthful(cache[i], rolled[i])
    /\ pc[i] # "idle" => Agree(i)

(* Where base and server agree, a patch arrives, but for conditions that   *)
(* look unchanged.                                                         *)
LEMMA PatchArrives ==
  ASSUME NEW server \in Status, NEW base \in Status, NEW new \in Status, NEW sent \in BOOLEAN,
         server.observedGeneration = base.observedGeneration,
         server.lastAppliedRevision = base.lastAppliedRevision
  PROVE  LET m == MergePatch(server, base, Seen(new), sent)
         IN  /\ m.observedGeneration = new.observedGeneration
             /\ m.lastAppliedRevision = new.lastAppliedRevision
             /\ \/ m.conditions.ready = new.conditions.ready
                \/ m.conditions = server.conditions /\ server # base
<1>1. /\ Seen(new).observedGeneration = new.observedGeneration
      /\ Seen(new).lastAppliedRevision = new.lastAppliedRevision
      /\ Seen(new).conditions.ready = new.conditions.ready
  BY DEF Seen, EmptyStatus, Status
<1>2. Seen(new) \in Status
  BY SeenType
<1>3. QED BY <1>1, <1>2 DEF MergePatch, Status

LEMMA PatchedInstance ==
  ASSUME TypeOK, NEW i \in Instances, NEW new \in Status, NEW sent \in BOOLEAN,
         PatchStatus(i, new, sent),
         instance[i].status.observedGeneration = cache[i].status.observedGeneration,
         instance[i].status.lastAppliedRevision = cache[i].status.lastAppliedRevision
  PROVE  /\ instance'[i].generation = instance[i].generation
         /\ instance'[i].status.observedGeneration = new.observedGeneration
         /\ instance'[i].status.lastAppliedRevision = new.lastAppliedRevision
         /\ \/ instance'[i].status.conditions.ready = new.conditions.ready
            \/ /\ instance'[i].status.conditions = instance[i].status.conditions
               /\ cache[i].status # instance[i].status
         /\ \A j \in Instances \ {i} : instance'[j] = instance[j]
<1>1. instance[i].status \in Status /\ cache[i].status \in Status
  BY DEF TypeOK, Instance
<1>2. instance'[i].status = MergePatch(instance[i].status, cache[i].status, Seen(new), sent)
  BY DEF PatchStatus, TypeOK, Instance
<1>3. /\ instance'[i].generation = instance[i].generation
      /\ \A j \in Instances \ {i} : instance'[j] = instance[j]
  BY DEF PatchStatus, TypeOK, Instance
<1>4. QED BY <1>1, <1>2, <1>3, PatchArrives

LEMMA TruthfulGrows ==
  ASSUME NEW k, NEW done, NEW more, done \subseteq more, Truthful(k, done)
  PROVE  Truthful(k, more)
BY DEF Truthful

LEMMA TruthEnvironment ==
  ASSUME TypeOK, Truth,
         \/ PublishArtifact \/ DeliverSource \/ Restart \/ UNCHANGED vars
         \/ \E i \in Instances : EditSpec(i) \/ Deliver(i)
  PROVE  Truth'
<1>1. CASE PublishArtifact \/ DeliverSource \/ UNCHANGED vars
  BY <1>1 DEF PublishArtifact, DeliverSource, vars, locals, history, Truth, Agree
<1>2. CASE Restart
  BY <1>2 DEF Restart, history, Truth
<1>3. ASSUME NEW i \in Instances, EditSpec(i) PROVE Truth'
  <2>1. /\ instance'[i].status = instance[i].status
        /\ instance'[i].generation = instance[i].generation + 1
        /\ instance[i].generation \in Nat /\ instance[i].status.observedGeneration \in Nat
        /\ work[i].generation \in Nat
        /\ \A j \in Instances \ {i} : instance'[j] = instance[j]
    BY <1>3 DEF EditSpec, TypeOK, Instance, Status
  <2>2. Truthful(instance[i], rolled[i])
    BY DEF Truth
  <2>3. Truthful(instance'[i], rolled'[i])
    BY <2>1, <2>2 DEF Truthful, Ready
  <2>4. (pc[i] # "idle" => Agree(i))'
    BY <1>3, <2>1 DEF EditSpec, locals, Truth, Agree
  <2>5. QED BY <1>3, <2>1, <2>3, <2>4 DEF EditSpec, locals, history, Truth, Agree
<1>4. ASSUME NEW i \in Instances, Deliver(i) PROVE Truth'
  BY <1>4 DEF Deliver, TypeOK, locals, history, Truth, Agree
<1>5. QED BY <1>1, <1>2, <1>3, <1>4

LEMMA TruthRun ==
  ASSUME TypeOK, RevOK, Truth, ~Lagging, NEW i \in Instances, NEW sent \in BOOLEAN,
         \/ Start(i, sent) \/ DependencyNotReady(i, sent) \/ Apply(i) \/ Abort(i)
         \/ ApplyFails(i, sent) \/ Healthy(i, sent) \/ HealthFails(i, sent)
  PROVE  Truth'
<1> USE DEF Truth
<1>0. /\ instance[i] \in Instance /\ cache[i] \in Instance /\ work[i] \in Instance
      /\ rev[i] \in Revision /\ Releases[sourceCache] \in Revision
  BY ReleasesType DEF TypeOK, Revision
<1>1. CASE Start(i, sent)
  <2> DEFINE status == CueInstanceProgressing(cache[i].status)
  <2>1. cache[i] = instance[i] /\ PatchStatus(i, status, sent)
    BY <1>1 DEF Start, Begins
  <2>2. /\ status.observedGeneration = cache[i].status.observedGeneration
        /\ status.lastAppliedRevision = cache[i].status.lastAppliedRevision
        /\ status.conditions.ready = "Unknown"
    BY <1>0 DEF CueInstanceProgressing, Instance, Status
  <2>3. /\ work'[i].status = status /\ work'[i].generation = cache[i].generation
        /\ \A j \in Instances \ {i} : work'[j] = work[j] /\ pc'[j] = pc[j]
    BY <1>0, <1>1 DEF Start, TypeOK, Instance
  <2>4. status \in Status
    BY ConclusionsType
  <2>5. HIDE DEF status
  <2>6. /\ instance'[i].generation = instance[i].generation
        /\ instance'[i].status.observedGeneration = status.observedGeneration
        /\ instance'[i].status.lastAppliedRevision = status.lastAppliedRevision
        /\ instance'[i].status.conditions.ready = "Unknown"
        /\ \A j \in Instances \ {i} : instance'[j] = instance[j]
    BY <2>1, <2>2, <2>4, PatchedInstance
  <2>7. instance[i].generation \in Nat
    BY <1>0 DEF Instance
  <2>8. Truthful(instance'[i], rolled'[i])
    BY <1>1, <2>1, <2>2, <2>6 DEF Start, history, Truthful, Ready
  <2>9. Agree(i)'
    BY <1>1, <2>1, <2>2, <2>3, <2>6, <2>7 DEF Start, Agree
  <2>10. QED BY <1>1, <2>3, <2>6, <2>8, <2>9 DEF Start, history, Agree
<1>2. CASE DependencyNotReady(i, sent)
  <2> DEFINE status == CueInstanceNotReady(cache[i].status, Releases[sourceCache])
  <2>1. cache[i] = instance[i] /\ PatchStatus(i, status, sent) /\ pc[i] = "idle"
    BY <1>2 DEF DependencyNotReady, Begins
  <2>2. /\ status.observedGeneration = cache[i].status.observedGeneration
        /\ status.conditions.ready = "False"
    BY <1>0 DEF CueInstanceNotReady, Instance, Status
  <2>3. status \in Status
    BY ConclusionsType
  <2>4. HIDE DEF status
  <2>5. /\ instance'[i].generation = instance[i].generation
        /\ instance'[i].status.observedGeneration = status.observedGeneration
        /\ instance'[i].status.conditions.ready = "False"
        /\ \A j \in Instances \ {i} : instance'[j] = instance[j]
    BY <2>1, <2>2, <2>3, PatchedInstance
  <2>6. Truthful(instance'[i], rolled'[i])
    BY <1>2, <2>1, <2>2, <2>5 DEF DependencyNotReady, history, Truthful, Ready
  <2>7. QED BY <1>2, <2>1, <2>5, <2>6 DEF DependencyNotReady, locals, history, Agree
<1>3. CASE Apply(i)
  BY <1>3 DEF Apply, TypeOK, Agree
<1>4. CASE Abort(i)
  BY <1>4 DEF Abort, Return, TypeOK, history, Agree
<1>5. ASSUME NEW new \in Status, pc[i] # "idle", PatchStatus(i, new, sent), Return(i),
             UNCHANGED cache, \A j \in Instances \ {i} : rolled'[j] = rolled[j],
             rolled[i] \subseteq rolled'[i],
             new.observedGeneration \in {work[i].status.observedGeneration, work[i].generation},
             new.conditions.ready = "True" =>
               /\ new.observedGeneration = work[i].generation
               /\ [generation |-> work[i].generation, revision |-> new.lastAppliedRevision]
                    \in rolled'[i]
      PROVE  Truth'
  <2>1. Agree(i) /\ Truthful(instance[i], rolled[i]) /\ Truthful(cache[i], rolled[i])
    BY <1>5
  <2>2. /\ instance'[i].generation = instance[i].generation
        /\ instance'[i].status.observedGeneration = new.observedGeneration
        /\ instance'[i].status.lastAppliedRevision = new.lastAppliedRevision
        /\ instance'[i].status.conditions.ready \in {new.conditions.ready, "Unknown"}
        /\ \A j \in Instances \ {i} : instance'[j] = instance[j]
    BY <1>5, <2>1, PatchedInstance DEF Agree
  <2>3. new.observedGeneration <= instance[i].generation
    BY <1>5, <2>1 DEF Agree, Truthful
  <2>4. Truthful(instance'[i], rolled'[i])
    BY <1>5, <2>2, <2>3 DEF Truthful, Ready
  <2>5. Truthful(cache'[i], rolled'[i])
    BY <1>5, <2>1, TruthfulGrows
  <2>6. pc'[i] = "idle" /\ \A j \in Instances \ {i} : pc'[j] = pc[j] /\ work'[j] = work[j]
    BY <1>5 DEF Return, TypeOK
  <2>7. QED BY <1>5, <2>2, <2>4, <2>5, <2>6 DEF Agree
<1>6. work[i].status \in Status /\ work[i].generation \in Nat
  BY <1>0 DEF Instance
<1>7. CASE ApplyFails(i, sent)
  <2> DEFINE new == CueInstanceNotReady(work[i].status, rev[i])
  <2>1. new \in Status /\ new.observedGeneration = work[i].status.observedGeneration
        /\ new.conditions.ready = "False"
    BY <1>6, ConclusionsType DEF CueInstanceNotReady, Status
  <2>2. PatchStatus(i, new, sent) /\ pc[i] # "idle" /\ Return(i) /\ UNCHANGED <<cache, rolled>>
    BY <1>7 DEF ApplyFails
  <2>3. HIDE DEF new
  <2>4. QED BY <1>5, <2>1, <2>2
<1>8. CASE HealthFails(i, sent)
  <2> DEFINE new == CueInstanceNotReadyInventory(work[i].status, {}, work[i].generation, rev[i])
  <2>1. new \in Status /\ new.observedGeneration = work[i].generation
        /\ new.conditions.ready = "False"
    BY <1>6, ConclusionsType
    DEF CueInstanceNotReadyInventory, SetCueInstanceReadiness, Status
  <2>2. PatchStatus(i, new, sent) /\ pc[i] # "idle" /\ Return(i) /\ UNCHANGED <<cache, rolled>>
    BY <1>8 DEF HealthFails, history
  <2>3. HIDE DEF new
  <2>4. QED BY <1>5, <2>1, <2>2
<1>9. CASE Healthy(i, sent)
  <2> DEFINE new == Reconciled(i)
  <2>1. new \in Status /\ new.observedGeneration = work[i].generation
        /\ new.lastAppliedRevision = rev[i]
    BY <1>6, ConclusionsType
    DEF Reconciled, CueInstanceReadyInventory, SetCueInstanceReadiness, Status
  <2>2. /\ PatchStatus(i, new, sent) /\ pc[i] # "idle" /\ Return(i) /\ UNCHANGED cache
        /\ rolled' = [rolled EXCEPT ![i] = @ \cup
             {[generation |-> work[i].generation, revision |-> rev[i]]}]
    BY <1>9 DEF Healthy
  <2>3. HIDE DEF new
  <2>4. /\ [generation |-> work[i].generation, revision |-> rev[i]] \in rolled'[i]
        /\ rolled[i] \subseteq rolled'[i] /\ \A j \in Instances \ {i} : rolled'[j] = rolled[j]
    BY <2>2 DEF TypeOK
  <2>5. QED BY <1>5, <2>1, <2>2, <2>4
<1>10. QED BY <1>1, <1>2, <1>3, <1>4, <1>7, <1>8, <1>9

(* A CueInstance that reads as Ready, in whatever copy, became Ready with  *)
(* that spec and at that revision, if every run begins with an own copy    *)
(* that is up to date.                                                     *)
THEOREM ReadyIsTold == ASSUME ~Lagging PROVE Spec => []ReadyIsRolledOut
<1>1. Init => TypeOK /\ RevOK /\ Truth
  BY TypeInit DEF Init, RevOK, Truth, Truthful, Ready, Created, EmptyStatus
<1>2. TypeOK /\ RevOK /\ Truth /\ [Next]_vars => (TypeOK /\ RevOK /\ Truth)'
  <2>1. ASSUME TypeOK, RevOK, Truth, [Next]_vars PROVE Truth'
    BY <2>1, NextCases, TruthEnvironment, TruthRun
  <2>2. QED BY <2>1, TypeStep, RevStep
<1>3. Truth => ReadyIsRolledOut
  BY DEF Truth, Truthful, ReadyIsRolledOut
<1>4. QED BY <1>1, <1>2, <1>3, PTL DEF Spec
=============================================================================
