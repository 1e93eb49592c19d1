-------------------- MODULE CueInstanceReconcilerProofs --------------------
(***************************************************************************)
(* Proofs about CueInstanceReconciler, for every value of its constants.   *)
(***************************************************************************)
EXTENDS CueInstanceReconciler, CueInstanceStatusProofs, SequenceTheorems, TLAPS

-----------------------------------------------------------------------------
(* Type correctness.                                                       *)

(* A write of a CueInstance keeps the types of the server and the informer. *)
LEMMA StoreType ==
  ASSUME TypeOK, NEW new \in CueInstance, Store(new)
  PROVE  obj' \in CueInstance /\ cache' \in CueInstance /\ watch' \in Seq(CueInstance)
BY DEF TypeOK, Store

(* A status patch keeps them too. *)
LEMMA PatchStatusType ==
  ASSUME TypeOK, NEW new \in Status, PatchStatus(new)
  PROVE  obj' \in CueInstance /\ cache' \in CueInstance /\ watch' \in Seq(CueInstance)
<1>1. PICK sent \in BOOLEAN :
        Store([obj EXCEPT !.status = MergePatch(obj.status, cache.status, new, sent)])
  BY DEF PatchStatus
<1>2. obj.status \in Status /\ cache.status \in Status
  BY DEF TypeOK, CueInstance
<1>3. MergePatch(obj.status, cache.status, new, sent) \in Status
  BY <1>2, MergePatchType
<1>4. [obj EXCEPT !.status = MergePatch(obj.status, cache.status, new, sent)] \in CueInstance
  BY <1>3 DEF TypeOK, CueInstance
<1>5. QED BY <1>1, <1>4, StoreType

(* The locals of a run that returns, and of one that has yet to start. *)
LEMMA ReturnType ==
  ASSUME Return
  PROVE  /\ pc' \in PCs /\ work' \in CueInstance /\ current' \in BOOLEAN
         /\ rev' \in Revision /\ build' \subseteq Objects /\ result' \in Status
<1>1. NoWork \in CueInstance
  BY DEF NoWork, CueInstance, Phases, SpecType, EmptyStatus, Status, ConditionStatus, Revision
<1>2. EmptyStatus \in Status
  BY DEF EmptyStatus, Status, ConditionStatus, Revision
<1>3. QED BY <1>1, <1>2 DEF Return, PCs, Revision

(* Every branch Reconcile takes after its read keeps the types. *)
LEMMA DispatchType ==
  ASSUME TypeOK, NEW instance \in CueInstance, NEW match \in BOOLEAN, Dispatch(instance, match)
  PROVE  /\ pc' \in PCs /\ work' \in CueInstance /\ current' \in BOOLEAN
         /\ rev' \in Revision /\ build' \subseteq Objects /\ result' \in Status
<1>1. CASE Return
  BY <1>1, ReturnType
<1>2. CASE ~Return
  BY <1>2 DEF Dispatch, TypeOK, PCs
<1>3. QED BY <1>1, <1>2

LEMMA TypeInit == Init => TypeOK
<1> SUFFICES ASSUME Init PROVE TypeOK
  OBVIOUS
<1>1. EmptyStatus \in Status
  BY DEF EmptyStatus, Status, ConditionStatus, Revision
<1>2. obj \in CueInstance
  BY <1>1, SpecsAssumption DEF Init, CueInstance, Phases
<1>3. NoWork \in CueInstance
  BY <1>1 DEF NoWork, CueInstance, Phases, SpecType
<1>4. cache \in CueInstance /\ watch \in Seq(CueInstance)
  BY <1>2 DEF Init
<1>5. QED
  BY <1>1, <1>2, <1>3, <1>4 DEF Init, TypeOK, PCs, Revision, ConditionStatus

(* Every status a run concludes with is a status. *)
LEMMA ConclusionType ==
  ASSUME TypeOK
  PROVE  /\ Ready \in Status /\ Unhealthy \in Status
         /\ \A r \in Revision : CueInstanceNotReady(work.status, r) \in Status
         /\ CueInstanceProgressing(work.status) \in Status
         /\ SetCueInstanceHealthiness(CueInstanceProgressing(work.status), "Unknown") \in Status
<1>1. work.status \in Status /\ work.generation \in Nat /\ build \in SUBSET Objects
      /\ rev \in Revision
  BY DEF TypeOK, CueInstance
<1>2. CueInstanceProgressing(work.status) \in Status
  BY <1>1, StatusFunctions
<1>3. QED BY <1>1, <1>2, StatusFunctions DEF Ready, Unhealthy

LEMMA TypeStarts == ASSUME TypeOK, Starts PROVE TypeOK'
<1>1. CASE Begin
  <2>1. (watch = <<>>) \in BOOLEAN /\ cache \in CueInstance
    BY DEF TypeOK
  <2>2. /\ pc' \in PCs /\ work' \in CueInstance /\ current' \in BOOLEAN
        /\ rev' \in Revision /\ build' \subseteq Objects /\ result' \in Status
    BY <1>1, <2>1, DispatchType DEF Begin
  <2>3. QED BY <1>1, <2>2 DEF Begin, TypeOK, server
<1>2. CASE BeginUnregistered
  <2>1. Registered(obj) \in CueInstance
    BY DEF Registered, TypeOK, CueInstance
  <2>2. obj' \in CueInstance /\ cache' \in CueInstance /\ watch' \in Seq(CueInstance)
    BY <1>2, <2>1, StoreType DEF BeginUnregistered
  <2>3. /\ pc' \in PCs /\ work' \in CueInstance /\ current' \in BOOLEAN
        /\ rev' \in Revision /\ build' \subseteq Objects /\ result' \in Status
    BY <1>2, <2>1, DispatchType DEF BeginUnregistered
  <2>4. QED BY <1>2, <2>2, <2>3 DEF BeginUnregistered, TypeOK
<1>3. QED BY <1>1, <1>2 DEF Starts

LEMMA TypeHoldsBack == ASSUME TypeOK, HoldsBack PROVE TypeOK'
<1>1. NoRevision \in Revision /\ source \in Revision
  BY DEF TypeOK, Revision
<1>2. CASE SourceNotReady
  <2>1. obj' \in CueInstance /\ cache' \in CueInstance /\ watch' \in Seq(CueInstance)
    BY <1>1, <1>2, ConclusionType, PatchStatusType DEF SourceNotReady
  <2>2. QED BY <1>2, <2>1, ReturnType DEF SourceNotReady, TypeOK
<1>3. CASE DependencyNotReady
  <2>1. obj' \in CueInstance /\ cache' \in CueInstance /\ watch' \in Seq(CueInstance)
    BY <1>1, <1>3, ConclusionType, PatchStatusType DEF DependencyNotReady
  <2>2. QED BY <1>3, <2>1, ReturnType DEF DependencyNotReady, TypeOK
<1>4. QED BY <1>2, <1>3 DEF HoldsBack

LEMMA TypePipeline == ASSUME TypeOK, Pipeline PROVE TypeOK'
<1> USE DEF PCs
<1>0. work.status \in Status /\ result \in Status /\ rev \in Revision /\ source \in Revision
  BY DEF TypeOK, CueInstance
<1>1. CASE Progress
  <2>1. obj' \in CueInstance /\ cache' \in CueInstance /\ watch' \in Seq(CueInstance)
    BY <1>1, ConclusionType, PatchStatusType DEF Progress
  <2>2. work' \in CueInstance
    BY <1>1, ConclusionType DEF Progress, TypeOK, CueInstance
  <2>3. QED BY <1>1, <2>1, <2>2 DEF Progress, TypeOK
<1>2. CASE Prepare
  <2>1. build' \subseteq Objects
    BY <1>2, ContentAssumption DEF Prepare
  <2>2. QED BY <1>2, <2>1 DEF Prepare, TypeOK, server
<1>3. CASE PrepareFails
  BY <1>0, <1>3, ConclusionType DEF PrepareFails, Conclude, TypeOK, server
<1>4. CASE StageOneApplied
  BY <1>4 DEF StageOneApplied, StageOne, Applied, TypeOK, server, locals
<1>5. CASE StageTwoApplied
  BY <1>5 DEF StageTwoApplied, StageTwo, Applied, TypeOK, server, locals
<1>6. CASE StageOneFails \/ StageTwoFails
  <2>1. PICK stage \in SUBSET Objects : ApplyFails(stage)
    BY <1>6 DEF StageOneFails, StageTwoFails, StageOne, StageTwo, TypeOK
  <2>2. live' \subseteq Objects
    BY <2>1 DEF ApplyFails, Applied, TypeOK
  <2>3. QED BY <1>0, <2>1, <2>2, ConclusionType DEF ApplyFails, Conclude, TypeOK, server
<1>7. CASE Prune
  BY <1>7 DEF Prune, TypeOK, server, locals
<1>8. CASE PruneFails
  <2>1. live' \subseteq Objects
    BY <1>8 DEF PruneFails, TypeOK
  <2>2. QED BY <1>8, <2>1, ConclusionType
            DEF PruneFails, Conclude, Unhealthy, TypeOK, server
<1>9. CASE HealthBegins
  <2>1. obj' \in CueInstance /\ cache' \in CueInstance /\ watch' \in Seq(CueInstance)
    BY <1>9, ConclusionType, PatchStatusType DEF HealthBegins
  <2>2. QED BY <1>9, <2>1 DEF HealthBegins, TypeOK, locals
<1>10. CASE HealthSkipped \/ HealthUnrecorded \/ HealthPassed \/ HealthFailed
  <2>1. pc' \in PCs /\ result' \in Status
    BY <1>10, ConclusionType
       DEF HealthSkipped, HealthUnrecorded, HealthPassed, HealthFailed, Conclude
  <2>2. UNCHANGED <<server, source, live, account, work, current, rev, build, skipped, ran>>
    BY <1>10 DEF HealthSkipped, HealthUnrecorded, HealthPassed, HealthFailed
  <2>3. QED BY <2>1, <2>2 DEF TypeOK, server
<1>11. CASE Publish
  <2>1. obj' \in CueInstance /\ cache' \in CueInstance /\ watch' \in Seq(CueInstance)
    BY <1>0, <1>11, PatchStatusType DEF Publish
  <2>2. ran' \in [generation : Nat, revision : Revision, ready : ConditionStatus]
    BY <1>11 DEF Publish, TypeOK, CueInstance, Status
  <2>3. QED BY <1>11, <2>1, <2>2, ReturnType DEF Publish, TypeOK
<1>12. QED
  BY <1>1, <1>2, <1>3, <1>4, <1>5, <1>6, <1>7, <1>8, <1>9, <1>10, <1>11 DEF Pipeline

LEMMA TypeFinalizes == ASSUME TypeOK, Finalizes PROVE TypeOK'
<1>1. CASE FinalizePrunes
  BY <1>1 DEF FinalizePrunes, TypeOK, PCs, server, locals
<1>2. CASE FinalizePruneFails
  <2>1. live' \subseteq Objects
    BY <1>2 DEF FinalizePruneFails, TypeOK
  <2>2. QED BY <1>2, <2>1, ReturnType DEF FinalizePruneFails, TypeOK, server
<1>3. CASE FinalizeSkips
  BY <1>3 DEF FinalizeSkips, TypeOK, PCs, server, locals
<1>4. CASE FinalizeKeeps
  BY <1>4 DEF FinalizeKeeps, TypeOK, PCs, server, locals
<1>5. CASE RemoveFinalizer
  <2>1. [obj EXCEPT !.finalizer = FALSE, !.phase = "gone"] \in CueInstance
    BY DEF TypeOK, CueInstance, Phases
  <2>2. obj' \in CueInstance /\ cache' \in CueInstance /\ watch' \in Seq(CueInstance)
    BY <1>5, <2>1, StoreType DEF RemoveFinalizer
  <2>3. QED BY <1>5, <2>2, ReturnType DEF RemoveFinalizer, TypeOK
<1>6. QED BY <1>1, <1>2, <1>3, <1>4, <1>5 DEF Finalizes

LEMMA TypeEnvironment == ASSUME TypeOK, Environment PROVE TypeOK'
<1>0. obj \in CueInstance /\ obj.generation + 1 \in Nat
  BY DEF TypeOK, CueInstance
<1>1. CASE EditSpec
  <2>1. PICK spec \in Specs : Store([obj EXCEPT !.spec = spec, !.generation = @ + 1])
    BY <1>1 DEF EditSpec
  <2>2. [obj EXCEPT !.spec = spec, !.generation = @ + 1] \in CueInstance
    BY <1>0, SpecsAssumption DEF CueInstance
  <2>3. obj' \in CueInstance /\ cache' \in CueInstance /\ watch' \in Seq(CueInstance)
    BY <2>1, <2>2, StoreType
  <2>4. QED BY <1>1, <2>3 DEF EditSpec, Disturb, TypeOK
<1>2. CASE DeleteInstance
  <2> DEFINE deleted == [obj EXCEPT !.phase = IF obj.finalizer THEN "deleting" ELSE "gone",
                                    !.generation = @ + 1]
  <2>1. deleted \in CueInstance
    BY <1>0 DEF CueInstance, Phases
  <2>2. obj' \in CueInstance /\ cache' \in CueInstance /\ watch' \in Seq(CueInstance)
    BY <1>2, <2>1, StoreType DEF DeleteInstance
  <2>3. QED BY <1>2, <2>2 DEF DeleteInstance, Disturb, TypeOK
<1>3. CASE PublishSource
  BY <1>3 DEF PublishSource, TypeOK, server, locals, Revision
<1>4. CASE AccountChanges
  BY <1>4 DEF AccountChanges, TypeOK, server, locals
<1>5. CASE Deliver
  <2>1. cache' \in CueInstance /\ watch' \in Seq(CueInstance)
    BY <1>5 DEF Deliver, TypeOK
  <2>2. QED BY <1>5, <2>1 DEF Deliver, TypeOK, locals
<1>6. QED BY <1>1, <1>2, <1>3, <1>4, <1>5 DEF Environment

LEMMA TypeNext == TypeOK /\ [Next]_vars => TypeOK'
<1> SUFFICES ASSUME TypeOK, [Next]_vars PROVE TypeOK'
  OBVIOUS
<1>1. CASE Refused \/ Abort
  <2>1. Return /\ UNCHANGED <<server, source, live, account, skipped, ran>>
    BY <1>1 DEF Refused, Abort
  <2>2. QED BY <2>1, ReturnType DEF TypeOK, server
<1>2. CASE Restart
  <2>1. cache' \in CueInstance /\ watch' \in Seq(CueInstance)
    BY <1>2 DEF Restart, TypeOK
  <2>2. QED BY <1>2, <2>1, ReturnType DEF Restart, TypeOK
<1>3. CASE UNCHANGED vars
  BY <1>3 DEF vars, server, locals, TypeOK
<1>4. QED
  BY <1>1, <1>2, <1>3, TypeStarts, TypeHoldsBack, TypePipeline, TypeFinalizes,
     TypeEnvironment DEF Next, Worker

(* Type correctness: every copy of the CueInstance, the statuses the worker *)
(* computes and the histories keep their types in every behaviour.          *)
THEOREM TypeCorrect == Spec => []TypeOK
<1>1. QED BY TypeInit, TypeNext, PTL DEF Spec

-----------------------------------------------------------------------------
(* How a step may move the server and the informer.                        *)

(* A status patch finds a CueInstance and changes its status only. *)
LEMMA PatchStatusWrites ==
  ASSUME TypeOK, NEW new \in Status, PatchStatus(new)
  PROVE  /\ obj.phase # "gone" /\ obj'.phase = obj.phase
         /\ obj'.finalizer = obj.finalizer /\ obj'.spec = obj.spec
         /\ obj' \in CueInstance /\ Store(obj')
<1>1. PICK sent \in BOOLEAN :
        Store([obj EXCEPT !.status = MergePatch(obj.status, cache.status, new, sent)])
  BY DEF PatchStatus
<1>2. obj' = [obj EXCEPT !.status = MergePatch(obj.status, cache.status, new, sent)]
  BY <1>1 DEF Store
<1>3. obj' \in CueInstance /\ Store(obj')
  BY <1>1, <1>2, PatchStatusType
<1>4. QED BY <1>2, <1>3 DEF PatchStatus, TypeOK, CueInstance

(* A write that does not take the finalizer from a CueInstance that stays. *)
KeepsRegistration(new) ==
  obj.finalizer \/ obj.phase = "gone" => new.finalizer \/ new.phase = "gone"

ServerStep ==
  \/ UNCHANGED server
  \/ \E new \in CueInstance : Store(new) /\ KeepsRegistration(new)
  \/ obj' = obj /\ cache' = obj /\ watch' = <<>>
  \/ obj' = obj /\ watch # <<>> /\ cache' = Head(watch) /\ watch' = Tail(watch)

(* Every step leaves the server and the informer alone, writes, restarts   *)
(* the informer or delivers.                                               *)
LEMMA ServerMoves == ASSUME TypeOK, [Next]_vars PROVE ServerStep
<1>1. CASE \E new \in Status : PatchStatus(new)
  BY <1>1, PatchStatusWrites DEF ServerStep, KeepsRegistration
<1>2. CASE BeginUnregistered
  <2>1. Registered(obj) \in CueInstance /\ KeepsRegistration(Registered(obj))
    BY DEF Registered, TypeOK, CueInstance, KeepsRegistration
  <2>2. QED BY <1>2, <2>1 DEF BeginUnregistered, ServerStep
<1>3. CASE RemoveFinalizer
  <2> DEFINE removed == [obj EXCEPT !.finalizer = FALSE, !.phase = "gone"]
  <2>1. removed \in CueInstance /\ removed.phase = "gone"
    BY DEF TypeOK, CueInstance, Phases
  <2>2. QED BY <1>3, <2>1 DEF RemoveFinalizer, ServerStep, KeepsRegistration
<1>4. CASE EditSpec
  <2>1. PICK spec \in Specs : Store([obj EXCEPT !.spec = spec, !.generation = @ + 1])
    BY <1>4 DEF EditSpec
  <2> DEFINE edited == [obj EXCEPT !.spec = spec, !.generation = @ + 1]
  <2>2. obj \in CueInstance /\ obj.generation + 1 \in Nat /\ spec \in SpecType
    BY SpecsAssumption DEF TypeOK, CueInstance
  <2>3. edited \in CueInstance /\ edited.phase = obj.phase /\ edited.finalizer = obj.finalizer
    BY <2>2 DEF CueInstance
  <2>4. QED BY <2>1, <2>3 DEF ServerStep, KeepsRegistration
<1>5. CASE DeleteInstance
  <2> DEFINE deleted == [obj EXCEPT !.phase = IF obj.finalizer THEN "deleting" ELSE "gone",
                                    !.generation = @ + 1]
  <2>1. obj \in CueInstance /\ obj.generation + 1 \in Nat
    BY DEF TypeOK, CueInstance
  <2>2. deleted \in CueInstance /\ deleted.finalizer = obj.finalizer
        /\ (~obj.finalizer => deleted.phase = "gone")
    BY <2>1 DEF CueInstance, Phases
  <2>3. QED BY <1>5, <2>2 DEF DeleteInstance, ServerStep, KeepsRegistration
<1>6. CASE Restart \/ Deliver
  BY <1>6 DEF Restart, Deliver, ServerStep
<1>7. CASE HoldsBack \/ Progress \/ HealthBegins \/ Publish
  <2>1. NoRevision \in Revision /\ source \in Revision /\ result \in Status
    BY DEF TypeOK, Revision
  <2>2. \E new \in Status : PatchStatus(new)
    BY <1>7, <2>1, ConclusionType
       DEF HoldsBack, SourceNotReady, DependencyNotReady, Progress, HealthBegins, Publish
  <2>3. QED BY <1>1, <2>2
<1>8. CASE UNCHANGED server
  BY <1>8 DEF ServerStep
<1>9. QED
  BY <1>2, <1>3, <1>4, <1>5, <1>6, <1>7, <1>8
     DEF Next, Worker, Starts, Pipeline, Finalizes, Environment, vars,
         Begin, Prepare, PrepareFails, StageOneApplied, StageOneFails, StageTwoApplied,
         StageTwoFails, ApplyFails, Prune, PruneFails, HealthSkipped, HealthUnrecorded,
         HealthPassed, HealthFailed, FinalizePrunes, FinalizePruneFails, FinalizeSkips,
         FinalizeKeeps, Refused, Abort, PublishSource, AccountChanges

(* The informer catches up with the server whatever a step does. *)
LEMMA CacheConvergesKept ==
  ASSUME TypeOK, CacheConverges, ServerStep PROVE CacheConverges'
<1>1. CASE UNCHANGED server
  BY <1>1 DEF server, CacheConverges
<1>2. CASE \E new \in CueInstance : Store(new) /\ KeepsRegistration(new)
  BY <1>2 DEF Store, CacheConverges, TypeOK
<1>3. CASE obj' = obj /\ cache' = obj /\ watch' = <<>>
  BY <1>3 DEF CacheConverges
<1>4. CASE obj' = obj /\ watch # <<>> /\ cache' = Head(watch) /\ watch' = Tail(watch)
  <2>1. /\ watch \in Seq(CueInstance) /\ watch # <<>>
        /\ watch[Len(watch)] = obj /\ Len(watch) \in Nat \ {0}
    BY <1>4 DEF CacheConverges, TypeOK
  <2>2. /\ watch' \in Seq(CueInstance) /\ Len(watch') = Len(watch) - 1
        /\ \A i \in 1 .. Len(watch') : watch'[i] = watch[i + 1]
    BY <1>4, <2>1, HeadTailProperties
  <2>3. watch' = <<>> => cache' = obj'
    <3>1. watch' = <<>> => Len(watch) = 1
      BY <2>1, <2>2
    <3>2. QED BY <1>4, <2>1, <3>1
  <2>4. watch' # <<>> => watch'[Len(watch')] = obj'
    <3>1. watch' # <<>> => Len(watch') \in 1 .. Len(watch')
      BY <2>2
    <3>2. QED BY <1>4, <2>1, <2>2, <3>1
  <2>5. QED BY <2>3, <2>4 DEF CacheConverges
<1>5. QED BY <1>1, <1>2, <1>3, <1>4 DEF ServerStep

-----------------------------------------------------------------------------
(* The inductive invariant.                                                *)

(* A copy taken before a write, and one taken of it, stay behind.          *)
LEMMA CopiesKept ==
  ASSUME TypeOK, Registration, ServerStep
  PROVE  /\ RegisteredSince(cache)'
         /\ \A i \in 1 .. Len(watch') : RegisteredSince(watch[i])'
         /\ \A copy \in CueInstance : RegisteredSince(copy)
              => (copy.finalizer => obj'.finalizer \/ obj'.phase = "gone")
<1>1. CASE UNCHANGED server
  BY <1>1 DEF server, Registration, RegisteredSince
<1>2. CASE \E new \in CueInstance : Store(new) /\ KeepsRegistration(new)
  <2>1. PICK new \in CueInstance : Store(new) /\ KeepsRegistration(new)
    BY <1>2
  <2>2. obj' = new /\ cache' = cache /\ (obj.finalizer \/ obj.phase = "gone"
                       => obj'.finalizer \/ obj'.phase = "gone")
    BY <2>1 DEF Store, KeepsRegistration
  <2>3. ASSUME NEW i \in 1 .. Len(watch') PROVE RegisteredSince(watch[i])'
    <3>1. watch'[i] = obj' \/ (i \in 1 .. Len(watch) /\ watch'[i] = watch[i])
      BY <2>1, <2>3 DEF Store, TypeOK
    <3>2. QED BY <2>2, <3>1 DEF Registration, RegisteredSince
  <2>4. QED BY <2>2, <2>3 DEF Registration, RegisteredSince
<1>3. CASE obj' = obj /\ cache' = obj /\ watch' = <<>>
  BY <1>3 DEF RegisteredSince
<1>4. CASE obj' = obj /\ watch # <<>> /\ cache' = Head(watch) /\ watch' = Tail(watch)
  <2>1. /\ watch' \in Seq(CueInstance) /\ Len(watch') = Len(watch) - 1
        /\ \A i \in 1 .. Len(watch') : watch'[i] = watch[i + 1]
        /\ cache' = watch[1] /\ Len(watch) \in Nat \ {0}
    BY <1>4, HeadTailProperties DEF TypeOK
  <2>2. \A i \in 1 .. Len(watch') : i + 1 \in 1 .. Len(watch)
    BY <2>1
  <2>3. QED BY <1>4, <2>1, <2>2 DEF Registration, RegisteredSince
<1>5. QED BY <1>1, <1>2, <1>3, <1>4 DEF ServerStep

LEMMA RegistrationKept ==
  ASSUME TypeOK, Registration, [Next]_vars PROVE Registration'
<1>1. ServerStep
  BY ServerMoves
<1>2. ASSUME pc' = "source" PROVE work'.finalizer /\ RegisteredSince(work)'
  <2>1. CASE Begin
    <3>1. work' = cache /\ cache.finalizer
      BY <1>2, <2>1 DEF Begin, Dispatch, Return
    <3>2. QED BY <1>1, <3>1, CopiesKept DEF Registration, RegisteredSince, TypeOK
  <2>2. CASE BeginUnregistered
    <3>1. work' = Registered(obj) /\ obj' = Registered(obj)
      BY <1>2, <2>2 DEF BeginUnregistered, Store, Dispatch, Return
    <3>2. QED BY <3>1 DEF Registered, RegisteredSince, TypeOK, CueInstance
  <2>3. CASE pc = "source" /\ work' = work
    BY <1>1, <2>3, CopiesKept DEF Registration, RegisteredSince, TypeOK
  <2>4. QED
    BY <1>2, <2>1, <2>2, <2>3
       DEF Next, Worker, Starts, HoldsBack, Pipeline, Finalizes, Environment, vars, locals,
           Return, Conclude, Disturb, SourceNotReady, DependencyNotReady, Progress,
           Prepare, PrepareFails, StageOneApplied, StageOneFails, StageTwoApplied,
           StageTwoFails, ApplyFails, Prune, PruneFails, HealthSkipped, HealthBegins,
           HealthUnrecorded, HealthPassed, HealthFailed, Publish, FinalizePrunes,
           FinalizePruneFails, FinalizeSkips, FinalizeKeeps, RemoveFinalizer, Refused,
           Abort, Restart, EditSpec, DeleteInstance, PublishSource, AccountChanges, Deliver
<1>3. QED BY <1>1, <1>2, CopiesKept DEF Registration

(* The three writes of the users and of finalize, as they change obj. *)
LEMMA EditWrites ==
  ASSUME TypeOK, EditSpec
  PROVE  /\ obj.phase # "gone" /\ obj'.phase = obj.phase
         /\ obj'.finalizer = obj.finalizer /\ obj'.status = obj.status
BY DEF EditSpec, Store, TypeOK, CueInstance

LEMMA DeleteWrites ==
  ASSUME TypeOK, DeleteInstance
  PROVE  /\ obj.phase = "live" /\ obj'.phase = IF obj.finalizer THEN "deleting" ELSE "gone"
         /\ obj'.finalizer = obj.finalizer /\ obj'.status = obj.status
BY DEF DeleteInstance, Store, TypeOK, CueInstance

LEMMA RemoveWrites ==
  ASSUME TypeOK, RemoveFinalizer
  PROVE  /\ obj'.phase = "gone" /\ obj'.status = obj.status /\ obj'.spec = obj.spec
         /\ UNCHANGED live /\ UNCHANGED skipped
BY DEF RemoveFinalizer, Store, TypeOK, CueInstance

LEMMA RegisterWrites ==
  ASSUME TypeOK, BeginUnregistered
  PROVE  /\ obj.phase # "gone" /\ obj'.phase = obj.phase /\ obj'.finalizer
         /\ UNCHANGED live /\ UNCHANGED skipped
BY DEF BeginUnregistered, Registered, Store, TypeOK, CueInstance

(* A run that writes the status holds a registered CueInstance. *)
LEMMA PatchesRegistered ==
  ASSUME TypeOK, Registration, HeldWhileRunning,
         HoldsBack \/ Progress \/ HealthBegins \/ Publish
  PROVE  /\ obj.phase # "gone" /\ obj'.phase = obj.phase
         /\ obj.finalizer /\ obj'.finalizer /\ obj'.spec = obj.spec
<1>1. NoRevision \in Revision /\ source \in Revision /\ result \in Status
  BY DEF TypeOK, Revision
<1>2. PICK new \in Status : PatchStatus(new)
  BY <1>1, ConclusionType
     DEF HoldsBack, SourceNotReady, DependencyNotReady, Progress, HealthBegins, Publish
<1>3. /\ obj.phase # "gone" /\ obj'.phase = obj.phase
      /\ obj'.finalizer = obj.finalizer /\ obj'.spec = obj.spec
  BY <1>2, PatchStatusWrites
<1>4. pc = "source" \/ pc \in Running
  BY DEF HoldsBack, SourceNotReady, DependencyNotReady, Progress, HealthBegins, Publish, Running
<1>5. obj.finalizer
  BY <1>3, <1>4 DEF Registration, RegisteredSince, HeldWhileRunning
<1>6. QED BY <1>3, <1>5

(* Steps of a run that leave the server alone. *)
Inner ==
  \/ Prepare \/ PrepareFails \/ StageOneApplied \/ StageOneFails
  \/ StageTwoApplied \/ StageTwoFails \/ Prune \/ PruneFails
  \/ HealthSkipped \/ HealthUnrecorded \/ HealthPassed \/ HealthFailed

LEMMA InnerSteps ==
  ASSUME Inner
  PROVE  pc \in Running /\ pc' \in Running /\ UNCHANGED server /\ UNCHANGED skipped
BY DEF Inner, Running, Prepare, PrepareFails, StageOneApplied, StageOneFails,
       StageTwoApplied, StageTwoFails, ApplyFails, Prune, PruneFails, HealthSkipped,
       HealthUnrecorded, HealthPassed, HealthFailed, Conclude, server, locals

(* Steps of the others that leave obj, live and the worker alone. *)
Outer == PublishSource \/ AccountChanges \/ Deliver

LEMMA OuterSteps ==
  ASSUME Outer
  PROVE  /\ UNCHANGED <<obj, live, pc, work, current, skipped>>
BY DEF Outer, PublishSource, AccountChanges, Deliver, server, locals

(* finalize before its Update leaves the server alone. *)
Undoes == FinalizePrunes \/ FinalizePruneFails \/ FinalizeSkips \/ FinalizeKeeps

LEMMA UndoesSteps ==
  ASSUME Undoes
  PROVE  /\ pc = "finalize" /\ pc' \in {"unfinalize", "idle"} /\ UNCHANGED server
         /\ live' \subseteq live /\ (skipped => skipped')
BY DEF Undoes, FinalizePrunes, FinalizePruneFails, FinalizeSkips, FinalizeKeeps, Return,
       locals, server

(* The worker gives up a run: a refusal, an error, the end of the process. *)
Drops == Refused \/ Abort \/ Restart

LEMMA DropsSteps ==
  ASSUME Drops
  PROVE  pc' = "idle" /\ UNCHANGED obj /\ UNCHANGED live /\ UNCHANGED skipped
BY DEF Drops, Refused, Abort, Restart, Return, server

(* The cases of a step. *)
LEMMA NextCases ==
  ASSUME [Next]_vars
  PROVE  \/ Begin \/ BeginUnregistered
         \/ (HoldsBack \/ Progress \/ HealthBegins \/ Publish)
         \/ Inner \/ Undoes \/ RemoveFinalizer \/ Drops
         \/ EditSpec \/ DeleteInstance \/ Outer \/ UNCHANGED vars
BY DEF Next, Worker, Starts, Pipeline, Finalizes, Environment, Inner, Undoes, Drops, Outer

LEMMA HeldKept ==
  ASSUME TypeOK, Registration, HeldWhileRunning, [Next]_vars PROVE HeldWhileRunning'
<1>1. CASE Begin
  BY <1>1 DEF Begin, Dispatch, Return, HeldWhileRunning, Running
<1>2. CASE BeginUnregistered
  BY <1>2 DEF BeginUnregistered, Dispatch, Return, HeldWhileRunning, Running
<1>3. CASE HoldsBack \/ Progress \/ HealthBegins \/ Publish
  BY <1>3, PatchesRegistered DEF HeldWhileRunning
<1>4. CASE Inner
  BY <1>4, InnerSteps DEF HeldWhileRunning, server
<1>5. CASE Undoes
  BY <1>5, UndoesSteps DEF HeldWhileRunning, Running
<1>6. CASE RemoveFinalizer
  BY <1>6 DEF RemoveFinalizer, Return, HeldWhileRunning, Running
<1>7. CASE Drops
  BY <1>7, DropsSteps DEF HeldWhileRunning, Running
<1>8. CASE EditSpec
  <2>1. pc' = pc
    BY <1>8 DEF EditSpec
  <2>2. QED BY <1>8, <2>1, EditWrites DEF HeldWhileRunning
<1>9. CASE DeleteInstance
  <2>1. pc' = pc
    BY <1>9 DEF DeleteInstance
  <2>2. QED BY <1>9, <2>1, DeleteWrites DEF HeldWhileRunning
<1>10. CASE Outer
  BY <1>10, OuterSteps DEF HeldWhileRunning
<1>11. CASE UNCHANGED vars
  BY <1>11 DEF vars, server, HeldWhileRunning
<1>12. QED
  BY <1>1, <1>2, <1>3, <1>4, <1>5, <1>6, <1>7, <1>8, <1>9, <1>10, <1>11, NextCases

LEMMA UnregisteredKept ==
  ASSUME TypeOK, Registration, HeldWhileRunning, UnregisteredIsEmpty, [Next]_vars
  PROVE  UnregisteredIsEmpty'
<1>1. CASE UNCHANGED obj
  BY <1>1 DEF UnregisteredIsEmpty
<1>2. CASE BeginUnregistered
  BY <1>2, RegisterWrites DEF UnregisteredIsEmpty
<1>3. CASE HoldsBack \/ Progress \/ HealthBegins \/ Publish
  BY <1>3, PatchesRegistered DEF UnregisteredIsEmpty
<1>4. CASE RemoveFinalizer
  BY <1>4, RemoveWrites DEF UnregisteredIsEmpty
<1>5. CASE EditSpec
  BY <1>5, EditWrites DEF UnregisteredIsEmpty
<1>6. CASE DeleteInstance
  BY <1>6, DeleteWrites DEF UnregisteredIsEmpty
<1>7. CASE Begin \/ Inner \/ Undoes \/ Drops \/ Outer \/ UNCHANGED vars
  <2>1. UNCHANGED obj
    BY <1>7, InnerSteps, UndoesSteps, DropsSteps, OuterSteps DEF Begin, vars, server
  <2>2. QED BY <1>1, <2>1
<1>8. QED BY <1>2, <1>3, <1>4, <1>5, <1>6, <1>7, NextCases

(* What DeleteAll is given is off the cluster afterwards, or protected. *)
LEMMA PrunedIsGone ==
  ASSUME TypeOK, PrunesAtEnd(work), FinalizePrunes
  PROVE  work'.status.inventory \cap live' \subseteq Protected
BY DEF FinalizePrunes, Deletable, locals

LEMMA FinalizesKept ==
  ASSUME TypeOK, CacheConverges, Registration, HeldWhileRunning, FinalizesCurrent, [Next]_vars
  PROVE  FinalizesCurrent'
<1>1. CASE Begin
  <2>1. pc' = "finalize" => /\ work' = cache /\ cache.phase = "deleting"
                            /\ (current' => watch = <<>>) /\ UNCHANGED obj
    BY <1>1 DEF Begin, Dispatch, Return, server
  <2>2. pc' # "unfinalize"
    BY <1>1 DEF Begin, Dispatch, Return
  <2>3. QED BY <2>1, <2>2 DEF CacheConverges, FinalizesCurrent
<1>2. CASE BeginUnregistered
  <2>1. pc' = "finalize" => work' = obj' /\ work'.phase = "deleting"
    BY <1>2 DEF BeginUnregistered, Store, Dispatch, Return
  <2>2. pc' # "unfinalize"
    BY <1>2 DEF BeginUnregistered, Dispatch, Return
  <2>3. QED BY <2>1, <2>2 DEF FinalizesCurrent
<1>3. CASE HoldsBack \/ Progress \/ HealthBegins \/ Publish
  BY <1>3 DEF HoldsBack, SourceNotReady, DependencyNotReady, Progress, HealthBegins,
              Publish, Return, FinalizesCurrent
<1>4. CASE Inner
  BY <1>4, InnerSteps DEF Running, FinalizesCurrent
<1>5. CASE FinalizePrunes
  BY <1>5, PrunedIsGone DEF FinalizePrunes, FinalizesCurrent, server, locals
<1>6. CASE FinalizePruneFails \/ RemoveFinalizer \/ Drops
  BY <1>6 DEF FinalizePruneFails, RemoveFinalizer, Drops, Refused, Abort, Restart, Return,
              FinalizesCurrent
<1>7. CASE FinalizeSkips
  BY <1>7 DEF FinalizeSkips, FinalizesCurrent, server, locals
<1>8. CASE FinalizeKeeps
  BY <1>8 DEF FinalizeKeeps, FinalizesCurrent, server, locals
<1>9. CASE EditSpec \/ DeleteInstance
  BY <1>9 DEF EditSpec, DeleteInstance, Disturb, FinalizesCurrent, PrunesAtEnd
<1>10. CASE Outer
  BY <1>10, OuterSteps DEF FinalizesCurrent, PrunesAtEnd
<1>11. CASE UNCHANGED vars
  BY <1>11 DEF vars, server, locals, FinalizesCurrent, PrunesAtEnd
<1>12. QED
  BY <1>1, <1>2, <1>3, <1>4, <1>5, <1>6, <1>7, <1>8, <1>9, <1>10, <1>11, NextCases
     DEF Undoes

(* Nothing moves a CueInstance that is gone, and nothing is applied for it. *)
LEMMA GoneStays ==
  ASSUME TypeOK, Registration, HeldWhileRunning, FinalizesCurrent, obj.phase = "gone",
         [Next]_vars
  PROVE  UNCHANGED obj /\ live' \subseteq live /\ (skipped => skipped')
<1>1. CASE Begin
  BY <1>1 DEF Begin, server
<1>2. ~BeginUnregistered
  BY RegisterWrites
<1>3. ~(HoldsBack \/ Progress \/ HealthBegins \/ Publish)
  BY PatchesRegistered
<1>4. ~Inner
  BY InnerSteps DEF HeldWhileRunning
<1>5. CASE Undoes
  BY <1>5, UndoesSteps DEF server
<1>6. ~RemoveFinalizer
  BY DEF RemoveFinalizer, FinalizesCurrent
<1>7. CASE Drops
  BY <1>7, DropsSteps
<1>8. ~EditSpec /\ ~DeleteInstance
  BY DEF EditSpec, DeleteInstance
<1>9. CASE Outer
  BY <1>9, OuterSteps
<1>10. CASE UNCHANGED vars
  BY <1>10 DEF vars, server
<1>11. QED
  BY <1>1, <1>2, <1>3, <1>4, <1>5, <1>6, <1>7, <1>8, <1>9, <1>10, NextCases

LEMMA LeavesNothingKept ==
  ASSUME TypeOK, IInv, [Next]_vars PROVE FinalizeLeavesNothing'
<1> USE DEF IInv
<1>1. CASE obj.phase = "gone"
  BY <1>1, GoneStays DEF FinalizeLeavesNothing
<1>2. CASE obj.phase # "gone" /\ RemoveFinalizer
  <2>1. obj = work /\ pc = "unfinalize"
    BY <1>2 DEF RemoveFinalizer, FinalizesCurrent
  <2>2. /\ obj'.status = obj.status /\ obj'.spec = obj.spec
        /\ UNCHANGED live /\ UNCHANGED skipped
    BY <1>2, RemoveWrites
  <2>3. CASE PrunesAtEnd(work)
    BY <2>1, <2>2, <2>3 DEF FinalizesCurrent, FinalizeLeavesNothing
  <2>4. CASE ~PrunesAtEnd(work)
    BY <2>1, <2>2, <2>4 DEF PrunesAtEnd, FinalizeLeavesNothing
  <2>5. QED BY <2>3, <2>4
<1>3. CASE obj.phase # "gone" /\ DeleteInstance
  <2>1. ~obj.finalizer => obj.status.inventory = {}
    BY <1>3 DEF UnregisteredIsEmpty, EmptyStatus
  <2>2. QED BY <1>3, <2>1, DeleteWrites DEF FinalizeLeavesNothing
<1>4. CASE obj.phase # "gone" /\ ~RemoveFinalizer /\ ~DeleteInstance
  <2>1. obj'.phase = obj.phase
    BY <1>4, NextCases, RegisterWrites, PatchesRegistered, InnerSteps, UndoesSteps,
       DropsSteps, OuterSteps, EditWrites DEF Begin, vars, server
  <2>2. QED BY <1>4, <2>1 DEF FinalizeLeavesNothing
<1>5. QED BY <1>1, <1>2, <1>3, <1>4

LEMMA InvInit == Init => IInv
<1> SUFFICES ASSUME Init PROVE IInv
  OBVIOUS
<1>1. obj.phase = "live" /\ ~obj.finalizer /\ obj.status = EmptyStatus
  BY DEF Init
<1>2. QED
  BY <1>1 DEF Init, IInv, CacheConverges, Registration, RegisteredSince, HeldWhileRunning,
              Running, UnregisteredIsEmpty, FinalizesCurrent, FinalizeLeavesNothing

LEMMA InvNext == TypeOK /\ IInv /\ [Next]_vars => IInv'
<1> SUFFICES ASSUME TypeOK, IInv, [Next]_vars PROVE IInv'
  OBVIOUS
<1>1. CacheConverges'
  BY ServerMoves, CacheConvergesKept DEF IInv
<1>2. Registration'
  BY RegistrationKept DEF IInv
<1>3. HeldWhileRunning'
  BY HeldKept DEF IInv
<1>4. UnregisteredIsEmpty'
  BY UnregisteredKept DEF IInv
<1>5. FinalizesCurrent'
  BY FinalizesKept DEF IInv
<1>6. FinalizeLeavesNothing'
  BY LeavesNothingKept
<1>7. QED BY <1>1, <1>2, <1>3, <1>4, <1>5, <1>6 DEF IInv

(* The inductive invariant holds in every behaviour. *)
THEOREM Invariance == Spec => []IInv
BY TypeCorrect, InvInit, InvNext, PTL DEF Spec

(* A CueInstance that asked for pruning leaves nothing of its recorded     *)
(* inventory behind, however far the informer trails, whatever fails and   *)
(* whenever the controller restarts.                                       *)
THEOREM Finalization == Spec => []FinalizeLeavesNothing
<1>1. IInv => FinalizeLeavesNothing
  BY DEF IInv
<1>2. QED BY <1>1, Invariance, PTL

(* No step applies an object for a CueInstance that is gone. *)
THEOREM NothingAppliedAfterGone == Spec => NoApplyAfterGone
<1>1. TypeOK /\ IInv /\ [Next]_vars => [obj.phase = "gone" => live' \subseteq live]_vars
  BY GoneStays DEF IInv
<1>2. QED BY <1>1, TypeCorrect, Invariance, PTL DEF Spec, NoApplyAfterGone

-----------------------------------------------------------------------------
(* The reconciler implements CueInstanceLifecycle.                         *)

LEMMA LifecycleInit == Init => Lifecycle!Init
BY SpecsAssumption DEF Init, Lifecycle!Init, EmptyStatus, SpecType

(* What a run does to the cluster is an Apply, a Collect or nothing. *)
LEMMA InnerRefines ==
  ASSUME TypeOK, TypeOK', IInv, Inner
  PROVE  Lifecycle!Apply \/ Lifecycle!Collect
<1>1. obj.phase # "gone" /\ UNCHANGED obj /\ UNCHANGED skipped
  BY InnerSteps DEF IInv, HeldWhileRunning, server
<1>2. live \subseteq live' \/ live' \subseteq live
  BY DEF Inner, Prepare, PrepareFails, StageOneApplied, StageOneFails, StageTwoApplied,
         StageTwoFails, ApplyFails, Prune, PruneFails, HealthSkipped, HealthUnrecorded,
         HealthPassed, HealthFailed
<1>3. live' \in SUBSET Objects
  BY DEF TypeOK
<1>4. QED BY <1>1, <1>2, <1>3 DEF Lifecycle!Apply, Lifecycle!Collect

(* The Update that removes the finalizer finishes a lifecycle. *)
LEMMA RemoveRefines ==
  ASSUME TypeOK, IInv, RemoveFinalizer PROVE Lifecycle!Finish
<1>1. pc = "unfinalize" /\ obj = work /\ obj.phase = "deleting"
  BY DEF RemoveFinalizer, IInv, FinalizesCurrent
<1>2. /\ obj'.phase = "gone" /\ obj'.status = obj.status /\ obj'.spec = obj.spec
      /\ UNCHANGED live /\ UNCHANGED skipped
  BY RemoveWrites
<1>3. obj.spec.prune /\ ~obj.spec.suspend /\ ~skipped
        => obj.status.inventory \cap live \subseteq Protected
  BY <1>1 DEF IInv, FinalizesCurrent, PrunesAtEnd
<1>4. QED BY <1>1, <1>2, <1>3 DEF Lifecycle!Finish

LEMMA LifecycleNext ==
  ASSUME TypeOK, TypeOK', IInv, [Next]_vars
  PROVE  [Lifecycle!Next]_(Lifecycle!vars)
<1> USE DEF Lifecycle!Next, Lifecycle!vars
<1>1. CASE Begin \/ Drops \/ Outer \/ UNCHANGED vars
  BY <1>1, DropsSteps, OuterSteps DEF Begin, vars, server
<1>2. CASE BeginUnregistered
  <2>1. obj'.phase = obj.phase /\ obj'.spec = obj.spec /\ obj'.status = obj.status
        /\ UNCHANGED live /\ UNCHANGED skipped
    BY <1>2 DEF BeginUnregistered, Registered, Store, TypeOK, CueInstance
  <2>2. QED BY <2>1
<1>3. CASE HoldsBack \/ Progress \/ HealthBegins \/ Publish
  <2>1. obj.phase # "gone" /\ obj'.phase = obj.phase /\ obj'.spec = obj.spec
    BY <1>3, PatchesRegistered DEF IInv
  <2>2. UNCHANGED live /\ UNCHANGED skipped
    BY <1>3 DEF HoldsBack, SourceNotReady, DependencyNotReady, Progress, HealthBegins, Publish
  <2>3. obj'.status.inventory \in SUBSET Objects
    BY DEF TypeOK, CueInstance, Status
  <2>4. QED BY <2>1, <2>2, <2>3 DEF Lifecycle!Record
<1>4. CASE Inner
  BY <1>4, InnerRefines
<1>5. CASE FinalizePrunes \/ FinalizePruneFails \/ FinalizeKeeps
  <2>1. UNCHANGED obj /\ live' \subseteq live /\ UNCHANGED skipped
    BY <1>5 DEF FinalizePrunes, FinalizePruneFails, FinalizeKeeps, server
  <2>2. QED BY <2>1 DEF Lifecycle!Collect
<1>6. CASE FinalizeSkips
  <2>1. UNCHANGED obj /\ UNCHANGED live /\ skipped' = TRUE
    BY <1>6 DEF FinalizeSkips, server
  <2>2. QED BY <2>1 DEF Lifecycle!Waive
<1>7. CASE RemoveFinalizer
  BY <1>7, RemoveRefines
<1>8. CASE EditSpec
  <2>1. obj.phase # "gone" /\ obj'.phase = obj.phase /\ obj'.status = obj.status
        /\ UNCHANGED live /\ UNCHANGED skipped
    BY <1>8, EditWrites DEF EditSpec
  <2>2. obj'.spec.prune \in BOOLEAN /\ obj'.spec.suspend \in BOOLEAN
    BY DEF TypeOK, CueInstance, SpecType
  <2>3. QED BY <2>1, <2>2 DEF Lifecycle!Edit
<1>9. CASE DeleteInstance
  <2>1. ~obj.finalizer => obj.status.inventory = {}
    BY <1>9 DEF IInv, UnregisteredIsEmpty, DeleteInstance, EmptyStatus
  <2>2. obj'.spec = obj.spec /\ UNCHANGED live /\ UNCHANGED skipped
    BY <1>9 DEF DeleteInstance, Store, TypeOK, CueInstance
  <2>3. QED BY <1>9, <2>1, <2>2, DeleteWrites DEF Lifecycle!Delete
<1>10. QED
  BY <1>1, <1>2, <1>3, <1>4, <1>5, <1>6, <1>7, <1>8, <1>9, NextCases DEF Undoes

(* Every behaviour of the reconciler is one of the abstract lifecycle. *)
THEOREM Refinement == Spec => ImplementsLifecycle
<1>1. TypeOK /\ TypeOK' /\ IInv /\ [Next]_vars => [Lifecycle!Next]_(Lifecycle!vars)
  BY LifecycleNext
<1>2. QED
  BY <1>1, LifecycleInit, TypeCorrect, Invariance, PTL
     DEF Spec, ImplementsLifecycle, Lifecycle!Spec
=============================================================================
