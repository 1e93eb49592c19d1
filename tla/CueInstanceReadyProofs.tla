----------------------- MODULE CueInstanceReadyProofs -----------------------
(***************************************************************************)
(* Proofs about CueInstanceReconciler where a run starts from the last     *)
(* one's status (FreshStarts), however far the informer trails within it:  *)
(* what Ready states is true, the last applied revision is the last run's, *)
(* and a run that prunes forgets nothing.  Wherever runs start from, only  *)
(* a failed prune forgets.                                                 *)
(***************************************************************************)
EXTENDS CueInstanceReconcilerProofs

-----------------------------------------------------------------------------
(* Copies, and the statuses they show.                                     *)

(* A step adds the server's version to the copies, or nothing.             *)
LEMMA CopiesMove ==
  ASSUME TypeOK, CacheConverges, [Next]_vars
  PROVE  obj \in Copies /\ Copies' \subseteq Copies \cup {obj'}
<1>0. /\ watch \in Seq(CueInstance) /\ Len(watch) \in Nat /\ ServerStep
      /\ watch # <<>> => Len(watch) \in 1 .. Len(watch)
  BY ServerMoves DEF TypeOK
<1>1. obj \in Copies
  <2>1. CASE watch = <<>>
    BY <2>1 DEF CacheConverges, Copies
  <2>2. CASE watch # <<>>
    <3>1. obj = watch[Len(watch)]
      BY <2>2 DEF CacheConverges
    <3>2. QED BY <1>0, <2>2, <3>1 DEF Copies
  <2>3. QED BY <2>1, <2>2
<1> SUFFICES Copies' \subseteq Copies \cup {obj'}
  BY <1>1
<1>2. ASSUME UNCHANGED cache \/ cache' \in Copies \cup {obj'},
             \A k \in 1 .. Len(watch') : watch'[k] \in Copies \cup {obj'}
      PROVE  Copies' \subseteq Copies \cup {obj'}
  BY <1>2 DEF Copies
<1>3. \A k \in 1 .. Len(watch) : watch[k] \in Copies
  BY DEF Copies
<1>4. CASE UNCHANGED server
  BY <1>2, <1>3, <1>4 DEF server
<1>5. CASE \E new \in CueInstance : Store(new) /\ KeepsRegistration(new)
  <2>1. PICK new \in CueInstance : Store(new)
    BY <1>5
  <2>2. CASE UNCHANGED <<obj, watch>>
    BY <1>2, <1>3, <2>1, <2>2 DEF Store
  <2>3. CASE obj' = new /\ watch' = Append(watch, new)
    <3>1. /\ Len(watch') = Len(watch) + 1
          /\ \A k \in 1 .. Len(watch) + 1 :
               watch'[k] = IF k <= Len(watch) THEN watch[k] ELSE new
      BY <1>0, <2>1, <2>3
    <3>2. \A k \in 1 .. Len(watch') : watch'[k] \in Copies \cup {obj'}
      BY <1>0, <1>3, <2>3, <3>1
    <3>3. UNCHANGED cache
      BY <2>1 DEF Store
    <3>4. QED BY <1>2, <3>2, <3>3
  <2>4. QED BY <2>1, <2>2, <2>3 DEF Store
<1>6. CASE obj' = obj /\ cache' = obj /\ watch' = <<>>
  <2>1. \A k \in 1 .. Len(watch') : FALSE
    BY <1>6
  <2>2. QED BY <1>2, <1>6, <2>1
<1>7. CASE obj' = obj /\ watch # <<>> /\ cache' = Head(watch) /\ watch' = Tail(watch)
  <2>1. /\ Len(watch') = Len(watch) - 1 /\ cache' = watch[1] /\ 1 \in 1 .. Len(watch)
        /\ \A k \in 1 .. Len(watch') : watch'[k] = watch[k + 1] /\ k + 1 \in 1 .. Len(watch)
    BY <1>0, <1>7, HeadTailProperties
  <2>2. QED BY <1>2, <1>3, <2>1
<1>8. QED BY <1>0, <1>4, <1>5, <1>6, <1>7 DEF ServerStep

LEMMA CopiesType == ASSUME TypeOK PROVE Copies \subseteq CueInstance
BY DEF TypeOK, Copies

LEMMA AlikeFields ==
  ASSUME NEW s \in Status, NEW t \in Status
  PROVE  Alike(s, t) <=>
           /\ s.observedGeneration = t.observedGeneration
           /\ s.lastAppliedRevision = t.lastAppliedRevision
           /\ s.lastAttemptedRevision = t.lastAttemptedRevision
           /\ s.inventory = t.inventory
BY DEF Alike, Status

LEMMA ProgressAlike ==
  ASSUME NEW s \in Status
  PROVE  /\ Alike(s, CueInstanceProgressing(s))
         /\ Alike(SetCueInstanceHealthiness(CueInstanceProgressing(s), "Unknown"), s)
BY DEF Alike, SetCueInstanceHealthiness, CueInstanceProgressing, Status

(* A patch whose base differs from the server's status in its conditions   *)
(* at most publishes the new status, unless it takes the conditions for    *)
(* unchanged; one whose base is the server's status publishes it as it is. *)
LEMMA MergePatchAlike ==
  ASSUME NEW onServer \in Status, NEW base \in Status, NEW new \in Status,
         NEW sent \in BOOLEAN, Alike(base, onServer)
  PROVE  LET m == MergePatch(onServer, base, new, sent)
         IN  /\ Alike(m, new) /\ m.conditions \in {new.conditions, onServer.conditions}
             /\ base = onServer => m = new
<1> DEFINE m == MergePatch(onServer, base, new, sent)
<1>1. m \in Status
  BY MergePatchType
<1>2. /\ m.observedGeneration = new.observedGeneration
      /\ m.lastAppliedRevision = new.lastAppliedRevision
      /\ m.lastAttemptedRevision = new.lastAttemptedRevision
      /\ m.inventory = new.inventory
  BY AlikeFields DEF MergePatch
<1>3. m.conditions \in {new.conditions, onServer.conditions}
  BY DEF MergePatch
<1>4. base = onServer => m = new
  BY MergePatchFresh
<1> HIDE DEF m
<1>5. Alike(m, new)
  BY <1>1, <1>2, AlikeFields
<1>6. QED BY <1>3, <1>4, <1>5 DEF m

LEMMA Patched ==
  ASSUME TypeOK, NEW new \in Status, PatchStatus(new), Alike(cache.status, obj.status)
  PROVE  /\ obj'.phase = obj.phase /\ Alike(obj'.status, new)
         /\ obj'.status.conditions \in {new.conditions, obj.status.conditions}
         /\ cache.status = obj.status => obj'.status = new
<1>1. obj \in CueInstance /\ obj.status \in Status /\ cache.status \in Status
  BY DEF TypeOK, CueInstance
<1>2. PICK sent \in BOOLEAN :
        Store([obj EXCEPT !.status = MergePatch(obj.status, cache.status, new, sent)])
  BY DEF PatchStatus
<1>3. obj' = [obj EXCEPT !.status = MergePatch(obj.status, cache.status, new, sent)]
  BY <1>2 DEF Store
<1>4. obj'.phase = obj.phase /\ obj'.status = MergePatch(obj.status, cache.status, new, sent)
  BY <1>1, <1>3 DEF CueInstance
<1>5. QED BY <1>1, <1>4, MergePatchAlike

(* What the four patches of a run publish. *)
LEMMA Published ==
  ASSUME TypeOK, WorksOnCurrent, HoldsBack \/ Progress \/ HealthBegins \/ Publish
  PROVE  /\ obj'.phase = obj.phase
         /\ HoldsBack =>
              /\ obj'.status.conditions.ready = "False"
              /\ obj'.status.lastAppliedRevision = work.status.lastAppliedRevision
         /\ Progress => /\ obj'.status = CueInstanceProgressing(work.status)
                        /\ obj'.status.conditions.ready = "Unknown"
                        /\ work'.status = obj'.status
                        /\ obj'.status.lastAppliedRevision = work.status.lastAppliedRevision
         /\ HealthBegins => /\ obj'.status.conditions.ready = "Unknown"
                            /\ Alike(obj'.status, work.status)
         /\ Publish => /\ Alike(obj'.status, result)
                       /\ obj'.status.conditions.ready \in {result.conditions.ready, "Unknown"}
<1>1. /\ obj \in CueInstance /\ work \in CueInstance /\ work.status \in Status
      /\ NoRevision \in Revision /\ source \in Revision /\ result \in Status
      /\ obj.status \in Status /\ cache.status \in Status /\ cache \in Copies
  BY DEF TypeOK, CueInstance, Revision, Copies
<1>2. ASSUME NEW new \in Status, PatchStatus(new), pc = "source"
      PROVE  obj'.phase = obj.phase /\ obj'.status = new
  <2>1. cache.status = obj.status
    BY <1>1, <1>2 DEF WorksOnCurrent, ReadCurrent
  <2>2. Alike(cache.status, obj.status)
    BY <1>1, <2>1, AlikeFields
  <2>3. QED BY <1>2, <2>1, <2>2, Patched
<1>3. ASSUME NEW new \in Status, PatchStatus(new), pc \in Running
      PROVE  /\ obj'.phase = obj.phase /\ Alike(obj'.status, new)
             /\ obj'.status.conditions.ready \in {new.conditions.ready, "Unknown"}
  <2>1. Alike(cache.status, obj.status) /\ obj.status.conditions.ready = "Unknown"
    BY <1>1, <1>3 DEF WorksOnCurrent, RunsAlike
  <2>2. QED BY <1>3, <2>1, Patched
<1>4. CASE HoldsBack
  <2>1. pc = "source" /\ pc' = "idle"
    BY <1>4 DEF HoldsBack, SourceNotReady, DependencyNotReady, Return
  <2>2. PICK r \in Revision : PatchStatus(CueInstanceNotReady(work.status, r))
    BY <1>1, <1>4 DEF HoldsBack, SourceNotReady, DependencyNotReady
  <2> DEFINE new == CueInstanceNotReady(work.status, r)
  <2>3. obj'.phase = obj.phase /\ obj'.status = new
    BY <1>2, <2>1, <2>2, ConclusionType
  <2>4. new.conditions.ready = "False"
        /\ new.lastAppliedRevision = work.status.lastAppliedRevision
    BY <1>1, NotReadyFields
  <2> HIDE DEF new
  <2>5. QED BY <2>1, <2>3, <2>4 DEF Progress, HealthBegins, Publish, Running
<1>5. CASE Progress
  <2>1. pc = "source" /\ pc' = "fetch"
    BY <1>5 DEF Progress
  <2>2. obj'.phase = obj.phase /\ obj'.status = CueInstanceProgressing(work.status)
    BY <1>2, <1>5, <2>1, ConclusionType DEF Progress
  <2>3. CueInstanceProgressing(work.status).conditions.ready = "Unknown"
        /\ CueInstanceProgressing(work.status).lastAppliedRevision
             = work.status.lastAppliedRevision
    BY <1>1, ProgressFields
  <2>4. work'.status = CueInstanceProgressing(work.status)
    BY <1>1, <1>5 DEF Progress, CueInstance
  <2>5. QED BY <2>1, <2>2, <2>3, <2>4
            DEF HoldsBack, SourceNotReady, DependencyNotReady, Return, HealthBegins, Publish
<1>6. CASE HealthBegins
  <2> DEFINE new == SetCueInstanceHealthiness(CueInstanceProgressing(work.status), "Unknown")
  <2>1. pc = "health" /\ pc \in Running /\ new \in Status
    BY <1>6, ConclusionType DEF HealthBegins, Running
  <2>2. /\ obj'.phase = obj.phase /\ Alike(obj'.status, new)
        /\ obj'.status.conditions.ready \in {new.conditions.ready, "Unknown"}
    BY <1>3, <1>6, <2>1 DEF HealthBegins
  <2>3. new.conditions.ready = "Unknown" /\ Alike(new, work.status)
    BY <1>1, ProgressFields, ProgressAlike
  <2>4. obj'.status \in Status
    BY TypeNext, <1>6 DEF Next, Worker, Pipeline, TypeOK, CueInstance
  <2> HIDE DEF new
  <2>5. Alike(obj'.status, work.status)
    BY <1>1, <2>1, <2>2, <2>3, <2>4, AlikeFields
  <2>6. QED BY <2>1, <2>2, <2>3, <2>5
            DEF HoldsBack, SourceNotReady, DependencyNotReady, Progress, Publish
<1>7. CASE Publish
  <2>1. pc = "publish" /\ pc \in Running
    BY <1>7 DEF Publish, Running
  <2>2. QED BY <1>1, <1>3, <1>7, <2>1
            DEF HoldsBack, SourceNotReady, DependencyNotReady, Progress, HealthBegins, Publish
<1>8. QED BY <1>4, <1>5, <1>6, <1>7

(* What a run concludes with when it fails is not Ready; until it prunes,  *)
(* it keeps the inventory.                                                 *)
LEMMA Failures ==
  ASSUME TypeOK
  PROVE  /\ LET t == CueInstanceNotReady(work.status, rev)
            IN  t.conditions.ready = "False" /\ t.inventory = work.status.inventory
         /\ LET t == CueInstanceNotReadyInventory(work.status, build, work.generation, rev)
            IN  t.conditions.ready = "False" /\ t.inventory = build
         /\ Unhealthy.inventory = build /\ Ready.inventory = build
<1>1. /\ work.status \in Status /\ rev \in Revision /\ build \in SUBSET Objects
      /\ work.generation \in Nat
  BY DEF TypeOK, CueInstance
<1>2. QED BY <1>1, NotReadyFields, InventoryFields DEF Unhealthy, Ready

-----------------------------------------------------------------------------
(* Each part of the invariant is kept by every step.                       *)

LEMMA LiveBefore ==
  ASSUME TypeOK, WorksOnCurrent, [Next]_vars, obj'.phase = "live" PROVE obj.phase = "live"
<1>1. CASE HoldsBack \/ Progress \/ HealthBegins \/ Publish
  BY <1>1, Published
<1>2. CASE Begin \/ Inner \/ Undoes \/ Drops \/ Outer \/ UNCHANGED vars
  BY <1>2, InnerSteps, UndoesSteps, DropsSteps, OuterSteps DEF Begin, vars, server
<1>3. QED
  BY <1>1, <1>2, NextCases, RegisterWrites, RemoveWrites, EditWrites, DeleteWrites

(* Users' writes leave the statuses alone. *)
LEMMA StatusesStay ==
  ASSUME TypeOK, CacheConverges, [Next]_vars, obj'.status = obj.status
  PROVE  /\ ReadCurrent /\ work' = work => ReadCurrent'
         /\ RunsAlike /\ work' = work => RunsAlike'
<1>1. obj \in Copies /\ \A copy \in Copies' : copy.status = obj'.status \/ copy \in Copies
  BY CopiesMove
<1>2. RunsAlike => Alike(obj'.status, obj'.status)
  BY <1>1 DEF RunsAlike
<1>3. QED BY <1>1, <1>2 DEF ReadCurrent, RunsAlike

LEMMA WorksOnCurrentKept ==
  ASSUME FreshStarts, TypeOK, CacheConverges, WorksOnCurrent, [Next]_vars
  PROVE  WorksOnCurrent'
<1> DEFINE Rest ==
      /\ pc = "source" => ReadCurrent
      /\ pc \in Running => RunsAlike
      /\ pc \in {"finalize", "unfinalize"} => obj.phase # "live"
<1>0. /\ Rest /\ (obj.phase = "live" => \A copy \in Copies : copy.phase = "live")
      /\ cache \in Copies
  BY DEF WorksOnCurrent, Copies
<1>1. (obj.phase = "live" => \A copy \in Copies : copy.phase = "live")'
  BY <1>0, LiveBefore, CopiesMove
<1> SUFFICES Rest'
  BY <1>1 DEF WorksOnCurrent
<1>2. CASE Begin
  <2>1. UNCHANGED server /\ Copies' = Copies
    BY <1>2 DEF Begin, server, Copies
  <2>2. pc' = "source" => work' = cache
    BY <1>2 DEF Begin, Dispatch, Return
  <2>3. ReadCurrent' \/ pc' # "source"
    BY <1>0, <1>2, <2>1, <2>2 DEF Begin, Startable, ReadCurrent, server
  <2>4. cache.phase = "deleting" => obj.phase # "live"
    BY <1>0
  <2>5. QED BY <1>2, <2>1, <2>3, <2>4 DEF Begin, Dispatch, Return, Running, server
<1>3. CASE BeginUnregistered
  <2>1. /\ obj' = Registered(obj) /\ obj'.status = obj.status /\ obj'.phase = obj.phase
        /\ obj' \in CueInstance
    BY <1>3 DEF BeginUnregistered, Store, Registered, TypeOK, CueInstance
  <2>2. \A copy \in Copies : copy.status = obj.status
    BY <1>3 DEF BeginUnregistered, Startable
  <2>3. \A copy \in Copies' : copy.status = obj'.status
    BY <2>1, <2>2, CopiesMove
  <2>4. pc' = "source" => work' = obj'
    BY <1>3, <2>1 DEF BeginUnregistered, Dispatch, Return
  <2>5. ReadCurrent' \/ pc' # "source"
    BY <2>3, <2>4 DEF ReadCurrent
  <2>6. QED BY <1>3, <2>1, <2>5 DEF BeginUnregistered, Dispatch, Return, Running
<1>4. CASE HoldsBack \/ Publish
  BY <1>4 DEF HoldsBack, SourceNotReady, DependencyNotReady, Publish, Return, Running
<1>5. CASE Progress
  <2>1. pc = "source" /\ pc' = "fetch" /\ ReadCurrent
    BY <1>0, <1>5 DEF Progress
  <2>2. /\ obj'.status = CueInstanceProgressing(work.status) /\ work'.status = obj'.status
        /\ obj'.status.conditions.ready = "Unknown"
    BY <1>5, Published
  <2>3. work.status \in Status /\ obj'.status \in Status
    BY TypeNext DEF TypeOK, CueInstance
  <2>4. Alike(work.status, obj'.status) /\ Alike(obj'.status, obj'.status)
    BY <2>2, <2>3, ProgressAlike, AlikeFields
  <2>5. \A copy \in Copies' : copy.status \in {work.status, obj'.status}
    BY <2>1, CopiesMove DEF ReadCurrent
  <2>6. RunsAlike'
    BY <2>2, <2>4, <2>5 DEF RunsAlike
  <2>7. QED BY <2>1, <2>6
<1>6. CASE HealthBegins
  <2>1. pc' = "await" /\ UNCHANGED work /\ RunsAlike
    BY <1>0, <1>6 DEF HealthBegins, locals, Running
  <2>2. obj'.status.conditions.ready = "Unknown" /\ Alike(obj'.status, work.status)
    BY <1>6, Published
  <2>3. /\ work.status \in Status /\ obj.status \in Status /\ obj'.status \in Status
        /\ \A copy \in Copies : copy.status \in Status
    BY TypeNext, CopiesType DEF TypeOK, CueInstance
  <2>4. Alike(work.status, obj.status)
    BY <2>1 DEF RunsAlike
  <2>5. Alike(obj.status, obj'.status) /\ Alike(obj'.status, obj'.status)
    BY <2>2, <2>3, <2>4, AlikeFields
  <2>6. \A copy \in Copies \cup {work} : Alike(copy.status, obj'.status)
    <3>1. SUFFICES ASSUME NEW copy \in Copies \cup {work}
                   PROVE  Alike(copy.status, obj'.status)
      OBVIOUS
    <3>2. Alike(copy.status, obj.status) /\ copy.status \in Status
      BY <2>1, <2>3 DEF RunsAlike
    <3>3. QED BY <2>3, <2>5, <3>2, AlikeFields
  <2>7. RunsAlike'
    BY <2>1, <2>2, <2>5, <2>6, CopiesMove DEF RunsAlike
  <2>8. QED BY <2>1, <2>7
<1>7. CASE Inner
  <2>1. UNCHANGED <<server, work>>
    BY <1>7 DEF Inner, Prepare, PrepareFails, StageOneApplied, StageOneFails, StageTwoApplied,
                StageTwoFails, ApplyFails, Prune, PruneFails, HealthSkipped, HealthUnrecorded,
                HealthPassed, HealthFailed, locals
  <2>2. pc \in Running /\ pc' \in Running
    BY <1>7, InnerSteps
  <2>3. RunsAlike'
    BY <1>0, <2>1, <2>2, StatusesStay DEF server
  <2>4. QED BY <2>2, <2>3 DEF Running
<1>8. CASE Undoes
  BY <1>0, <1>8, UndoesSteps DEF server, Running
<1>9. CASE RemoveFinalizer
  BY <1>9 DEF RemoveFinalizer, Return, Running
<1>10. CASE Drops
  BY <1>10, DropsSteps DEF Running
<1>11. CASE EditSpec \/ DeleteInstance \/ Outer \/ UNCHANGED vars
  <2>1. UNCHANGED <<pc, work>>
    BY <1>11 DEF EditSpec, DeleteInstance, Disturb, Outer, PublishSource, AccountChanges,
                 Deliver, vars, locals
  <2>2. obj'.status = obj.status /\ (obj'.phase = "live" => obj.phase = "live")
    BY <1>11, EditWrites, DeleteWrites, OuterSteps DEF vars, server
  <2>3. QED BY <1>0, <2>1, <2>2, StatusesStay
<1>12. QED
  BY <1>2, <1>3, <1>4, <1>5, <1>6, <1>7, <1>8, <1>9, <1>10, <1>11, NextCases

(* Steps that leave the run where it is, and with it the cluster. *)
LEMMA StandsStill ==
  ASSUME EditSpec \/ DeleteInstance \/ Outer \/ UNCHANGED vars
  PROVE  UNCHANGED <<live, pc, work, rev, build, result, ran>>
BY DEF EditSpec, DeleteInstance, Disturb, Outer, PublishSource, AccountChanges, Deliver,
       vars, locals

(* Steps after which no run is between Progressing and its last status. *)
LEMMA LeavesPipeline ==
  ASSUME \/ Begin \/ BeginUnregistered \/ HoldsBack \/ Publish
         \/ Undoes \/ RemoveFinalizer \/ Drops
  PROVE  pc' \notin Running
<1>1. Begin \/ BeginUnregistered \/ HoldsBack \/ Publish \/ RemoveFinalizer => pc' \notin Running
  BY DEF Begin, BeginUnregistered, Dispatch, HoldsBack, SourceNotReady, DependencyNotReady,
         Publish, RemoveFinalizer, Return, Running
<1>2. Undoes \/ Drops => pc' \notin Running
  BY UndoesSteps, DropsSteps DEF Running
<1>3. QED BY <1>1, <1>2

LEMMA AppliedSoFarKept ==
  ASSUME TypeOK, AppliedSoFar, [Next]_vars PROVE AppliedSoFar'
<1> USE DEF AppliedSoFar, BuildsRevision, PrunedStale, Stale, StageOne, Applied
<1>1. CASE \/ Begin \/ BeginUnregistered \/ HoldsBack \/ Publish
           \/ Undoes \/ RemoveFinalizer \/ Drops
  BY <1>1, LeavesPipeline DEF Running
<1>2. CASE Progress
  BY <1>2 DEF Progress, TypeOK, Revision
<1>3. CASE Prepare
  BY <1>3 DEF Prepare, VerifyArtifact
<1>4. CASE StageOneApplied
  BY <1>4 DEF StageOneApplied, locals
<1>5. CASE StageTwoApplied
  BY <1>5 DEF StageTwoApplied, StageTwo, locals
<1>6. CASE Prune
  BY <1>6 DEF Prune, Deletable, locals
<1>7. CASE HealthBegins
  BY <1>7 DEF HealthBegins, locals
<1>8. CASE \/ PrepareFails \/ StageOneFails \/ StageTwoFails \/ PruneFails
           \/ HealthSkipped \/ HealthUnrecorded \/ HealthPassed \/ HealthFailed
  <2>1. pc' = "publish"
    BY <1>8 DEF PrepareFails, StageOneFails, StageTwoFails, ApplyFails, PruneFails,
                HealthSkipped, HealthUnrecorded, HealthPassed, HealthFailed, Conclude
  <2>2. QED BY <2>1
<1>9. CASE EditSpec \/ DeleteInstance \/ Outer \/ UNCHANGED vars
  BY <1>9, StandsStill
<1>10. QED
  BY <1>1, <1>2, <1>3, <1>4, <1>5, <1>6, <1>7, <1>8, <1>9, NextCases DEF Inner

LEMMA ConcludesTruthKept ==
  ASSUME TypeOK, AppliedSoFar, ConcludesTruth, [Next]_vars PROVE ConcludesTruth'
<1> USE DEF ConcludesTruth
<1>1. CASE \/ Begin \/ BeginUnregistered \/ HoldsBack \/ Publish
           \/ Undoes \/ RemoveFinalizer \/ Drops
  BY <1>1, LeavesPipeline DEF Running
<1>2. CASE Progress \/ Prepare \/ StageOneApplied \/ StageTwoApplied \/ Prune \/ HealthBegins
  BY <1>2 DEF Progress, Prepare, StageOneApplied, StageTwoApplied, Prune, HealthBegins
<1>3. CASE PrepareFails \/ StageOneFails \/ StageTwoFails
  <2>1. result' = CueInstanceNotReady(work.status, rev)
    BY <1>3 DEF PrepareFails, StageOneFails, StageTwoFails, ApplyFails, Conclude
  <2>2. QED BY <2>1, Failures
<1>4. CASE PruneFails \/ HealthUnrecorded \/ HealthFailed
  <2>1. result' = CueInstanceNotReadyInventory(work.status, build, work.generation, rev)
    BY <1>4 DEF PruneFails, HealthUnrecorded, HealthFailed, Unhealthy, Conclude
  <2>2. QED BY <2>1, Failures
<1>5. CASE HealthSkipped \/ HealthPassed
  <2>1. pc \in {"health", "await"} /\ result' = Ready /\ UNCHANGED <<live, work, rev, build>>
    BY <1>5 DEF HealthSkipped, HealthPassed, Conclude
  <2>2. BuildsRevision /\ Applied(build) \subseteq live /\ PrunedStale
    BY <2>1 DEF AppliedSoFar
  <2>3. QED BY <2>1, <2>2 DEF BuildsRevision, PrunedStale, Stale, Ready
<1>6. CASE EditSpec \/ DeleteInstance \/ Outer \/ UNCHANGED vars
  BY <1>6, StandsStill DEF BuildsRevision, PrunedStale, Stale, Ready
<1>7. QED BY <1>1, <1>2, <1>3, <1>4, <1>5, <1>6, NextCases DEF Inner

(* What a run that publishes Ready tells is what it did; its last status   *)
(* records what it built.                                                  *)
LEMMA PublishedTruth ==
  ASSUME TypeOK, WorksOnCurrent, ConcludesTruth, Publish, result.conditions.ready = "True"
  PROVE  /\ BuildsRevision /\ Applied(build) \subseteq live /\ PrunedStale /\ UNCHANGED live
         /\ obj.status.inventory = work.status.inventory
         /\ LET s == obj'.status
            IN  /\ s.inventory = build
                /\ s.lastAppliedRevision = rev /\ s.lastAttemptedRevision = rev
                /\ ran' = [generation |-> s.observedGeneration,
                           revision |-> rev, ready |-> "True"]
<1>1. /\ pc = "publish" /\ Alike(obj'.status, result) /\ UNCHANGED live
      /\ ran' = [generation |-> work.generation, revision |-> rev,
                 ready |-> result.conditions.ready]
  BY Published DEF Publish
<1>2. result = Ready /\ BuildsRevision /\ Applied(build) \subseteq live /\ PrunedStale
  BY <1>1 DEF ConcludesTruth
<1>3. /\ work.status \in Status /\ rev \in Revision /\ build \in SUBSET Objects
      /\ work.generation \in Nat /\ obj.status \in Status
  BY DEF TypeOK, CueInstance
<1>4. /\ Ready.inventory = build /\ Ready.observedGeneration = work.generation
      /\ Ready.lastAppliedRevision = rev /\ Ready.lastAttemptedRevision = rev
  BY <1>3, InventoryFields DEF Ready
<1>5. Alike(work.status, obj.status)
  BY <1>1 DEF WorksOnCurrent, RunsAlike, Running
<1>6. obj.status.inventory = work.status.inventory
  BY <1>3, <1>5, AlikeFields
<1>7. obj'.status \in Status /\ Ready \in Status
  BY TypeNext, ConclusionType DEF Next, Worker, Pipeline, TypeOK, CueInstance
<1>8. /\ obj'.status.inventory = build /\ obj'.status.observedGeneration = work.generation
      /\ obj'.status.lastAppliedRevision = rev /\ obj'.status.lastAttemptedRevision = rev
  BY <1>1, <1>2, <1>4, <1>7, AlikeFields
<1>9. QED BY <1>1, <1>2, <1>6, <1>8

(* Only a run that concludes with it publishes Ready. *)
LEMMA PublishesReady ==
  ASSUME TypeOK, WorksOnCurrent, Publish, obj'.status.conditions.ready = "True"
  PROVE  result.conditions.ready = "True"
BY Published

LEMMA ReadyIsTrueKept ==
  ASSUME TypeOK, WorksOnCurrent, ConcludesTruth, ReadyIsTrue, [Next]_vars
  PROVE  ReadyIsTrue'
<1>1. ASSUME UNCHANGED ran, live \subseteq live', obj'.phase = "live" => obj.phase = "live",
             obj'.status = obj.status
      PROVE  ReadyIsTrue'
  BY <1>1 DEF ReadyIsTrue
<1>2. CASE Begin \/ Drops
  BY <1>1, <1>2, DropsSteps DEF Begin, Drops, Refused, Abort, Restart, server
<1>3. CASE BeginUnregistered
  <2>1. obj'.phase = obj.phase /\ obj'.status = obj.status
    BY <1>3 DEF BeginUnregistered, Store, Registered, TypeOK, CueInstance
  <2>2. QED BY <1>1, <1>3, <2>1 DEF BeginUnregistered
<1>4. CASE HoldsBack \/ Progress \/ HealthBegins
  BY <1>4, Published DEF ReadyIsTrue
<1>5. CASE Publish
  BY <1>5, PublishesReady, PublishedTruth DEF ReadyIsTrue, BuildsRevision
<1>6. CASE Inner
  <2>1. pc \in Running /\ UNCHANGED obj
    BY <1>6, InnerSteps DEF server
  <2>2. QED BY <2>1 DEF WorksOnCurrent, RunsAlike, ReadyIsTrue
<1>7. CASE Undoes
  <2>1. pc = "finalize" /\ UNCHANGED obj
    BY <1>7, UndoesSteps DEF server
  <2>2. QED BY <2>1 DEF WorksOnCurrent, ReadyIsTrue
<1>8. CASE RemoveFinalizer
  BY <1>8, RemoveWrites DEF ReadyIsTrue
<1>9. CASE EditSpec \/ DeleteInstance
  BY <1>1, <1>9, EditWrites, DeleteWrites, StandsStill
<1>10. CASE Outer \/ UNCHANGED vars
  BY <1>1, <1>10, OuterSteps, StandsStill DEF vars, server
<1>11. QED
  BY <1>2, <1>3, <1>4, <1>5, <1>6, <1>7, <1>8, <1>9, <1>10, NextCases

LEMMA LastAppliedKept ==
  ASSUME TypeOK, WorksOnCurrent, ConcludesTruth, LastAppliedIsLast, [Next]_vars
  PROVE  LastAppliedIsLast'
<1>1. ASSUME UNCHANGED ran, obj'.phase = "live" => obj.phase = "live",
             obj'.status.lastAppliedRevision = obj.status.lastAppliedRevision
      PROVE  LastAppliedIsLast'
  BY <1>1 DEF LastAppliedIsLast
<1>2. CASE Begin \/ Drops
  BY <1>1, <1>2, DropsSteps DEF Begin, Drops, Refused, Abort, Restart, server
<1>3. CASE BeginUnregistered
  <2>1. obj'.phase = obj.phase /\ obj'.status = obj.status
    BY <1>3 DEF BeginUnregistered, Store, Registered, TypeOK, CueInstance
  <2>2. QED BY <1>1, <1>3, <2>1 DEF BeginUnregistered
<1>4. CASE HoldsBack \/ Progress \/ HealthBegins
  <2>1. work.status \in Status /\ obj.status \in Status /\ obj'.status \in Status
    BY TypeNext DEF TypeOK, CueInstance
  <2>2. UNCHANGED ran /\ (pc = "source" \/ pc \in Running)
    BY <1>4 DEF HoldsBack, SourceNotReady, DependencyNotReady, Progress, HealthBegins, Running
  <2>3. work.status.lastAppliedRevision = obj.status.lastAppliedRevision
    BY <2>1, <2>2, AlikeFields DEF WorksOnCurrent, ReadCurrent, RunsAlike
  <2>4. obj'.phase = obj.phase
        /\ obj'.status.lastAppliedRevision = work.status.lastAppliedRevision
    BY <1>4, <2>1, Published, AlikeFields
  <2>5. QED BY <1>1, <2>2, <2>3, <2>4
<1>5. CASE Publish
  <2>1. ran'.ready = result.conditions.ready
    BY <1>5 DEF Publish
  <2>2. CASE result.conditions.ready = "True"
    BY <1>5, <2>2, PublishedTruth DEF LastAppliedIsLast
  <2>3. CASE result.conditions.ready # "True"
    BY <2>1, <2>3 DEF LastAppliedIsLast
  <2>4. QED BY <2>2, <2>3
<1>6. CASE Inner
  <2>1. UNCHANGED ran
    BY <1>6 DEF Inner, Prepare, PrepareFails, StageOneApplied, StageOneFails, StageTwoApplied,
                StageTwoFails, ApplyFails, Prune, PruneFails, HealthSkipped, HealthUnrecorded,
                HealthPassed, HealthFailed
  <2>2. QED BY <1>1, <1>6, <2>1, InnerSteps DEF server
<1>7. CASE Undoes
  <2>1. UNCHANGED ran
    BY <1>7 DEF Undoes, FinalizePrunes, FinalizePruneFails, FinalizeSkips, FinalizeKeeps
  <2>2. QED BY <1>1, <1>7, <2>1, UndoesSteps DEF server
<1>8. CASE RemoveFinalizer
  BY <1>8, RemoveWrites DEF LastAppliedIsLast
<1>9. CASE EditSpec \/ DeleteInstance
  BY <1>1, <1>9, EditWrites, DeleteWrites, StandsStill
<1>10. CASE Outer \/ UNCHANGED vars
  BY <1>1, <1>10, OuterSteps, StandsStill DEF vars, server
<1>11. QED
  BY <1>2, <1>3, <1>4, <1>5, <1>6, <1>7, <1>8, <1>9, <1>10, NextCases

(* A run comes to its last status with all pruned or the inventory kept,   *)
(* unless pruning failed.                                                  *)
LEMMA OnlyPruneFailureForgets ==
  ASSUME TypeOK, AppliedSoFar, RemovedIsPrunedOrKept, [Next]_vars, ~RemovedIsPrunedOrKept'
  PROVE  PruneFails
<1> SUFFICES ASSUME ~PruneFails PROVE RemovedIsPrunedOrKept'
  OBVIOUS
<1> USE DEF RemovedIsPrunedOrKept
<1>1. CASE \/ Begin \/ BeginUnregistered \/ HoldsBack \/ Publish
           \/ Undoes \/ RemoveFinalizer \/ Drops
  BY <1>1, LeavesPipeline DEF Running
<1>2. CASE Progress \/ Prepare \/ StageOneApplied \/ StageTwoApplied \/ Prune \/ HealthBegins
  BY <1>2 DEF Progress, Prepare, StageOneApplied, StageTwoApplied, Prune, HealthBegins
<1>3. CASE PrepareFails \/ StageOneFails \/ StageTwoFails
  <2>1. result' = CueInstanceNotReady(work.status, rev) /\ UNCHANGED work
    BY <1>3 DEF PrepareFails, StageOneFails, StageTwoFails, ApplyFails, Conclude
  <2>2. QED BY <2>1, Failures
<1>4. CASE HealthSkipped \/ HealthUnrecorded \/ HealthPassed \/ HealthFailed
  <2>1. pc \in {"health", "await"} /\ result' \in {Ready, Unhealthy}
        /\ UNCHANGED <<live, work, build>>
    BY <1>4 DEF HealthSkipped, HealthUnrecorded, HealthPassed, HealthFailed, Conclude
  <2>2. result'.inventory = build
    BY <2>1, Failures
  <2>3. PrunedStale
    BY <2>1 DEF AppliedSoFar
  <2>4. QED BY <2>1, <2>2, <2>3 DEF PrunedStale, Stale
<1>5. CASE EditSpec \/ DeleteInstance \/ Outer \/ UNCHANGED vars
  BY <1>5, StandsStill
<1>6. QED BY <1>1, <1>2, <1>3, <1>4, <1>5, NextCases DEF Inner

-----------------------------------------------------------------------------
(* The theorems.                                                           *)

LEMMA ReadyInit == Init => ReadyInv
<1> SUFFICES ASSUME Init PROVE ReadyInv
  OBVIOUS
<1>1. \A copy \in Copies : copy = obj
  BY DEF Init, Copies
<1>2. obj.status.conditions.ready = "none" /\ ran.ready = "none"
  BY DEF Init, EmptyStatus
<1>3. QED
  BY <1>1, <1>2 DEF Init, ReadyInv, WorksOnCurrent, Running, AppliedSoFar, ConcludesTruth,
                    ReadyIsTrue, LastAppliedIsLast

(* Where a run starts from the last one's status, the invariant holds in   *)
(* every behaviour.                                                        *)
THEOREM ReadyInvariance == ASSUME FreshStarts PROVE Spec => []ReadyInv
<1>1. TypeOK /\ IInv /\ ReadyInv /\ [Next]_vars => ReadyInv'
  BY WorksOnCurrentKept, AppliedSoFarKept, ConcludesTruthKept, ReadyIsTrueKept,
     LastAppliedKept DEF IInv, ReadyInv
<1>2. QED BY <1>1, ReadyInit, TypeCorrect, Invariance, PTL DEF Spec

(* Ready is a fact there: while it is True the inventory lists exactly what *)
(* the recorded revision builds, and the cluster holds all of that but what *)
(* is marked reconcile: disabled.                                           *)
THEOREM ReadyStatesTruth == ASSUME FreshStarts PROVE Spec => []ReadyIsTrue
<1>1. ReadyInv => ReadyIsTrue
  BY DEF ReadyInv
<1>2. QED BY <1>1, ReadyInvariance, PTL

(* And while the last run to publish concluded with Ready, the last        *)
(* applied revision is that run's.                                         *)
THEOREM LastAppliedIsTold == ASSUME FreshStarts PROVE Spec => []LastAppliedIsLast
<1>1. ReadyInv => LastAppliedIsLast
  BY DEF ReadyInv
<1>2. QED BY <1>1, ReadyInvariance, PTL

(* Only a failed prune makes a run forget what it was to prune, however    *)
(* far the informer trails.                                                *)
THEOREM FailedPruneAloneForgets == Spec => ForgetsOnlyByFailedPrune
<1>1. Init => AppliedSoFar
  BY DEF Init, AppliedSoFar
<1>2. TypeOK /\ AppliedSoFar /\ [Next]_vars => AppliedSoFar'
  BY AppliedSoFarKept
<1>3. TypeOK /\ AppliedSoFar /\ [Next]_vars
        => [RemovedIsPrunedOrKept /\ ~RemovedIsPrunedOrKept' => PruneFails]_vars
  BY OnlyPruneFailureForgets
<1>4. QED BY <1>1, <1>2, <1>3, TypeCorrect, PTL DEF Spec, ForgetsOnlyByFailedPrune

(* Where a run starts from the last one's status, an object that leaves    *)
(* the recorded inventory as a run that prunes turns Ready is off the      *)
(* cluster or protected.                                                   *)
THEOREM PruningForgetsNothing == ASSUME FreshStarts PROVE Spec => NoSilentOrphan
<1> DEFINE Remembers ==
      pc = "publish" /\ work.spec.prune /\ obj'.status.conditions.ready = "True"
        => (obj.status.inventory \ obj'.status.inventory) \cap live \subseteq Protected
<1>1. TypeOK /\ IInv /\ ReadyInv /\ [Next]_vars => [Remembers]_vars
  <2> SUFFICES ASSUME TypeOK, IInv, ReadyInv, [Next]_vars, pc = "publish", work.spec.prune,
                      obj'.status.conditions.ready = "True"
               PROVE  (obj.status.inventory \ obj'.status.inventory) \cap live \subseteq Protected
    OBVIOUS
  <2>1. CacheConverges /\ WorksOnCurrent /\ ConcludesTruth
    BY DEF IInv, ReadyInv
  <2>2. CASE Publish
    BY <2>1, <2>2, PublishesReady, PublishedTruth DEF PrunedStale, Stale
  <2>3. CASE ~Publish
    <3>1. obj.status.conditions.ready = "Unknown"
      BY <2>1 DEF WorksOnCurrent, RunsAlike, Running
    <3>2. ~Begin /\ ~BeginUnregistered /\ ~HoldsBack /\ ~Progress /\ ~HealthBegins
      BY DEF Begin, BeginUnregistered, Startable, HoldsBack, SourceNotReady,
             DependencyNotReady, Progress, HealthBegins
    <3>3. obj'.status = obj.status
      BY <2>3, <3>2, NextCases, InnerSteps, UndoesSteps, RemoveWrites, DropsSteps, EditWrites,
         DeleteWrites, OuterSteps DEF vars, server
    <3>4. QED BY <3>1, <3>3
  <2>4. QED BY <2>2, <2>3
<1>2. QED BY <1>1, ReadyInvariance, TypeCorrect, Invariance, PTL DEF Spec, NoSilentOrphan
=============================================================================
