----------------------- MODULE CueInstanceReconciler -----------------------
(***************************************************************************)
(* One CueInstance and the worker that reconciles it                       *)
(* (controllers/cueinstance_controller.go).                                *)
(*                                                                         *)
(* controller-runtime never runs two workers on one key, so the controller *)
(* is one process with a program counter.  It shares state with the API    *)
(* server and the users who edit, suspend and delete the CueInstance while *)
(* a run is under way.  It READS the CueInstance through an informer cache *)
(* that trails the server, and WRITES its status with a merge patch that   *)
(* carries no resourceVersion: only the Update that removes the finalizer  *)
(* does.                                                                   *)
(*                                                                         *)
(* When a run starts is left open (any time): SetupWithManager's triggers  *)
(* and requeues are the subject of SourceWatch.  What a build contains is  *)
(* a function of the revision, and any build, gate or validation may fail. *)
(***************************************************************************)
EXTENDS CueInstanceStatus, Sequences

CONSTANTS
  ClusterDefs,    \* the objects that are CRDs or Namespaces: stage one
  Protected,      \* objects marked prune: disabled or reconcile: disabled
  Disabled,       \* those marked reconcile: disabled, in the manifest while not on the cluster
  Content,        \* the objects each revision builds
  Specs,          \* the specs users may give the CueInstance
  MaxGeneration,  \* bound: users edit the spec up to this generation, not counting the deletion's
  AccountMoves,   \* bound: TRUE: the service account may be deleted and created again
  MaxLag,         \* bound: writes the informer has not delivered yet
  FreshStarts     \* TRUE: a run starts when the informer has seen the last one's status

SpecType == [prune : BOOLEAN, suspend : BOOLEAN, wait : BOOLEAN,
             healthChecks : SUBSET Objects]

ASSUME ObjectsAssumption ==
  ClusterDefs \subseteq Objects /\ Protected \subseteq Objects /\ Disabled \subseteq Protected
ASSUME ContentAssumption == Content \in [Revisions -> SUBSET Objects]
ASSUME SpecsAssumption   == Specs \subseteq SpecType
ASSUME BoundsAssumption  ==
  MaxGeneration \in Nat /\ MaxLag \in Nat \ {0} /\ AccountMoves \in BOOLEAN
    /\ FreshStarts \in BOOLEAN

Phases == {"live", "deleting", "gone"}

CueInstance ==
  [phase : Phases, generation : Nat, spec : SpecType, finalizer : BOOLEAN, status : Status]

VARIABLES
  obj,      \* the CueInstance in the API server
  cache,    \* the informer's copy of it
  watch,    \* versions of obj the informer has yet to deliver, oldest first
  source,   \* revision of the source's artifact; NoRevision: no source or artifact
  live,     \* cluster objects that carry this CueInstance's owner labels
  account,  \* the service account to impersonate exists
  pc,       \* where the worker is
  work,     \* the worker's copy of the CueInstance (locals of Reconcile)
  current,  \* the server still holds the version work was read from
  rev,      \* the revision the run reconciles
  build,    \* the objects the run applies
  result,   \* the status the run is about to publish
  skipped,  \* history: finalize gave up pruning
  ran       \* history: generation, revision and outcome of the last run to publish

server == <<obj, cache, watch>>
locals == <<work, current, rev, build, result>>
vars   == <<server, source, live, account, pc, locals, skipped, ran>>

PCs == {"idle", "source", "fetch", "stageOne", "stageTwo", "prune", "health",
        "await", "publish", "finalize", "unfinalize"}

NoWork ==
  [phase |-> "gone", generation |-> 0, finalizer |-> FALSE, status |-> EmptyStatus,
   spec |-> [prune |-> FALSE, suspend |-> FALSE, wait |-> FALSE, healthChecks |-> {}]]

(* An earlier CueInstance of the same name may have left objects behind.   *)
Init ==
  /\ \E spec \in Specs :
       obj = [phase |-> "live", generation |-> 1, spec |-> spec,
              finalizer |-> FALSE, status |-> EmptyStatus]
  /\ cache = obj /\ watch = <<>>
  /\ source \in Revisions \cup {NoRevision}
  /\ live \in SUBSET Objects /\ account = TRUE
  /\ pc = "idle" /\ work = NoWork /\ current = FALSE
  /\ rev = NoRevision /\ build = {} /\ result = EmptyStatus
  /\ skipped = FALSE
  /\ ran = [generation |-> 0, revision |-> NoRevision, ready |-> "none"]

-----------------------------------------------------------------------------
(* The API server and the informer.                                        *)

(* A write that changes nothing produces no new version and no event.      *)
Store(new) ==
  /\ IF new = obj THEN UNCHANGED <<obj, watch>>
                  ELSE /\ Len(watch) < MaxLag
                       /\ obj' = new
                       /\ watch' = Append(watch, new)
  /\ UNCHANGED cache

Copies == {cache} \cup {watch[k] : k \in 1 .. Len(watch)}

(* Users' writes may still be under way to the informer, statuses are not. *)
Startable ==
  pc = "idle" /\ (FreshStarts => \A copy \in Copies : copy.status = obj.status)

(* Get from the cache, merge patch against what it returned, no optimistic *)
(* lock.  The patch is refused when either copy is gone.                   *)
PatchStatus(new) ==
  /\ cache.phase # "gone" /\ obj.phase # "gone"
  /\ \E sent \in BOOLEAN :
       Store([obj EXCEPT !.status = MergePatch(obj.status, cache.status, new, sent)])

(* The locals die when Reconcile returns. *)
Return ==
  /\ pc' = "idle" /\ work' = NoWork /\ current' = FALSE
  /\ rev' = NoRevision /\ build' = {} /\ result' = EmptyStatus

(* Go to pc with the status to publish. *)
Conclude(status) == pc' = "publish" /\ result' = status

-----------------------------------------------------------------------------
(* Reconcile: read, register the finalizer, branch.                        *)

(* Mutant of Dispatch: the suspension is examined first. *)
DispatchSuspendedFirst(instance, match) ==
  \/ /\ instance.phase = "deleting" /\ ~instance.spec.suspend
     /\ pc' = "finalize" /\ work' = instance /\ current' = match
     /\ UNCHANGED <<rev, build, result>>
  \/ /\ instance.phase # "deleting" /\ ~instance.spec.suspend
     /\ pc' = "source" /\ work' = instance /\ UNCHANGED <<current, rev, build, result>>
  \/ /\ instance.spec.suspend
     /\ Return

(* A deletion is examined before a suspension. *)
Dispatch(instance, match) ==
  \/ /\ instance.phase = "deleting"
     /\ pc' = "finalize" /\ work' = instance /\ current' = match
     /\ UNCHANGED <<rev, build, result>>
  \/ /\ instance.phase # "deleting" /\ ~instance.spec.suspend
     /\ pc' = "source" /\ work' = instance /\ UNCHANGED <<current, rev, build, result>>
  \/ /\ instance.phase # "deleting" /\ instance.spec.suspend
     /\ Return

(* Mutant of Begin: a revision that was attempted is not tried again. *)
BeginUnattempted ==
  /\ Startable
  /\ cache.phase # "gone" /\ cache.finalizer
  /\ cache.phase = "deleting" \/ cache.status.lastAttemptedRevision # source
  /\ Dispatch(cache, watch = <<>>)
  /\ UNCHANGED <<server, source, live, account, skipped, ran>>

Begin ==
  /\ Startable
  /\ cache.phase # "gone" /\ cache.finalizer
  /\ Dispatch(cache, watch = <<>>)
  /\ UNCHANGED <<server, source, live, account, skipped, ran>>

(* Mutant of Registered: the finalizer is left out. *)
Unregistered(instance) == instance

Registered(instance) == [instance EXCEPT !.finalizer = TRUE]

(* The copy lacks the finalizer: patch it in and go on with the response.  *)
(* The server refuses a new finalizer on an object under deletion.         *)
BeginUnregistered ==
  /\ Startable
  /\ cache.phase # "gone" /\ ~cache.finalizer
  /\ obj.phase = "live" \/ (obj.phase = "deleting" /\ obj.finalizer)
  /\ Store(Registered(obj))
  /\ Dispatch(Registered(obj), TRUE)
  /\ UNCHANGED <<source, live, account, skipped, ran>>

(* No source, or no artifact yet. *)
SourceNotReady ==
  /\ pc = "source" /\ source = NoRevision
  /\ PatchStatus(CueInstanceNotReady(work.status, NoRevision))
  /\ Return
  /\ UNCHANGED <<source, live, account, skipped, ran>>

(* Any dependency may hold the run back. *)
DependencyNotReady ==
  /\ pc = "source" /\ source # NoRevision
  /\ PatchStatus(CueInstanceNotReady(work.status, source))
  /\ Return
  /\ UNCHANGED <<source, live, account, skipped, ran>>

Progress ==
  /\ pc = "source" /\ source # NoRevision
  /\ PatchStatus(CueInstanceProgressing(work.status))
  /\ work' = [work EXCEPT !.status = CueInstanceProgressing(@)]
  /\ pc' = "fetch" /\ rev' = source
  /\ UNCHANGED <<source, live, account, current, build, result, skipped, ran>>

-----------------------------------------------------------------------------
(* reconcile: fetch, build, apply, prune, assess.                          *)

(* The digest of what the URL served is the one the artifact advertises.   *)
VerifyArtifact(served, advertised) == served = advertised

(* The artifact's URL may serve another revision than the one read from    *)
(* the source: the digest decides.  Then build, gates, ReadObjects.        *)
Prepare ==
  /\ pc = "fetch"
  /\ \E served \in Revisions :
       /\ VerifyArtifact(served, rev)
       /\ build' = Content[served]
  /\ pc' = "stageOne"
  /\ UNCHANGED <<server, source, live, account, work, current, rev, result, skipped, ran>>

(* Download, digest, path, client, build, gate, decoding or defaults.      *)
PrepareFails ==
  /\ pc = "fetch"
  /\ Conclude(CueInstanceNotReady(work.status, rev))
  /\ UNCHANGED <<server, source, live, account, work, current, rev, build, skipped, ran>>

StageOne == build \cap ClusterDefs
StageTwo == build \ ClusterDefs

(* ApplyAll passes over what is marked reconcile: disabled, creating it    *)
(* neither; it answers "unchanged", and the inventory records the object.  *)
Applied(stage) == stage \ Disabled

(* ApplyAll stops at the first object the server refuses: those before it  *)
(* are applied.  All of them are when it is Wait that times out.           *)
ApplyFails(stage) ==
  /\ \E applied \in SUBSET Applied(stage) : live' = live \cup applied
  /\ Conclude(CueInstanceNotReady(work.status, rev))
  /\ UNCHANGED <<server, source, account, work, current, rev, build, skipped, ran>>

StageOneApplied ==
  /\ pc = "stageOne"
  /\ live' = live \cup Applied(StageOne)
  /\ pc' = "stageTwo"
  /\ UNCHANGED <<server, source, account, locals, skipped, ran>>

StageOneFails == pc = "stageOne" /\ StageOne # {} /\ ApplyFails(StageOne)

StageTwoApplied ==
  /\ pc = "stageTwo"
  /\ live' = live \cup Applied(StageTwo)
  /\ pc' = "prune"
  /\ UNCHANGED <<server, source, account, locals, skipped, ran>>

StageTwoFails == pc = "stageTwo" /\ StageTwo # {} /\ ApplyFails(StageTwo)

(* Mutant of Stale: the two inventories swapped. *)
StaleSwapped == build \ work.status.inventory

(* DiffInventory of the inventory the run started from and the new one.    *)
Stale == work.status.inventory \ build

(* What DeleteAll deletes of the objects it is given. *)
Deletable(objects) == (objects \cap live) \ Protected

Prune ==
  /\ pc = "prune"
  /\ live' = IF work.spec.prune THEN live \ Deletable(Stale) ELSE live
  /\ pc' = "health"
  /\ UNCHANGED <<server, source, account, locals, skipped, ran>>

PruneFails ==
  /\ pc = "prune" /\ work.spec.prune /\ Stale # {}
  /\ \E deleted \in SUBSET Deletable(Stale) : live' = live \ deleted
  /\ Conclude(CueInstanceNotReadyInventory(work.status, build, work.generation, rev))
  /\ UNCHANGED <<server, source, account, work, current, rev, build, skipped, ran>>

Assessed == IF work.spec.wait THEN build ELSE work.spec.healthChecks

Ready == CueInstanceReadyInventory(work.status, build, work.generation, rev)
Unhealthy == CueInstanceNotReadyInventory(work.status, build, work.generation, rev)

HealthSkipped ==
  /\ pc = "health" /\ Assessed = {}
  /\ Conclude(Ready)
  /\ UNCHANGED <<server, source, live, account, work, current, rev, build, skipped, ran>>

HealthBegins ==
  /\ pc = "health" /\ Assessed # {}
  /\ PatchStatus(SetCueInstanceHealthiness(CueInstanceProgressing(work.status), "Unknown"))
  /\ pc' = "await"
  /\ UNCHANGED <<source, live, account, locals, skipped, ran>>

(* The patch above failed: an error of the assessment like any other. *)
HealthUnrecorded ==
  /\ pc = "health" /\ Assessed # {}
  /\ Conclude(Unhealthy)
  /\ UNCHANGED <<server, source, live, account, work, current, rev, build, skipped, ran>>

(* What was passed over may be there all the same, without our labels.     *)
HealthPassed ==
  /\ pc = "await" /\ Assessed \ live \subseteq Disabled
  /\ Conclude(Ready)
  /\ UNCHANGED <<server, source, live, account, work, current, rev, build, skipped, ran>>

(* WaitForSet timed out. *)
HealthFailed ==
  /\ pc = "await"
  /\ Conclude(Unhealthy)
  /\ UNCHANGED <<server, source, live, account, work, current, rev, build, skipped, ran>>

Publish ==
  /\ pc = "publish"
  /\ PatchStatus(result)
  /\ ran' = [generation |-> work.generation, revision |-> rev,
             ready |-> result.conditions.ready]
  /\ Return
  /\ UNCHANGED <<source, live, account, skipped>>

-----------------------------------------------------------------------------
(* finalize: prune the inventory, then remove the finalizer.               *)

(* Mutant of PrunesAtEnd: only what the last run left Ready is pruned. *)
PrunesAtEndIfReady(instance) ==
  instance.spec.prune /\ ~instance.spec.suspend /\ instance.status.inventory # {}
    /\ instance.status.conditions.ready = "True"

PrunesAtEnd(instance) ==
  instance.spec.prune /\ ~instance.spec.suspend /\ instance.status.inventory # {}

(* Every answer but "found" is taken for an account that is gone. *)
CanFinalize(answer) == answer = "found"
AccountAnswers == {IF account THEN "found" ELSE "notFound", "error"}

FinalizePrunes ==
  /\ pc = "finalize" /\ PrunesAtEnd(work)
  /\ \E answer \in AccountAnswers : CanFinalize(answer)
  /\ live' = live \ Deletable(work.status.inventory)
  /\ pc' = "unfinalize"
  /\ UNCHANGED <<server, source, account, locals, skipped, ran>>

(* GetClient or DeleteAll fails: return the error, so that it is retried. *)
FinalizePruneFails ==
  /\ pc = "finalize" /\ PrunesAtEnd(work)
  /\ \E answer \in AccountAnswers : CanFinalize(answer)
  /\ \E deleted \in SUBSET Deletable(work.status.inventory) : live' = live \ deleted
  /\ Return
  /\ UNCHANGED <<server, source, account, skipped, ran>>

FinalizeSkips ==
  /\ pc = "finalize" /\ PrunesAtEnd(work)
  /\ \E answer \in AccountAnswers : ~CanFinalize(answer)
  /\ skipped' = TRUE
  /\ pc' = "unfinalize"
  /\ UNCHANGED <<server, source, live, account, locals, ran>>

FinalizeKeeps ==
  /\ pc = "finalize" /\ ~PrunesAtEnd(work)
  /\ pc' = "unfinalize"
  /\ UNCHANGED <<server, source, live, account, locals, skipped, ran>>

(* Mutant of RemoveFinalizer: a patch, as elsewhere, with no version. *)
RemoveFinalizerUnconditionally ==
  /\ pc = "unfinalize" /\ obj.phase # "gone"
  /\ Store([obj EXCEPT !.finalizer = FALSE, !.phase = "gone"])
  /\ Return
  /\ UNCHANGED <<source, live, account, skipped, ran>>

(* An Update that carries work's resourceVersion.  The finalizer was what  *)
(* held the deleted object: it goes with it.                               *)
RemoveFinalizer ==
  /\ pc = "unfinalize" /\ current
  /\ Store([obj EXCEPT !.finalizer = FALSE, !.phase = "gone"])
  /\ Return
  /\ UNCHANGED <<source, live, account, skipped, ran>>

(* The server refuses a call, and Reconcile returns its error: the patch   *)
(* finds no CueInstance, or the Update conflicts with a later version.     *)
Refused ==
  /\ \/ pc \in {"source", "publish"} /\ (cache.phase = "gone" \/ obj.phase = "gone")
     \/ pc = "unfinalize" /\ ~current
  /\ Return
  /\ UNCHANGED <<server, source, live, account, skipped, ran>>

(* An error of the API that Reconcile returns at once: getSource, a patch, *)
(* the Update.                                                             *)
Abort ==
  /\ pc \in {"source", "publish", "unfinalize"}
  /\ Return
  /\ UNCHANGED <<server, source, live, account, skipped, ran>>

(* The controller dies and starts again with a full list. *)
Restart ==
  /\ Return /\ cache' = obj /\ watch' = <<>>
  /\ UNCHANGED <<obj, source, live, account, skipped, ran>>

-----------------------------------------------------------------------------
(* The environment: users, the source, the informer.                       *)

(* A write by someone else makes the worker's copy outdated. *)
Disturb == current' = FALSE /\ UNCHANGED <<work, rev, build, result>>

(* The generation, less the one a deletion adds. *)
Edited == IF obj.phase = "live" THEN obj.generation ELSE obj.generation - 1

EditSpec ==
  /\ obj.phase # "gone" /\ Edited < MaxGeneration
  /\ \E spec \in Specs \ {obj.spec} :
       Store([obj EXCEPT !.spec = spec, !.generation = @ + 1])
  /\ Disturb
  /\ UNCHANGED <<source, live, account, pc, skipped, ran>>

(* A deletion bumps the generation; without a finalizer the object goes. *)
DeleteInstance ==
  /\ obj.phase = "live"
  /\ Store([obj EXCEPT !.phase = IF obj.finalizer THEN "deleting" ELSE "gone",
                       !.generation = @ + 1])
  /\ Disturb
  /\ UNCHANGED <<source, live, account, pc, skipped, ran>>

PublishSource ==
  /\ \E r \in (Revisions \cup {NoRevision}) \ {source} : source' = r
  /\ UNCHANGED <<server, live, account, pc, locals, skipped, ran>>

AccountChanges ==
  /\ AccountMoves
  /\ account' = ~account
  /\ UNCHANGED <<server, source, live, pc, locals, skipped, ran>>

Deliver ==
  /\ watch # <<>>
  /\ cache' = Head(watch) /\ watch' = Tail(watch)
  /\ UNCHANGED <<obj, source, live, account, pc, locals, skipped, ran>>

-----------------------------------------------------------------------------
Starts == Begin \/ BeginUnregistered
HoldsBack == SourceNotReady \/ DependencyNotReady
Pipeline ==
  \/ Progress \/ Prepare \/ PrepareFails
  \/ StageOneApplied \/ StageOneFails \/ StageTwoApplied \/ StageTwoFails
  \/ Prune \/ PruneFails
  \/ HealthSkipped \/ HealthBegins \/ HealthUnrecorded \/ HealthPassed \/ HealthFailed
  \/ Publish
Finalizes ==
  FinalizePrunes \/ FinalizePruneFails \/ FinalizeSkips \/ FinalizeKeeps \/ RemoveFinalizer

Worker == Starts \/ HoldsBack \/ Pipeline \/ Finalizes \/ Refused \/ Abort
Environment == EditSpec \/ DeleteInstance \/ PublishSource \/ AccountChanges \/ Deliver

Next == Worker \/ Restart \/ Environment

Spec == Init /\ [][Next]_vars

(* The worker takes the next key and goes on with it, and the informer     *)
(* keeps delivering.  A run that ends comes back: by the rate limiter after *)
(* an error, by the Interval or retry requeue otherwise.                   *)
Fairness == WF_vars(Worker) /\ WF_vars(Deliver)

FairSpec == Spec /\ Fairness

-----------------------------------------------------------------------------
(* Every variable has its type. *)
TypeOK ==
  /\ obj \in CueInstance /\ cache \in CueInstance /\ watch \in Seq(CueInstance)
  /\ source \in Revision /\ live \subseteq Objects /\ account \in BOOLEAN
  /\ pc \in PCs /\ work \in CueInstance /\ current \in BOOLEAN
  /\ rev \in Revision /\ build \subseteq Objects /\ result \in Status
  /\ skipped \in BOOLEAN
  /\ ran \in [generation : Nat, revision : Revision, ready : ConditionStatus]

(* Once a CueInstance that asked for pruning is gone, nothing its recorded *)
(* inventory names is left on the cluster, unless it is marked to be kept  *)
(* or finalize gave up for want of an account.  finalize prunes what a     *)
(* trailing copy lists; only the conflict of its Update makes it right.    *)
FinalizeLeavesNothing ==
  obj.phase = "gone" /\ obj.spec.prune /\ ~obj.spec.suspend /\ ~skipped
    => obj.status.inventory \cap live \subseteq Protected

(* A CueInstance that is gone gets no object applied, although a run may   *)
(* start from a copy that still shows it: the run must register the        *)
(* finalizer or publish Progressing before it applies, and both fail.      *)
NoApplyAfterGone == [][obj.phase = "gone" => live' \subseteq live]_vars

(* Ready is a fact, not a memory: while it is True the inventory lists     *)
(* exactly what the recorded revision builds, the cluster holds all of it  *)
(* but what is marked reconcile: disabled (recorded although it was passed *)
(* over), and the revisions and generation are those of the last run.      *)
(* reconcile must withdraw Ready before it touches the cluster.            *)
ReadyIsTrue ==
  obj.phase = "live" /\ obj.status.conditions.ready = "True" =>
    LET s == obj.status
    IN  /\ s.inventory = Content[s.lastAppliedRevision]
        /\ Applied(s.inventory) \subseteq live
        /\ s.lastAppliedRevision = s.lastAttemptedRevision
        /\ ran = [generation |-> s.observedGeneration,
                  revision |-> s.lastAppliedRevision, ready |-> "True"]

(* A successful run that prunes forgets no object: one that leaves the     *)
(* recorded inventory as Ready turns True is off the cluster or protected. *)
NoSilentOrphan ==
  [][ /\ pc = "publish" /\ work.spec.prune
      /\ obj'.status.conditions.ready = "True"
      => (obj.status.inventory \ obj'.status.inventory) \cap live \subseteq Protected ]_vars

(* The promise of CueInstanceLifecycle, kept in terms of the server's copy. *)
Lifecycle ==
  INSTANCE CueInstanceLifecycle
    WITH phase    <- obj.phase,
         prunes   <- obj.spec.prune /\ ~obj.spec.suspend,
         recorded <- obj.status.inventory,
         objects  <- live,
         waived   <- skipped

(* Whatever the copies, crashes and failures, users see the lifecycle of   *)
(* CueInstanceLifecycle: no object applied after the end, nothing recorded *)
(* left behind by it.                                                      *)
ImplementsLifecycle == Lifecycle!Spec

(* What may fail: calls, downloads, builds, waits, dependencies, the process. *)
Fault ==
  \/ DependencyNotReady \/ PrepareFails \/ StageOneFails \/ StageTwoFails
  \/ PruneFails \/ HealthUnrecorded \/ HealthFailed \/ FinalizePruneFails
  \/ (Abort /\ ~Refused) \/ Restart
FaultsCease == <>[][~Fault]_vars

(* The last version the informer delivered or will deliver is the server's. *)
CacheConverges ==
  /\ watch = <<>> => cache = obj
  /\ watch # <<>> => watch[Len(watch)] = obj

(* No copy of the CueInstance is ahead of the server: a finalizer seen in  *)
(* one is still there, unless finalize removed it.                         *)
RegisteredSince(copy) == copy.finalizer => obj.finalizer \/ obj.phase = "gone"

Registration ==
  /\ RegisteredSince(cache)
  /\ \A i \in 1 .. Len(watch) : RegisteredSince(watch[i])
  /\ pc = "source" => work.finalizer /\ RegisteredSince(work)

Running == {"fetch", "stageOne", "stageTwo", "prune", "health", "await", "publish"}

(* A run that has published Progressing holds the CueInstance in place. *)
HeldWhileRunning == pc \in Running => obj.finalizer /\ obj.phase # "gone"

(* What was never registered was never reconciled. *)
UnregisteredIsEmpty ==
  ~obj.finalizer /\ obj.phase # "gone" => obj.phase = "live" /\ obj.status = EmptyStatus

(* What finalize works on, while no one else has written. *)
FinalizesCurrent ==
  /\ pc \in {"finalize", "unfinalize"} => work.phase = "deleting" /\ (current => work = obj)
  /\ pc = "unfinalize" /\ PrunesAtEnd(work) /\ ~skipped
       => work.status.inventory \cap live \subseteq Protected

(* The inductive invariant: what the two properties above need to be kept  *)
(* by every step.  It relates every trailing copy to the server, and the   *)
(* worker's place to the finalizer.                                        *)
IInv ==
  /\ CacheConverges /\ Registration /\ HeldWhileRunning /\ UnregisteredIsEmpty
  /\ FinalizesCurrent /\ FinalizeLeavesNothing

(* README: "Prune Kubernetes resources removed from the CUE source". *)
RemovedIsPrunedOrKept ==
  pc = "publish" /\ work.spec.prune
    => (work.status.inventory \ result.inventory) \cap live \subseteq Protected

(* Whatever else fails, only a failed prune makes a run forget objects it  *)
(* was to prune: a status with a new inventory comes after a whole prune,  *)
(* and every other failure keeps the old one.                              *)
ForgetsOnlyByFailedPrune ==
  [][RemovedIsPrunedOrKept /\ ~RemovedIsPrunedOrKept' => PruneFails]_vars

(* types.go: LastAppliedRevision is "the last successfully applied". *)
LastAppliedIsLast ==
  obj.phase = "live" /\ ran.ready = "True"
    => obj.status.lastAppliedRevision = ran.revision

(* The statuses differ in their conditions at most. *)
Alike(s, t) == s = [t EXCEPT !.conditions = s.conditions]

(* What a run has read is what the server has, and every copy, one of      *)
(* which will be the base of its first patch, shows the same status.       *)
ReadCurrent ==
  work.status = obj.status /\ \A copy \in Copies : copy.status = obj.status

(* Then it withdraws Ready, and its own copy and all others differ from    *)
(* the server's status in the conditions at most.                          *)
RunsAlike ==
  /\ obj.status.conditions.ready = "Unknown"
  /\ \A copy \in Copies \cup {work} : Alike(copy.status, obj.status)

WorksOnCurrent ==
  /\ pc = "source" => ReadCurrent
  /\ pc \in Running => RunsAlike
  /\ pc \in {"finalize", "unfinalize"} => obj.phase # "live"
  /\ obj.phase = "live" => \A copy \in Copies : copy.phase = "live"

BuildsRevision == rev \in Revisions /\ build = Content[rev]

(* Where it prunes, the run has left nothing stale but what is protected. *)
PrunedStale == work.spec.prune => Stale \cap live \subseteq Protected

(* How far the cluster is, by the place of the worker. *)
AppliedSoFar ==
  /\ pc = "fetch" => rev \in Revisions
  /\ pc \in {"stageOne", "stageTwo", "prune", "health", "await"} => BuildsRevision
  /\ pc = "stageTwo" => Applied(StageOne) \subseteq live
  /\ pc \in {"prune", "health", "await"} => Applied(build) \subseteq live
  /\ pc \in {"health", "await"} => PrunedStale

(* A run about to publish Ready has done all that it is to state. *)
ConcludesTruth ==
  pc = "publish" /\ result.conditions.ready = "True" =>
    result = Ready /\ BuildsRevision /\ Applied(build) \subseteq live /\ PrunedStale

(* The inductive invariant under ReadyIsTrue, LastAppliedIsLast and        *)
(* NoSilentOrphan, where a run starts from the last one's status.          *)
ReadyInv ==
  WorksOnCurrent /\ AppliedSoFar /\ ConcludesTruth /\ ReadyIsTrue /\ LastAppliedIsLast

(* Once faults cease, a CueInstance under deletion is eventually gone,     *)
(* suspended or not, whatever stale copies and failures came before.       *)
DeletionCompletes == FaultsCease => (obj.phase = "deleting" ~> obj.phase = "gone")

(* Once faults, the source, the spec and the deletion settle, an active    *)
(* CueInstance is Ready at the source's revision again and again.          *)
Converges ==
  FaultsCease =>
  \A r \in Revisions :
    <>[](source = r /\ obj.phase = "live" /\ ~obj.spec.suspend)
    => []<>(obj.status.conditions.ready = "True" /\ obj.status.lastAppliedRevision = r)

(* controller.go: pruning is skipped "when the account to impersonate is   *)
(* gone".                                                                  *)
SkipsOnlyWithoutAccount == [][skipped' /\ ~skipped => ~account]_vars
=============================================================================
