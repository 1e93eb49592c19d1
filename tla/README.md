# Verification of cue-flux-controller

TLA+ specifications of the controller that reconciles `CueInstance` objects: it
downloads a source artifact, builds the CUE in it, applies the result to the
cluster, prunes what is no longer built, assesses health, and publishes a status
that users and dependent CueInstances rely on. TLC checks the modules on small
instances; TLAPS proves what matters most for every value of the constants.

All line numbers below refer to `src/controllers/cueinstance_controller.go` unless
another file is named.

## 1. Inventory

| component | state it keeps | operations | talks to |
|---|---|---|---|
| status functions (`api/v1alpha1/cueinstance_types.go`, `conditions_types.go`) | none: functions from status to status | `CueInstanceProgressing`, `NotReady`, `NotReadyInventory`, `ReadyInventory`, `SetCueInstanceHealthiness` | reconciler |
| reconciler (`cueinstance_controller.go`) | the locals of one run; everything else is in the API server and on the cluster | `Reconcile`, `reconcile`, `apply`, `prune`, `checkHealth`, `finalize`, `patchStatus` | API server (reads through an informer cache, writes by merge patch and one `Update`), source artifact over HTTP, target cluster by server-side apply |
| build and gates (`build`, `checkGates`, `cueEncodeYAML`) | a buffer per run | evaluate expressions, validate under a policy, write YAML, evaluate gates | reconciler |
| triggers (`SetupWithManager`, `cueinstance_indexers.go`, `cueinstance_source_predicate.go`) | the work queue and its timers (controller-runtime) | decide which event of a GitRepository or CueInstance queues which CueInstance | informers, reconciler |
| dependencies (`checkDependencies`) | none | read other CueInstances' status | informer cache |
| inventory (`cueinstance_inventory.go`, 422-468) | none: functions on `ResourceInventory` | `AddObjectsToInventory`, `DiffInventory`, the namespace workaround | reconciler |
| impersonation (`cueinstance_impersonation.go`) | none | `CanFinalize`, `GetClient` | API server |
| events, metrics, `main.go`, generated deepcopy, manifests | - | notify, count, wire up | - |

Who runs when: controller-runtime runs at most one worker per CueInstance at a
time, so a CueInstance is reconciled by a sequential process. What makes it hard is
everything around that process: users edit, suspend and delete the CueInstance
while a run is under way; the process reads copies that trail the server; it writes
its status in several patches that carry no resourceVersion; every external call
can fail, some half-way; and the process can die between any two steps.

What makes each component correct:

- reconciler: Ready, the revisions and the inventory say the truth; pruning forgets
  no object; a deleted CueInstance takes its objects along; nothing is applied for
  one that is gone; runs converge once faults cease.
- build: what is written is what the validation policy promises; nothing passes a gate
  that is not true.
- triggers: no revision change is missed, and a missed one is caught up with.
- dependencies: a dependent applies a revision only when what it depends on has been
  Ready, at that revision if it follows the same source; those that depend on each other
  never do; who waits for nobody who waits for him gets there.
- inventory: nothing recorded is lost, nothing just applied is stale, whatever the
  namespaces it was recorded with; with several CueInstances, each collects its own.

The hazards list in `PROJECT.json` names each of these at the line where it bites.

## 2. Modules

| module | models |
|---|---|
| `CueInstanceStatus` | the status and the functions of `api/v1alpha1` on it; the JSON merge patch |
| `CueInstanceReconciler` | one CueInstance, its worker, the API server, the informer, users, source and account |
| `CueInstanceLifecycle` | the abstract promise: objects are applied while the CueInstance is there, and go with it |
| `CueInstanceReconcilerProofs` | the theorems about the reconciler, however far its copies trail |
| `CueInstanceReadyProofs` | the theorems about its statuses and inventories, most where runs start from the last one's status |
| `MCCueInstanceReconciler` | small instances for TLC |
| `SourceWatch` | what makes CueInstances run: watches, predicates, the handler, queue, workers, requeues |
| `SourceWatchProofs` | the theorems about what makes CueInstances run |
| `MCSourceWatch` | small instances for TLC |
| `CueInstanceBuild` | what a run builds from an artifact, and whether the gates let it apply it |
| `CueInstanceBuildProofs` | the theorems about the build |
| `MCCueInstanceBuild` | small inputs for TLC |
| `CueInstanceStatusProofs` | lemmas about the status functions, for the modules that use them |
| `Dependencies` | several CueInstances that depend on each other, with the status each reads of the others |
| `Rollout` | the abstract promise of `dependsOn`: a revision is applied only behind its dependencies |
| `DependenciesProofs` | the theorems about dependencies, the refinement included |
| `MCDependencies` | two CueInstances in several topologies for TLC |
| `Inventory` | entries, `DiffInventory`, the workaround for namespaces: operators without a state |
| `Ownership` | several CueInstances whose builds overlap: labels, apply that takes over, collection |
| `OwnershipProofs` | the theorems about inventories and ownership |
| `MCOwnership` | two CueInstances and three objects for TLC |

The modules meet at the run. `SourceWatch` decides that a run starts and sees only
which source revision, generation and request it acts on and the status it leaves;
`CueInstanceReconciler` opens the run up and takes the build for a step
(`Prepare`) that yields a set of objects, yields "gate closed", or fails;
`CueInstanceBuild` opens that step up. `Dependencies` and `Ownership` each put several
such runs side by side and keep of a run only what the others notice: the one its
published status, with the same status functions and the same merge patch as the
reconciler's (`CueInstanceStatus`); the other what it applies, labels, collects and
records, with the operators of `Inventory`.

### CueInstanceReconciler

`obj` is the CueInstance in the API server (phase, generation, spec, finalizer,
status), `cache` the informer's copy, `watch` the versions in between, oldest first.
Every write appends to `watch`; `Deliver` moves one version into `cache`. `work`,
`rev`, `build` and `result` are the locals of `Reconcile` and `reconcile`; `pc` is
the place in them. `live` is the set of cluster objects that carry this
CueInstance's owner labels. One action stands for one stretch of code between two
points where another process may act:

| pc | actions | code |
|---|---|---|
| `idle` | `Begin`, `BeginUnregistered` | 146-177: read, register the finalizer, branch on deletion, then suspension |
| `source` | `SourceNotReady`, `DependencyNotReady`, `Progress` | 179-249 |
| `fetch` | `Prepare`, `PrepareFails` | 278-405, `download`, `verifyArtifact` |
| `stageOne`, `stageTwo` | `StageOneApplied`, `StageOneFails`, ... | `apply`: CRDs and Namespaces first, waited for |
| `prune` | `Prune`, `PruneFails` | 422-479, `prune` |
| `health`, `await` | `HealthSkipped`, `HealthBegins`, `HealthUnrecorded`, `HealthPassed`, `HealthFailed` | 481-490, `checkHealth` |
| `publish` | `Publish` | 250-276, `patchStatus` |
| `finalize`, `unfinalize` | `FinalizePrunes`, `FinalizePruneFails`, `FinalizeSkips`, `FinalizeKeeps`, `RemoveFinalizer` | `finalize` |
| any | `Refused`, `Abort`, `Restart` | the server refuses, an error is returned at once, the process dies |

A failing server-side apply leaves any part of its stage applied; a failing deletion
any part deleted. `PatchStatus` diffs the new status against a copy read from the
cache at that moment and applies the difference to the server's: exactly what
`patchStatus` does, lost updates included. Whether the conditions list is part of
the difference when only wording or time changed is left open (`sent`).

Data abstracted: an object is a model value, a revision determines what it builds
(`Content`), a condition is its status. The service account is there or not. Other
finalizers and objects deleted behind the controller's back are left out. A behaviour
follows one CueInstance to its end; that an earlier one of its name may have left
objects with the same labels is in `Init` (`live` is any set of objects).

Of the annotations the effect is kept. What is marked `prune: disabled` or
`reconcile: disabled` is not deleted (`Protected`). What is marked `reconcile: disabled`
(`Disabled`: on the cluster, or in the manifest while it is not there) is passed over by
the apply as well (799-802, `Applied`): it is neither labelled nor created, and yet
`ApplyAll` answers "unchanged", so that it enters the inventory like the rest. Whether such
an object is there at all, without our labels, is not told apart: the stage's wait and
the health assessment may pass or time out for it. The marks do not change during a
behaviour.

`skipped` and `ran` are history variables: that finalize gave up pruning, and what the
last run to publish published.

### SourceWatch

One source and the CueInstances (`Instances`) that refer to it. `source` and
`instance` are the objects in the API server; `sourceWatch` and `instanceWatch` the
versions on their way to the informers; `sourceCache` and `instanceCache` the
informers' copies. `events` are the source events that passed
`SourceRevisionChangePredicate` and wait for the handler. `queue`, `backoff` and
`timers` are controller-runtime's: keys to serve, keys the rate limiter holds, keys
with a RequeueAfter. `run[i]` is what the run under way read, `attempt[i]`, a history
variable, what the last run to finish read.

| action | code |
|---|---|
| `DeliverSource` | the informer, then the predicate (`cueinstance_source_predicate.go`); it may skip versions, as after a relist |
| `HandleSource` | `requestsForRevisionChangeOf` on the old and on the new object: skip those that attempted this revision, sort, refuse circles |
| `DeliverInstance(i)` | the informer, then the predicates of lines 133-135 |
| `Start`, `StartSuspended` | a worker takes a key, 146-180 |
| `Finish` | the status is published and the run asks to come back |
| `Fail` | an error is returned |
| `Requeue` | a timer or the rate limiter fires |
| `PublishArtifact`, `EditInstance`, `Restart` | source-controller, users, a crash that loses queue and timers |

### CueInstanceBuild

A sequential program over one input `in`: the part of the spec that steers the build
and an artifact, reduced to what decides a document's fate. `pc`, `i` and `j` are
the place in the loops; `written` is the buffer, `announced` what events reported,
`closed` the gates that failed. Documents are named by where they come from:
`<<"expr", n, 1>>`, `<<"value", 1, 1>>`, `<<"file", n, m>>`. `Judge` is one
document's way through encoding, validation and the policy, the same for
expressions and items of files; the whole value has its own way, as in the code.

### Dependencies

`topology` says who depends on whom (`dependsOn`), whose health a run assesses among
what it applies or checks (`awaits`), and how each writes its reference to the one
source. `instance` are the CueInstances in the API server, `cache` the informers'
copies, `source` and `sourceCache` the release the source is at and its copy. `pc`,
`work` and `rev` are a run's place, working copy and revision. `applied` and `rolled`
are history: the revisions applied, and what was ever published Ready, spec and
revision together.

| action | code |
|---|---|
| `Start`, `DependencyNotReady` | 146-247: read the copies, `checkDependencies` (876-905), publish Progressing or the refusal |
| `Apply`, `ApplyFails` | 278-420: everything up to and with the apply, which may fail half-way |
| `Healthy`, `HealthFails` | 422-499: prune and `checkHealth`, which leaves the CueInstance's own object out and reads the API server; an awaited CueInstance is healthy if kstatus says so (`Current`) |
| `Abort`, `Restart` | a refused patch; the process dies and lists again |
| `PublishArtifact`, `EditSpec`, `Deliver`, `DeliverSource` | source-controller, users, informers |

All patches are `PatchStatus`, against the copy of the moment. A copy may trail by any
number of versions, but for the own copy of a run that begins: with `Lagging` unset it
is up to date. Of the status `Seen` keeps what others read.

The two ways of waiting differ in what they take for ready. `checkDependencies` wants a
Ready condition and the generation observed. `WaitForSet` (1043) asks kstatus, with the
poller of `main.go:147`, which has no reader of its own for CueInstances: a status with
neither conditions nor `observedGeneration` is Current. A CueInstance that was just
applied and has not reported yet is healthy to the one that applied it, and what would be
a deadlock of the two can resolve by that, or not, as the timing has it
(`UnseenAloneOpens`).

### Inventory and Ownership

An entry of an inventory is an identifier (group, kind, name, namespace) and a version.
`Target` is what the API server takes an identifier for: it ignores a namespace where
the kind has none, which is how one object can be recorded under two names
(`StaleObjects` with the workaround `Preserve`, 447-467). `label` says, of each object
of the cluster, whose owner label it has, or `Nobody` if it does not exist. A run
applies its objects one at a time and takes over the label of each but those marked
`reconcile: disabled`, which it passes over and records (`Apply`, `Labelled`), then
collects what is stale: `Find` is the read of `DeleteAll` that looks for the own label,
`Remove` the delete request that follows; between them others go on. `Record` and
`PruneFails` publish the inventory, `Abort` publishes none, `Finalize...` do the same
for a CueInstance under deletion. `unaccounted` and `retaken` are history: what a
CueInstance left behind because a run failed or pruning was unset or refused, and whose
found object another applied since.

## 3. Runs

| run | instance | question and answer |
|---|---|---|
| `steady` | 2 objects (a Namespace and one marked `reconcile: disabled`), 2 revisions that swap them, one edit besides the deletion; an earlier CueInstance may have left objects; a run starts once the informer has seen the last one's status, within a run copies are up to 2 versions old | is what the status says true, does pruning forget nothing, and do runs converge? `TypeOK`, `ReadyIsTrue`, `LastAppliedIsLast`, `NoSilentOrphan`, `ForgetsOnlyByFailedPrune`, the proofs' `ReadyInv` and, with fairness, `Converges` hold |
| `lagging` | 2 objects (one `prune: disabled`), 1 revision, copies up to 2 versions old, suspension edited once, before the deletion or during finalization; the service account comes and goes | does finalization survive stale copies and conflicts? `FinalizeLeavesNothing`, `NoApplyAfterGone`, `ImplementsLifecycle`, the proofs' `IInv` and, with fairness, `DeletionCompletes` hold |
| `prune_failure` | 3 objects, 2 revisions (one drops an object, one brings a Namespace), no edits | `RemovedIsPrunedOrKept` is violated: a failed prune publishes an inventory without the objects it did not delete |
| `lost_update` | the same, copies up to 2 versions old wherever they are read | `LastAppliedIsLast` is violated: the status of a run is overwritten with the one before it |
| `account_lookup` | as `prune_failure` | `SkipsOnlyWithoutAccount` is violated: any lookup error skips pruning for good |
| `watch` | two CueInstances, one behind the other, one worker, 2 revisions, 2 edits or requests | is a change ever missed? `TypeOK`, `NoChangeMissed` and the proofs' `WatchInv` hold: the handler skips by a status that trails, and would miss a roll-back, did it not map the old object of an event too |
| `requeue` | two CueInstances in a circle, which the handler refuses to sort; an artifact that comes and goes; fairness | `NeverForgotten` and `CatchesUp` hold: what the watches miss, the requeues make up for |
| `build` | all policies, up to 2 expressions and 2 files of up to 2 items, failures of every kind, up to 3 gates | is what is written, reported and refused what the policy says? `TypeOK`, `BuildsByPolicy`, `FailsWhole`, `ReportsInvalid`, `GatesHold` and the proofs' `BuildInv` hold |
| `whole_value` | the failure inputs of `build` | `DropKeepsValid` is violated: without expressions nothing is ever written |
| `tag_vars` | up to two tag variables | `TagVarsAvailable` is violated: all have the value of the last |
| `dependencies` | two CueInstances, two releases, one edit; a chain, a chain whose references are written differently, a circle, one that awaits the health of its dependent, and two that apply and await each other | does a revision roll out in order, does it roll out, and what becomes of those that wait for each other? `ImplementsRollout` (the refinement of `Rollout`), `ReadyIsRolledOut`, `BlockedForever`, `UnseenAloneOpens` and, with fairness, `RollsOut` hold |
| `ownership` | two CueInstances, three objects, of which one is marked `reconcile: disabled` and may be missing, one was recorded at an older API version and one has no namespace but was recorded with one; one edit or deletion each | who collects what both have applied? `NothingForgotten`, `DeletesOwn`, `PruneSparesBuilt` and, with fairness, `Settles` hold |

Three places where the code does not do what it says have no run of their own. A stage of
`apply` that fails half-way publishes `CueInstanceNotReady`, which leaves the inventory
as it was: what was applied is in no inventory (`Abort` of `Ownership` puts it in
`unaccounted`), although `cueinstance_types.go:326` calls the inventory the list of what
has "been successfully applied". By the same words what is marked `reconcile: disabled`
should not be in it, and is (`Applied`, and the part of `ReadyIsTrue` that excepts it).
And a run that found no artifact leaves
`lastAttemptedRevision` as it was, so that an artifact that comes back at that revision
is skipped by the handler (`cueinstance_indexers.go:52`) and only the retry interval
wakes the CueInstance, although line 208 expects that "the watcher should trigger a
reconciliation"; `CatchesUp` covers that it is woken at all.

Bounds. `MaxGeneration` bounds the edits users make; the generation a deletion adds does
not count (`Edited`), so that the edit may also come after it. `AccountMoves` lets the service
account come and go: where it is unset the account is there throughout, and none of the
run's properties depends on it but by way of `finalize`. `MaxLag` the versions in flight to the informer: a write waits when
they are all in flight. Two versions in flight are enough for a copy that predates
both the last run's Progressing and its final status; the proofs have no such bound.
Two revisions are enough for a roll-back; two objects for one that comes and one that is
dropped, in either stage, and three for one that is kept beside them. Deadlock is checked in all runs but
`ownership`, where users may delete every CueInstance and nothing is left to do.

In `SourceWatch`, `MaxEdits` bounds the edits and requests users make, `MaxLag`
each of the queues to and from the informers; a write waits when they are full. One
version and one event in flight, beside the object and its copy, are enough for an
event that is handled after the status it compares with has been overtaken; two
revisions for a roll-back; two edits for a CueInstance that is suspended and resumed;
two CueInstances to contend for one worker (`Workers`). The two revisions of `watch` are
symmetric: the code tells revisions apart and nothing else, and none of the run's properties,
all of them invariants, names one. In `CueInstanceBuild`
two documents in every loop are enough for a document before and after another; the
proofs have no bound.

In `Dependencies`, `MaxEdits` bounds the edits of each spec and `Releases` is the list
of revisions the source goes through; copies trail without bound. Two CueInstances make
every kind of chain and circle but the longer ones, which the proofs have; in two of the five
topologies health is part of the circle; a spec edited
once and two releases are enough for a Ready that is of another spec or revision.
`Lagging` is unset in the run: a run that begins with an old copy of its own status
writes it back, the `lost_update` run's finding, and then a CueInstance reads as Ready
at a revision it was not Ready at with that spec. The theorems except `ReadyIsTold` hold
either way. In `Ownership`, `MaxEdits` bounds what users do to each CueInstance, edits
and then a deletion. Two CueInstances are the fewest that contend; the three specs
overlap in one object, in none, and one of them does not prune. The object marked
`reconcile: disabled` was recorded by an earlier version, with its label or without the object
being there; the entry recorded with a namespace too many keeps its version (`PruneSparesBuilt`).

Fairness. The worker keeps taking steps and the informer keeps delivering (weak
fairness). That a run comes back after it ended is justified by the rate limiter
after an error and by the `Interval` or retry requeue otherwise (256-275). Nothing is
assumed of edits, sources, accounts or outcomes. `DeletionCompletes` and `Converges`
are stated for behaviours in which faults cease (`FaultsCease`), after any number of
them. `Converges` is checked where runs start from the last one's status: a run that
starts from an older one can write that back, the finding of `lost_update`.

In `SourceWatch` informers deliver and handlers go on (weak fairness); the work
queue serves every key in turn, so a key is started although it may be queued behind
others again and again (strong fairness of starting); requeues fire, with an
Interval the CRD requires and that is taken to be positive; a run ends, and one that
can end well does not fail for ever (strong fairness of `Finish`: the errors left are
the API server's, which are transient). `CatchesUp` is stated for
processes that stop restarting and a source that settles.

In `Dependencies` informers deliver every version, so that also one that is overtaken
again and again is delivered between two (strong fairness of `Deliver`). Runs come back
after every interval: one whose dependencies are ready between their runs is some time
started then, and one that awaits others polls them then (strong fairness of `Start` and
`Healthy`). Every so often a run's first and last patch are seconds apart, so that the
times in the conditions differ and the list is sent (`Healthy(i, TRUE)`). `RollsOut`
supposes that, from some moment on, there are no edits, releases, failures and restarts
and that assessments outlast the runs they await; for those in a circle they may time
out. In `Ownership` runs go on and come back (weak fairness of `Proceeds`); `Settles` supposes
that users rest and faults cease.

## 4. Proofs

`CueInstanceReconcilerProofs` proves, for any objects, revisions, contents, specs and
bounds that satisfy the named assumptions of `CueInstanceReconciler` (`Protected` and
`ClusterDefs` are sets of objects, `Disabled` is a part of `Protected`, every revision builds a set of objects, specs are
specs):

- `TypeCorrect`: `TypeOK` always holds.
- `Invariance`: `IInv` always holds.
- `Finalization`: a CueInstance that asked for pruning leaves nothing of its recorded
  inventory behind, unless it is protected or no account was found.
- `NothingAppliedAfterGone`: nothing is applied for a CueInstance that is gone.
- `Refinement`: the reconciler implements `CueInstanceLifecycle`.

Why `IInv`. `FinalizeLeavesNothing` is not inductive: nothing in it speaks of the
copies the worker acts on. What carries it: the last version in flight is the
server's (`CacheConverges`); a finalizer seen in any copy is still there unless the
CueInstance is gone (`Registration`), because only `finalize` takes it away; so a run
that got its Progressing patch accepted holds the CueInstance in place
(`HeldWhileRunning`), and only a registered CueInstance has a status
(`UnregisteredIsEmpty`); and as long as no one else wrote, what `finalize` prunes is
what the server has on record (`FinalizesCurrent`), which the conflict of the `Update`
enforces. Each conjunct is preserved by a lemma of its own, cases following the
actions; `GoneStays` collects what happens after the end.

`CueInstanceReadyProofs` proves, under the same assumptions,

- `FailedPruneAloneForgets`: only a failed prune makes a run forget an object it was to
  prune, however far the copies trail. Together with the finding of `prune_failure`, which
  is such a step, it says that this is the only way.

and, where a run starts from the last one's status (`FreshStarts`: the informer has seen
all status patches by then),

- `ReadyInvariance`: `ReadyInv` always holds.
- `ReadyStatesTruth`: `ReadyIsTrue` always holds: while Ready is True the inventory is what
  the recorded revision builds, and all of it is on the cluster with our labels but what is
  marked `reconcile: disabled`, of which nothing is claimed.
- `LastAppliedIsTold`: `LastAppliedIsLast` always holds.
- `PruningForgetsNothing`: `NoSilentOrphan`.

`FreshStarts` is needed: the code does nothing to enforce it, and where it fails the
`lost_update` run shows a status written over with an older one, and then Ready states what
is no longer true. It asks only that the controller's own writes have come back when the
next run starts, which the requeue intervals make the usual case. Edits, suspensions and
deletions may be under way to the informer then; within a run the copies that patches are
computed against trail without bound; users edit, calls fail half-way and the process dies
wherever they can.

Why `ReadyInv`. `ReadyIsTrue` speaks of a CueInstance at rest; what makes it true is done
during a run, place by place. `WorksOnCurrent` says that the run starts from the status the
server has (`ReadCurrent`), that Ready is withdrawn before the cluster is touched, and that
from then on the run's copy and all copies on their way to the informer agree with the
server in everything but conditions (`RunsAlike`). `AppliedSoFar` says how much of the build is on the cluster and how much
of the stale is off it at each place; `ConcludesTruth` that a run about to publish Ready has
done all of it. `MergePatchAlike` then says what a patch computed against a trailing copy
publishes: the new status whole, except that conditions taken for unchanged are not sent,
and that leaves Ready as it is on the server, withdrawn.

`SourceWatchProofs` proves, for any CueInstances, revisions, dependencies, workers and
bounds:

- `TypeCorrect`: `TypeOK` always holds; no more runs are under way than there are workers.
- `NoneIsForgotten`: `NeverForgotten` always holds. An active CueInstance has a key, a
  delay, a timer or a run ahead of it, even where the handler refuses to request any.
- `EditsAreHeeded`: an instance at rest has acted on the spec and the reconcile request
  delivered of it.

and, for a source whose artifact does not vanish and for dependencies without circles,

- `Invariance`: `WatchInv` always holds.
- `ChangesAreNotMissed`: `NoChangeMissed` always holds.

Both hypotheses are needed. The handler refuses every request as soon as the CueInstances
to be requested contain a circle; and a revision that comes back after a time without an
artifact is skipped for instances that attempted it before, or whose status still says so
(section 3). The `requeue` run is about these two cases.

Why `WatchInv`. `NoChangeMissed` speaks of the moment when nothing is under way.
`RevisionsHeeded` says at every moment that an instance at rest has acted on the revision
delivered or that an event waits that will request it, whatever its status says when it is
handled: an event of two revisions does, because no status names both (`WillRequest`), and
that of the first artifact does, because nothing was attempted before it (`ArtifactStays`).
`EditsHeeded` says the same of specs and requests, and rests on `GenerationsCount`: no two
versions of an instance with the same generation differ in their spec, so that no resumption
escapes the predicate. `WatchesConverge` takes both to the server's versions.

`CueInstanceBuildProofs` proves, for any inputs of the form `InputsAssumption`
describes (any number of expressions, files, items, gates and tag variables):

- `BuildInvariance`: `BuildInv` always holds.
- `BuildTypeCorrect`: `TypeOK` always holds.
- `PolicyKept`, `FailingIsWhole`, `InvalidReported`: a build that goes on has written
  and reported exactly what its policy promises of expressions and files, and under
  Fail there was nothing to refuse.
- `GatesRespected`: nothing is applied unless every gate is true.

Why `BuildInv`. The properties speak of the end only. `BuildInv` says half-way through
the loops what they say at the end, of the documents the loops have come past
(`Visited`): each step adds exactly one document to these, or none, and `Loops` says
where the loops may be, so that at the end every document has been visited.

`DependenciesProofs` proves, for any CueInstances, topologies, releases and bounds that
satisfy the named assumptions of `Dependencies`:

- `TypeCorrect`: `TypeOK` always holds.
- `DependenciesRollOutFirst`: `Dependencies` implements `Rollout`.
- `BlockedForGood`: those that depend on each other, and those that depend on one of them,
  never become Ready (`BlockedForever`).
- `OnlyTheUnseenOpens`: where awaited health is part of what makes CueInstances wait for each
  other, the first of them to become Ready has taken another, on which no run has reported, for
  healthy (`UnseenAloneOpens`). In the instance of `dependencies` this happens, to both in turn:
  nothing stronger holds.
- `ReadyIsTold`: with `Lagging` unset, who reads Ready reads a spec and a revision that
  became Ready together.

All but `ReadyIsTold` rest on one invariant. A copy, a working copy or a half-patched status
never claims a revision that was not rolled out (`StatusesKnown`): a patch takes every
field from one status or the other, so it knows no more than the two (`MergePatchKnown`).
So a run that passed `checkDependencies` was allowed to (`RunsOrdered`), and what is allowed
stays allowed, history only growing. `BlockedIdle` says of those in a circle of `dependsOn`
that nothing of them was ever rolled out and none of them is past `checkDependencies`, which
reads Ready copies only. For `OnlyTheUnseenOpens`, one that becomes Ready has passed
`checkDependencies`, so what it waits for in the circle is awaited; that was Current, and as
nothing of the circle was rolled out it is not Ready, so its status is empty. `ReadyIsTold` needs more: that
the fields of one status belong together. `Agree` says that while a run is under way
Ready is withdrawn and the server's status, the working copy and the informer's copy
differ in conditions only, so that the last patch arrives whole or leaves Ready withdrawn
(`PatchArrives`).

`OwnershipProofs` proves, for any CueInstances, objects, specs and recorded inventories:

- `TypeCorrect`: `TypeOK` always holds.
- `NothingIsForgotten`: `NothingForgotten` always holds.
- `OthersAreSpared`: `DeletesOwn`.
- `OnlyMisrecordedIsHit`: what a collection deletes of what its run has just applied, it deletes
  for an entry that an earlier version of the controller recorded with a namespace its kind
  has not, and of an object whose API version has changed since. The workaround compares
  versions, and this is the one case it misses.
- `BuiltIsSpared`: hence `PruneSparesBuilt`, if the entries recorded so keep their API version; all
  others may change theirs.

They rest on lemmas about `Inventory`: what is stale was recorded (`StaleType`); what a recorded entry
denotes is denoted by the new inventory or by a stale entry (`StaleIsAll`: the workaround
loses nothing); nothing stale denotes what is new at the same version (`StaleIsNotNew`). `Origins` says
where an entry comes from: what a run records has a namespace if and only if its kind has.
`NothingForgotten` is not inductive: a run replaces its inventory, and what the old one
named must be somewhere. `AllCollected` says where, while a run collects: in the new
build, in what is yet to be collected, or left knowingly. `FoundOwn` says that what a
collection found still has its label, is gone, or was applied since.

Only model-checked are the liveness properties (`Converges`, `DeletionCompletes`,
`CatchesUp`, `RollsOut`, `Settles`), which are outside what the prover does (fairness,
`ENABLED`). Every invariant and every action property of a passing run is stated by a theorem.

## 5. Not modelled

Notifications and metrics (no state the controller reads back), `main.go` (wiring and
flags), generated deepcopy code, manifests and CRDs, tests, the CUE evaluator and the
Kubernetes libraries beyond what the code relies on. Durations are not told apart: a
requeue is one that fires. `SourceWatch` is about GitRepositories, the kind that is
watched: for a Bucket, which the API admits too, `getSource` returns an error that is
retried for ever without a status. The Healthy condition is modelled as the code keeps
it, but nothing is promised of it: it is set to Unknown for the assessment and to
nothing else ever, and a run that is interrupted there leaves it in the status the
next starts from, although `CueInstanceProgressing` is said to reset the conditions
to a single one (`cueinstance_types.go:222`). A failing List in `requestsForRevisionChangeOf` is left
out, the list being served from the informer's copy.

Of impersonation (`cueinstance_impersonation.go`) the answer of `CanFinalize` is
modelled, and that `GetClient` succeeds or fails. There is one cluster and the identity
that acts in it is not told apart: a `kubeConfig` that is edited, so that a run applies
to another cluster than the one its inventory is about, is left out, and named in
`PROJECT.json`. `Ownership` leaves out the statuses and their lost updates, which are
the reconciler's subject: a run reads and records the newest inventory. In
`Dependencies` all CueInstances follow one source, written with its namespace or
without; one that follows another is one whose reference differs, and whose revision is
then not compared.

## 6. Plan

Modelled first: the run of one CueInstance, because everything else only matters
through it; then what starts runs, what a run builds, how CueInstances that depend on
each other run, and how they share objects. Left, in this order:

1. Proofs: the abstract modules' own consequences (`CueInstanceLifecycle`, `Rollout`); that
   what is unaccounted for in `Ownership` comes from a run that failed or a spec that does
   not prune. Liveness stays with TLC.
2. Several clusters in `Ownership`: `kubeConfig` as a part of the spec, an inventory that
   does not name its cluster, the account looked up here and impersonated there.
3. Apply in detail: immutable fields and `force`, API versions that change under an
   inventory (the workaround then prunes what was just applied).
