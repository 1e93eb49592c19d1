---------------------------- MODULE SourceWatch ----------------------------
(***************************************************************************)
(* What makes a CueInstance run: the watches SetupWithManager registers,   *)
(* the predicate and the handler of the GitRepository watch, the work      *)
(* queue, and the requeues Reconcile asks for                              *)
(* (controllers/cueinstance_controller.go, cueinstance_indexers.go,        *)
(* cueinstance_source_predicate.go).                                       *)
(*                                                                         *)
(* All the Instances refer to one GitRepository.  Its events and theirs    *)
(* come from informers that trail the API server; the handler that turns   *)
(* an event of the source into requests runs later still, and compares the *)
(* artifact with a status that may not be the last one written.            *)
(*                                                                         *)
(* A run is read-source, then finish: what happens in between, and how its *)
(* status may get lost, is CueInstanceReconciler's subject.                *)
(***************************************************************************)
EXTENDS Naturals, Sequences, FiniteSets

CONSTANTS
  Instances,         \* the CueInstances that refer to the source
  Revisions,         \* revisions of its artifact
  NoRevision,        \* no artifact, or no source
  DependsOn,         \* the dependsOn of each instance, among Instances
  ArtifactVanishes,  \* TRUE: the source may lose its artifact, or be deleted
  Workers,           \* MaxConcurrentReconciles
  MaxEdits,          \* bound: edits and reconcile requests of each instance
  MaxLag             \* bound: events an informer or a handler has yet to take

ASSUME RevisionsAssumption == NoRevision \notin Revisions
ASSUME DependsOnAssumption == DependsOn \in [Instances -> SUBSET Instances]
ASSUME WatchBounds ==
  /\ ArtifactVanishes \in BOOLEAN
  /\ Workers \in Nat \ {0} /\ MaxEdits \in [Instances -> Nat] /\ MaxLag \in Nat \ {0}

Revision == Revisions \cup {NoRevision}

(* Of a CueInstance: what the predicates and the handler look at. *)
Instance == [generation : Nat, requested : Nat, suspend : BOOLEAN, lastAttempted : Revision]

(* What a run acts on. *)
Inputs == [generation : Nat, requested : Nat, revision : Revision]
NoRun  == [generation |-> 0, requested |-> 0, revision |-> NoRevision]

VARIABLES
  source,        \* the revision of the artifact in the API server
  sourceWatch,   \* versions the source's informer has yet to deliver
  sourceCache,   \* its copy
  events,        \* <<old, new>> delivered, not handled yet
  instance,      \* the instances in the API server
  instanceWatch, \* versions of each the informer has yet to deliver
  instanceCache, \* its copies
  queue,         \* keys to reconcile now
  backoff,       \* keys the rate limiter holds back
  timers,        \* keys with a RequeueAfter pending
  run,           \* what the run under way read; NoRun
  attempt        \* history: what the last run to finish read

sources   == <<source, sourceWatch, sourceCache, events>>
instances == <<instance, instanceWatch, instanceCache>>
requeues  == <<backoff, timers>>
vars == <<sources, instances, queue, requeues, run, attempt>>

Running == {i \in Instances : run[i] # NoRun}

Init ==
  /\ source \in Revision /\ sourceCache = source
  /\ sourceWatch = <<>> /\ events = <<>>
  /\ instance \in [Instances -> {[generation |-> 1, requested |-> 0, suspend |-> FALSE,
                                  lastAttempted |-> NoRevision]}]
  /\ instanceWatch = [i \in Instances |-> <<>>] /\ instanceCache = instance
  /\ queue = Instances /\ backoff = {} /\ timers = {}
  /\ run = [i \in Instances |-> NoRun] /\ attempt = [i \in Instances |-> NoRun]

-----------------------------------------------------------------------------
(* Predicates and handler.                                                 *)

(* SourceRevisionChangePredicate.Update: an artifact that goes is no change. *)
RevisionChanged(old, new) == new # NoRevision /\ old # new

(* Mutant of RunWanted: the generation is not compared. *)
RunRequested(old, new) == old.requested # new.requested

(* GenerationChangedPredicate or ReconcileRequestedPredicate. *)
RunWanted(old, new) == old.generation # new.generation \/ old.requested # new.requested

(* dependency.Sort refuses a set in which two or more depend in a circle. *)
InCircle(S) ==
  {i \in S : \E C \in SUBSET S :
     i \in C /\ \A j \in C : (DependsOn[j] \ {j}) \cap C # {}}

(* requestsForRevisionChangeOf: no artifact, no requests; not for those    *)
(* that attempted this revision; none at all when they cannot be sorted.   *)
RequestsFor(revision) ==
  LET dependents == {i \in Instances : instanceCache[i].lastAttempted # revision}
  IN  IF revision = NoRevision \/ InCircle(dependents) # {} THEN {} ELSE dependents

(* Mutant of Requests: only the new object is mapped. *)
RequestsOfNew(event) == RequestsFor(event[2])

(* EnqueueRequestsFromMapFunc maps the old and the new object of an Update. *)
Requests(event) == RequestsFor(event[1]) \cup RequestsFor(event[2])

-----------------------------------------------------------------------------
(* The API server, its users, the informers.                               *)

StoreInstance(i, new) ==
  IF new = instance[i]
    THEN UNCHANGED instances
    ELSE /\ Len(instanceWatch[i]) < MaxLag
         /\ instance' = [instance EXCEPT ![i] = new]
         /\ instanceWatch' = [instanceWatch EXCEPT ![i] = Append(@, new)]
         /\ UNCHANGED instanceCache

PublishArtifact ==
  /\ Len(sourceWatch) < MaxLag
  /\ \E r \in (IF ArtifactVanishes THEN Revision ELSE Revisions) \ {source} :
       source' = r /\ sourceWatch' = Append(sourceWatch, r)
  /\ UNCHANGED <<sourceCache, events, instances, queue, requeues, run, attempt>>

EditInstance(i) ==
  /\ instance[i].generation + instance[i].requested <= MaxEdits[i]
  /\ \/ \E suspend \in BOOLEAN :
          StoreInstance(i, [instance[i] EXCEPT !.generation = @ + 1, !.suspend = suspend])
     \/ StoreInstance(i, [instance[i] EXCEPT !.requested = @ + 1])
  /\ UNCHANGED <<sources, queue, requeues, run, attempt>>

(* The events that pass the predicate: of an artifact that went there is   *)
(* one only when the source was deleted with it.                           *)
Noticed(old, new) ==
  IF RevisionChanged(old, new) THEN {Append(events, <<old, new>>)}
  ELSE IF old # new THEN {events, Append(events, <<old, new>>)}
  ELSE {events}

(* After a broken watch the informer lists: it sees the last version only. *)
DeliverSource ==
  /\ sourceWatch # <<>> /\ Len(events) < MaxLag
  /\ \E n \in {1, Len(sourceWatch)} :
       /\ sourceCache' = sourceWatch[n]
       /\ sourceWatch' = SubSeq(sourceWatch, n + 1, Len(sourceWatch))
       /\ events' \in Noticed(sourceCache, sourceWatch[n])
  /\ UNCHANGED <<source, instances, queue, requeues, run, attempt>>

HandleSource ==
  /\ events # <<>>
  /\ events' = Tail(events)
  /\ queue' = queue \cup Requests(Head(events))
  /\ UNCHANGED <<source, sourceWatch, sourceCache, instances, requeues, run, attempt>>

DeliverInstance(i) ==
  /\ instanceWatch[i] # <<>>
  /\ LET new == Head(instanceWatch[i])
     IN  /\ instanceCache' = [instanceCache EXCEPT ![i] = new]
         /\ queue' = IF RunWanted(instanceCache[i], new) THEN queue \cup {i} ELSE queue
  /\ instanceWatch' = [instanceWatch EXCEPT ![i] = Tail(@)]
  /\ UNCHANGED <<sources, instance, requeues, run, attempt>>

-----------------------------------------------------------------------------
(* The workers.  A key that is queued while it runs waits.                 *)

(* Mutant of Dequeue: the number of workers is not bounded. *)
DequeueUnbounded(i) ==
  /\ i \in queue \ Running
  /\ queue' = queue \ {i}

Dequeue(i) ==
  /\ i \in queue \ Running /\ Cardinality(Running) < Workers
  /\ queue' = queue \ {i}

(* Suspended: the run ends, and asks for no requeue. *)
StartSuspended(i) ==
  /\ Dequeue(i) /\ instanceCache[i].suspend
  /\ UNCHANGED <<sources, instances, requeues, run, attempt>>

Start(i) ==
  /\ Dequeue(i) /\ ~instanceCache[i].suspend
  /\ run' = [run EXCEPT ![i] = [generation |-> instanceCache[i].generation,
                                requested |-> instanceCache[i].requested,
                                revision |-> sourceCache]]
  /\ UNCHANGED <<sources, instances, requeues, attempt>>

(* patchStatus: with no revision, or one the copy in the cache has already, *)
(* the merge patch leaves lastAttemptedRevision out.                       *)
Attempted(i, revision) ==
  IF revision \in {NoRevision, instanceCache[i].lastAttempted}
    THEN instance[i] ELSE [instance[i] EXCEPT !.lastAttempted = revision]

Ends(i) ==
  /\ run[i] # NoRun
  /\ StoreInstance(i, Attempted(i, run[i].revision))
  /\ run' = [run EXCEPT ![i] = NoRun]
  /\ attempt' = [attempt EXCEPT ![i] = run[i]]

(* Mutant of Finish: without an artifact the watcher is relied on. *)
FinishWithoutRetry(i) ==
  /\ Ends(i)
  /\ timers' = IF run[i].revision = NoRevision THEN timers ELSE timers \cup {i}
  /\ UNCHANGED <<sources, queue, backoff>>

(* Ready, not ready, or no artifact: the status is published and the run   *)
(* asks to come back after the interval, the retry interval or the one for *)
(* dependencies.                                                           *)
Finish(i) ==
  /\ Ends(i)
  /\ timers' = timers \cup {i}
  /\ UNCHANGED <<sources, queue, backoff>>

(* An error is returned, by getSource or later: the rate limiter takes the *)
(* key.                                                                    *)
Fail(i) ==
  /\ run[i] # NoRun
  /\ run' = [run EXCEPT ![i] = NoRun]
  /\ backoff' = backoff \cup {i}
  /\ UNCHANGED <<sources, instances, queue, timers, attempt>>

Requeue(i) ==
  \/ /\ i \in timers
     /\ timers' = timers \ {i} /\ queue' = queue \cup {i}
     /\ UNCHANGED <<sources, instances, backoff, run, attempt>>
  \/ /\ i \in backoff
     /\ backoff' = backoff \ {i} /\ queue' = queue \cup {i}
     /\ UNCHANGED <<sources, instances, timers, run, attempt>>

(* Queue and timers die with the process.  The new one lists everything,   *)
(* and takes each object it finds for one that was created.                *)
Restart ==
  /\ sourceWatch' = <<>> /\ sourceCache' = source
  /\ events' = <<<<NoRevision, source>>>>
  /\ instanceWatch' = [i \in Instances |-> <<>>] /\ instanceCache' = instance
  /\ queue' = Instances /\ backoff' = {} /\ timers' = {}
  /\ run' = [i \in Instances |-> NoRun]
  /\ UNCHANGED <<source, instance, attempt>>

-----------------------------------------------------------------------------
Next ==
  \/ PublishArtifact \/ DeliverSource \/ HandleSource \/ Restart
  \/ \E i \in Instances :
       \/ EditInstance(i) \/ DeliverInstance(i)
       \/ StartSuspended(i) \/ Start(i) \/ Finish(i) \/ Fail(i) \/ Requeue(i)

Spec == Init /\ [][Next]_vars

(* Informers deliver, handlers go on, the queue serves every key in turn,  *)
(* pending requeues fire (the CRD requires an Interval, taken to be        *)
(* positive), runs end, and one that can end well does not fail for ever.  *)
Fairness ==
  /\ WF_vars(DeliverSource) /\ WF_vars(HandleSource)
  /\ \A i \in Instances :
       /\ WF_vars(DeliverInstance(i)) /\ WF_vars(Requeue(i))
       /\ SF_vars(StartSuspended(i) \/ Start(i))
       /\ WF_vars(Finish(i) \/ Fail(i)) /\ SF_vars(Finish(i))

FairSpec == Spec /\ Fairness

-----------------------------------------------------------------------------
(* Every variable has its type. *)
TypeOK ==
  /\ source \in Revision /\ sourceCache \in Revision /\ sourceWatch \in Seq(Revision)
  /\ events \in Seq(Revision \X Revision)
  /\ instance \in [Instances -> Instance] /\ instanceCache \in [Instances -> Instance]
  /\ instanceWatch \in [Instances -> Seq(Instance)]
  /\ queue \subseteq Instances /\ backoff \subseteq Instances /\ timers \subseteq Instances
  /\ Cardinality(Running) <= Workers
  /\ run \in [Instances -> Inputs] /\ attempt \in [Instances -> Inputs]

(* Nothing is under way for i: what wakes it now is a timer or a change. *)
Settled(i) ==
  /\ sourceWatch = <<>> /\ events = <<>> /\ instanceWatch[i] = <<>>
  /\ i \notin queue \cup backoff /\ run[i] = NoRun

(* No change is missed: when everything delivered has been dealt with, the *)
(* last run of an active CueInstance was of the current revision, spec and *)
(* request, without any timer's help.  The handler skips instances by a    *)
(* status that trails; mapping the old object too is what saves it.        *)
NoChangeMissed ==
  \A i \in Instances : Settled(i) /\ ~instance[i].suspend =>
    attempt[i] = [generation |-> instance[i].generation,
                  requested  |-> instance[i].requested, revision |-> source]

(* No active instance is forgotten: a key, a limiter's delay, a timer or a *)
(* run will bring each back, even where events request none.               *)
NeverForgotten ==
  \A i \in Instances :
    instanceCache[i].suspend \/ i \in queue \cup backoff \cup timers \cup Running

(* The last version an informer delivered or will deliver is the server's. *)
WatchesConverge ==
  /\ IF sourceWatch = <<>> THEN sourceCache = source
                          ELSE sourceWatch[Len(sourceWatch)] = source
  /\ \A i \in Instances :
       IF instanceWatch[i] = <<>> THEN instanceCache[i] = instance[i]
                                  ELSE instanceWatch[i][Len(instanceWatch[i])] = instance[i]

(* Every version of i that someone holds. *)
Versions(i) ==
  {instance[i], instanceCache[i]} \cup {instanceWatch[i][k] : k \in 1 .. Len(instanceWatch[i])}

(* A generation has one spec, and the server has the last: a version that  *)
(* resumes i differs in its generation from the one that suspended it.     *)
GenerationsCount ==
  \A i \in Instances : \A v \in Versions(i) :
    /\ 1 <= v.generation /\ v.generation <= instance[i].generation
    /\ \A w \in Versions(i) : v.generation = w.generation => v.suspend = w.suspend

(* What the last run to start acts on, or acted on. *)
Latest(i) == IF run[i] # NoRun THEN run[i] ELSE attempt[i]

(* Nothing will start a run of i but a change or a timer. *)
Resting(i) == i \notin queue \cup backoff /\ ~instanceCache[i].suspend

(* An instance that rests has acted on the spec and the request delivered. *)
EditsHeeded ==
  \A i \in Instances : Resting(i) =>
    /\ Latest(i).generation = instanceCache[i].generation
    /\ Latest(i).requested = instanceCache[i].requested

(* Of an event of two revisions, i has attempted one at most; of the first *)
(* artifact's only the new one can keep i from being requested.            *)
WillRequest(event, i) ==
  /\ event[2] # NoRevision /\ event[1] # event[2]
  /\ event[1] = NoRevision =>
       event[2] = sourceCache /\ \A v \in Versions(i) : v.lastAttempted # sourceCache

(* An instance that rests has acted on the revision delivered, or an event *)
(* that has yet to be handled requests it.                                 *)
RevisionsHeeded ==
  \A i \in Instances : Resting(i) /\ Latest(i).revision # sourceCache =>
    \E k \in 1 .. Len(events) : WillRequest(events[k], i)

(* Before the first artifact nothing was attempted, and it never goes. *)
ArtifactStays ==
  /\ \A k \in 1 .. Len(sourceWatch) : sourceWatch[k] # NoRevision
  /\ sourceCache = NoRevision =>
       \A i \in Instances :
         run[i].revision = NoRevision /\ \A v \in Versions(i) : v.lastAttempted = NoRevision

(* The inductive invariant under NoChangeMissed: whoever has not acted on  *)
(* what was delivered has a key, a run or an event ahead of it.            *)
WatchInv ==
  /\ WatchesConverge /\ GenerationsCount /\ EditsHeeded
  /\ RevisionsHeeded /\ ArtifactStays

(* Whatever the watches miss, the requeues catch up with: once the source  *)
(* settles, an active instance's last run is of its revision for good.     *)
CatchesUp ==
  \A i \in Instances, r \in Revisions :
    /\ <>[](source = r /\ ~instance[i].suspend)
    /\ <>[][~Restart]_vars
    => <>[](attempt[i].revision = r)
=============================================================================
