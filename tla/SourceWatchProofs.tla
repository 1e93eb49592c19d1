-------------------------- MODULE SourceWatchProofs --------------------------
(***************************************************************************)
(* Proofs about SourceWatch: its types and its bound on the workers, that  *)
(* no edit is missed, and, where artifacts stay and no two CueInstances    *)
(* depend on each other in a circle, that no change is.                    *)
(***************************************************************************)
EXTENDS SourceWatch, FiniteSetTheorems, SequenceTheorems, TLAPS

(* Every step is one of these. *)
LEMMA NextCases ==
  ASSUME [Next]_vars, NEW P,
         UNCHANGED vars => P,
         PublishArtifact => P, DeliverSource => P, HandleSource => P, Restart => P,
         \A i \in Instances :
           /\ EditInstance(i) => P
           /\ DeliverInstance(i) => P
           /\ StartSuspended(i) => P
           /\ Start(i) => P
           /\ Finish(i) => P
           /\ Fail(i) => P
           /\ Requeue(i) => P
  PROVE  P
BY DEF Next

-----------------------------------------------------------------------------
(* Type correctness and the bound on the workers.                          *)

(* The bound counts a set that is finite. *)
TypeInv == TypeOK /\ IsFiniteSet(Running)

(* A step that starts no run leaves the workers within their bound. *)
LEMMA FewerRunning ==
  ASSUME TypeInv, Running' \subseteq Running
  PROVE  IsFiniteSet(Running') /\ Cardinality(Running') <= Workers
<1>1. IsFiniteSet(Running') /\ Cardinality(Running') <= Cardinality(Running)
  BY FS_Subset DEF TypeInv
<1>2. Cardinality(Running') \in Nat /\ Cardinality(Running) \in Nat /\ Workers \in Nat
  BY <1>1, FS_CardinalityType, WatchBounds DEF TypeInv
<1>3. QED BY <1>1, <1>2 DEF TypeInv, TypeOK

(* A worker takes a key only while one is free. *)
LEMMA OneMoreRunning ==
  ASSUME TypeInv, NEW i \in Instances, Dequeue(i), Running' \subseteq Running \cup {i}
  PROVE  IsFiniteSet(Running') /\ Cardinality(Running') <= Workers
<1> DEFINE More == Running \cup {i}
<1>1. IsFiniteSet(More) /\ Cardinality(More) <= Cardinality(Running) + 1
  <2>1. IsFiniteSet(Running) /\ i \notin Running
    BY DEF TypeInv, Dequeue
  <2>2. /\ IsFiniteSet(More)
        /\ Cardinality(More) =
             IF i \in Running THEN Cardinality(Running) ELSE Cardinality(Running) + 1
    BY <2>1, FS_AddElement
  <2>3. Cardinality(Running) \in Nat
    BY <2>1, FS_CardinalityType
  <2>4. QED BY <2>1, <2>2, <2>3
<1>2. IsFiniteSet(Running') /\ Cardinality(Running') <= Cardinality(More)
  BY <1>1, FS_Subset
<1>3. Cardinality(Running') \in Nat /\ Cardinality(Running) \in Nat
      /\ Cardinality(More) \in Nat /\ Workers \in Nat
  BY <1>1, <1>2, FS_CardinalityType, WatchBounds DEF TypeInv
<1>4. Cardinality(Running) < Workers
  BY DEF Dequeue
<1>5. QED BY <1>1, <1>2, <1>3, <1>4

LEMMA TypeInit == Init => TypeInv
<1> SUFFICES ASSUME Init PROVE TypeInv
  OBVIOUS
<1>1. NoRun \in Inputs
  BY DEF NoRun, Inputs, Revision
<1>2. [generation |-> 1, requested |-> 0, suspend |-> FALSE, lastAttempted |-> NoRevision]
        \in Instance
  BY DEF Instance, Revision
<1>3. instance \in [Instances -> Instance]
  BY <1>2 DEF Init
<1>4. Running = {}
  BY DEF Init, Running
<1>5. IsFiniteSet(Running) /\ Cardinality(Running) <= Workers
  BY <1>4, FS_EmptySet, WatchBounds
<1>6. QED BY <1>1, <1>3, <1>5 DEF Init, TypeInv, TypeOK

(* A write of a version keeps the types of the server and the informer. *)
LEMMA StoreInstanceType ==
  ASSUME TypeOK, NEW i \in Instances, NEW new \in Instance, StoreInstance(i, new)
  PROVE  /\ instance' \in [Instances -> Instance]
         /\ instanceCache' \in [Instances -> Instance]
         /\ instanceWatch' \in [Instances -> Seq(Instance)]
<1>1. Append(instanceWatch[i], new) \in Seq(Instance)
  BY DEF TypeOK
<1>2. QED BY <1>1 DEF TypeOK, StoreInstance, instances

(* A user bumps the generation, and may then suspend or resume, or leaves  *)
(* both as they are.                                                       *)
LEMMA EditWrites ==
  ASSUME TypeOK, NEW i \in Instances, EditInstance(i)
  PROVE  \E new \in Instance :
           /\ StoreInstance(i, new)
           /\ new.lastAttempted = instance[i].lastAttempted
           /\ \/ new.generation = instance[i].generation + 1
              \/ new.generation = instance[i].generation /\ new.suspend = instance[i].suspend
<1>0. instance[i] \in Instance
  BY DEF TypeOK
<1>1. CASE \E suspend \in BOOLEAN :
             StoreInstance(i, [instance[i] EXCEPT !.generation = @ + 1, !.suspend = suspend])
  <2>1. PICK suspend \in BOOLEAN :
          StoreInstance(i, [instance[i] EXCEPT !.generation = @ + 1, !.suspend = suspend])
    BY <1>1
  <2> DEFINE new == [instance[i] EXCEPT !.generation = @ + 1, !.suspend = suspend]
  <2>2. instance[i].generation + 1 \in Nat
    BY <1>0 DEF Instance
  <2>3. new \in Instance
    BY <1>0, <2>2 DEF Instance
  <2>4. new.lastAttempted = instance[i].lastAttempted
        /\ new.generation = instance[i].generation + 1
    BY <1>0 DEF Instance
  <2> HIDE DEF new
  <2>5. QED BY <2>1, <2>3, <2>4 DEF new
<1>2. CASE StoreInstance(i, [instance[i] EXCEPT !.requested = @ + 1])
  <2> DEFINE new == [instance[i] EXCEPT !.requested = @ + 1]
  <2>1. new \in Instance /\ new.lastAttempted = instance[i].lastAttempted
        /\ new.generation = instance[i].generation /\ new.suspend = instance[i].suspend
    BY <1>0 DEF Instance
  <2>2. QED BY <1>2, <2>1
<1>3. QED BY <1>1, <1>2 DEF EditInstance

(* What the end of a run writes is a version. *)
LEMMA AttemptedType ==
  ASSUME TypeOK, NEW i \in Instances
  PROVE  Attempted(i, run[i].revision) \in Instance
<1>1. run[i] \in Inputs /\ instance[i] \in Instance
  BY DEF TypeOK
<1>2. QED BY <1>1 DEF Attempted, Inputs, Instance

LEMMA TypeNext == TypeInv /\ [Next]_vars => TypeInv'
<1> SUFFICES ASSUME TypeInv, [Next]_vars PROVE TypeInv'
  OBVIOUS
<1>0. TypeOK /\ NoRun \in Inputs
  BY DEF TypeInv, NoRun, Inputs, Revision
<1>1. CASE UNCHANGED vars
  BY <1>1, FewerRunning
     DEF vars, sources, instances, requeues, TypeInv, TypeOK, Running
<1>2. CASE PublishArtifact
  <2>1. source' \in Revision /\ sourceWatch' \in Seq(Revision)
    BY <1>0, <1>2 DEF PublishArtifact, TypeOK, Revision
  <2>2. Running' = Running
    BY <1>2 DEF PublishArtifact, Running
  <2>3. QED BY <1>2, <2>1, <2>2, FewerRunning
            DEF PublishArtifact, instances, requeues, TypeInv, TypeOK
<1>3. CASE DeliverSource
  <2>1. PICK n \in {1, Len(sourceWatch)} :
          /\ sourceCache' = sourceWatch[n]
          /\ sourceWatch' = SubSeq(sourceWatch, n + 1, Len(sourceWatch))
          /\ events' \in Noticed(sourceCache, sourceWatch[n])
    BY <1>3 DEF DeliverSource
  <2>2. n \in 1 .. Len(sourceWatch) /\ sourceWatch \in Seq(Revision)
    BY <1>0, <1>3, EmptySeq DEF DeliverSource, TypeOK
  <2>3. sourceWatch[n] \in Revision /\ sourceWatch' \in Seq(Revision)
    BY <2>1, <2>2
  <2>4. events' \in Seq(Revision \X Revision)
    <3>1. events \in Seq(Revision \X Revision)
          /\ <<sourceCache, sourceWatch[n]>> \in Revision \X Revision
      BY <1>0, <2>3 DEF TypeOK
    <3>2. Append(events, <<sourceCache, sourceWatch[n]>>) \in Seq(Revision \X Revision)
      BY <3>1
    <3>3. QED BY <2>1, <3>1, <3>2 DEF Noticed
  <2>5. Running' = Running
    BY <1>3 DEF DeliverSource, Running
  <2>6. QED BY <1>3, <2>1, <2>3, <2>4, <2>5, FewerRunning
            DEF DeliverSource, instances, requeues, TypeInv, TypeOK
<1>4. CASE HandleSource
  <2>1. events' \in Seq(Revision \X Revision)
    BY <1>0, <1>4 DEF HandleSource, TypeOK
  <2>2. Requests(Head(events)) \subseteq Instances
    BY DEF Requests, RequestsFor
  <2>3. Running' = Running
    BY <1>4 DEF HandleSource, Running
  <2>4. QED BY <1>4, <2>1, <2>2, <2>3, FewerRunning
            DEF HandleSource, instances, requeues, TypeInv, TypeOK
<1>5. CASE Restart
  <2>1. Running' = {}
    BY <1>5 DEF Restart, Running
  <2>2. events' \in Seq(Revision \X Revision)
    BY <1>0, <1>5 DEF Restart, TypeOK, Revision
  <2>3. QED BY <1>0, <1>5, <2>1, <2>2, FewerRunning DEF Restart, TypeInv, TypeOK
<1>6. ASSUME NEW i \in Instances, EditInstance(i) PROVE TypeInv'
  <2>1. PICK new \in Instance : StoreInstance(i, new)
    BY <1>0, <1>6, EditWrites
  <2>2. Running' = Running
    BY <1>6 DEF EditInstance, Running
  <2>3. QED BY <1>0, <1>6, <2>1, <2>2, StoreInstanceType, FewerRunning
            DEF EditInstance, sources, requeues, TypeInv, TypeOK
<1>7. ASSUME NEW i \in Instances, DeliverInstance(i) PROVE TypeInv'
  <2>1. instanceWatch[i] \in Seq(Instance) /\ instanceWatch[i] # <<>>
    BY <1>0, <1>7 DEF DeliverInstance, TypeOK
  <2>2. Head(instanceWatch[i]) \in Instance /\ Tail(instanceWatch[i]) \in Seq(Instance)
    BY <2>1
  <2>3. instanceCache' \in [Instances -> Instance]
        /\ instanceWatch' \in [Instances -> Seq(Instance)]
    BY <1>0, <1>7, <2>2 DEF DeliverInstance, TypeOK
  <2>4. Running' = Running
    BY <1>7 DEF DeliverInstance, Running
  <2>5. QED BY <1>7, <2>3, <2>4, FewerRunning
            DEF DeliverInstance, sources, requeues, TypeInv, TypeOK
<1>8. ASSUME NEW i \in Instances, StartSuspended(i) PROVE TypeInv'
  <2>1. Running' = Running
    BY <1>8 DEF StartSuspended, Running
  <2>2. QED BY <1>8, <2>1, FewerRunning
            DEF StartSuspended, Dequeue, sources, instances, requeues, TypeInv, TypeOK
<1>9. ASSUME NEW i \in Instances, Start(i) PROVE TypeInv'
  <2>1. Running' \subseteq Running \cup {i}
    BY <1>0, <1>9 DEF Start, Running, TypeOK
  <2>2. instanceCache[i] \in Instance
    BY <1>0 DEF TypeOK
  <2>3. run' \in [Instances -> Inputs]
    BY <1>0, <1>9, <2>2 DEF Start, Instance, Inputs, TypeOK
  <2>4. QED BY <1>9, <2>1, <2>3, OneMoreRunning
            DEF Start, Dequeue, sources, instances, requeues, TypeInv, TypeOK
<1>10. ASSUME NEW i \in Instances, Finish(i) PROVE TypeInv'
  <2>1. Running' \subseteq Running
    BY <1>0, <1>10 DEF Finish, Ends, Running, TypeOK
  <2>2. /\ instance' \in [Instances -> Instance] /\ instanceCache' \in [Instances -> Instance]
        /\ instanceWatch' \in [Instances -> Seq(Instance)]
    BY <1>0, <1>10, AttemptedType, StoreInstanceType DEF Finish, Ends
  <2>3. run' \in [Instances -> Inputs] /\ attempt' \in [Instances -> Inputs]
    BY <1>0, <1>10 DEF Finish, Ends, TypeOK
  <2>4. QED BY <1>10, <2>1, <2>2, <2>3, FewerRunning DEF Finish, sources, TypeInv, TypeOK
<1>11. ASSUME NEW i \in Instances, Fail(i) PROVE TypeInv'
  <2>1. Running' \subseteq Running
    BY <1>0, <1>11 DEF Fail, Running, TypeOK
  <2>2. QED BY <1>0, <1>11, <2>1, FewerRunning DEF Fail, sources, instances, TypeInv, TypeOK
<1>12. ASSUME NEW i \in Instances, Requeue(i) PROVE TypeInv'
  <2>1. Running' = Running
    BY <1>12 DEF Requeue, Running
  <2>2. QED BY <1>12, <2>1, FewerRunning DEF Requeue, sources, instances, TypeInv, TypeOK
<1>13. QED
  BY <1>1, <1>2, <1>3, <1>4, <1>5, <1>6, <1>7, <1>8, <1>9, <1>10, <1>11, <1>12, NextCases

THEOREM TypeInvariance == Spec => []TypeInv
BY TypeInit, TypeNext, PTL DEF Spec

(* Every variable keeps its type, and no more runs are under way than      *)
(* MaxConcurrentReconciles allows.                                         *)
THEOREM TypeCorrect == Spec => []TypeOK
<1>1. TypeInv => TypeOK
  BY DEF TypeInv
<1>2. QED BY <1>1, TypeInvariance, PTL

-----------------------------------------------------------------------------
(* How a step moves the versions of an instance.                           *)

(* A version the server may get next: of a new generation, or of the same  *)
(* spec; what it says was attempted is what it said, or what a run read.   *)
Follows(j, new) ==
  /\ new \in Instance
  /\ \/ new.generation = instance[j].generation + 1
     \/ new.generation = instance[j].generation /\ new.suspend = instance[j].suspend
  /\ \/ new.lastAttempted = instance[j].lastAttempted
     \/ run[j] # NoRun /\ new.lastAttempted = run[j].revision /\ run[j].revision # NoRevision

Kept(j) ==
  /\ instance'[j] = instance[j] /\ instanceWatch'[j] = instanceWatch[j]
  /\ instanceCache'[j] = instanceCache[j]

Written(j, new) ==
  /\ instance'[j] = new /\ instanceWatch'[j] = Append(instanceWatch[j], new)
  /\ instanceCache'[j] = instanceCache[j]

Delivered(j) ==
  /\ instanceWatch[j] # <<>> /\ instance'[j] = instance[j]
  /\ instanceCache'[j] = Head(instanceWatch[j]) /\ instanceWatch'[j] = Tail(instanceWatch[j])

Listed(j) ==
  instance'[j] = instance[j] /\ instanceWatch'[j] = <<>> /\ instanceCache'[j] = instance[j]

InstanceStep(j) ==
  \/ Kept(j) \/ Delivered(j) \/ Listed(j)
  \/ \E new \in Instance : Follows(j, new) /\ Written(j, new)

(* A write of a version that follows moves its instance, and no other. *)
LEMMA StoreMoves ==
  ASSUME TypeOK, NEW i \in Instances, NEW j \in Instances,
         NEW new \in Instance, StoreInstance(i, new), Follows(i, new)
  PROVE  InstanceStep(j)
<1>1. CASE UNCHANGED instances \/ j # i
  BY <1>1 DEF StoreInstance, instances, TypeOK, InstanceStep, Kept
<1>2. CASE ~(UNCHANGED instances) /\ j = i
  <2>1. Written(j, new)
    BY <1>2 DEF StoreInstance, TypeOK, Written
  <2>2. QED BY <1>2, <2>1 DEF InstanceStep
<1>3. QED BY <1>1, <1>2

(* The end of a run writes a version that follows. *)
LEMMA AttemptedFollows ==
  ASSUME TypeOK, NEW i \in Instances, run[i] # NoRun
  PROVE  Follows(i, Attempted(i, run[i].revision))
<1>1. run[i] \in Inputs /\ instance[i] \in Instance
  BY DEF TypeOK
<1>2. Attempted(i, run[i].revision) \in Instance
  BY AttemptedType
<1>3. QED BY <1>1, <1>2 DEF Attempted, Follows, Inputs, Instance

LEMMA InstanceMoves ==
  ASSUME TypeOK, [Next]_vars, NEW j \in Instances PROVE InstanceStep(j)
<1>1. CASE UNCHANGED instances
  BY <1>1 DEF instances, InstanceStep, Kept
<1>2. ASSUME NEW i \in Instances, EditInstance(i) PROVE InstanceStep(j)
  <2>1. PICK new \in Instance :
           /\ StoreInstance(i, new)
           /\ new.lastAttempted = instance[i].lastAttempted
           /\ \/ new.generation = instance[i].generation + 1
              \/ new.generation = instance[i].generation /\ new.suspend = instance[i].suspend
    BY <1>2, EditWrites
  <2>2. QED BY <2>1, StoreMoves DEF Follows
<1>3. ASSUME NEW i \in Instances, DeliverInstance(i) PROVE InstanceStep(j)
  BY <1>3 DEF DeliverInstance, TypeOK, InstanceStep, Kept, Delivered
<1>4. ASSUME NEW i \in Instances, Finish(i) PROVE InstanceStep(j)
  BY <1>4, AttemptedType, AttemptedFollows, StoreMoves DEF Finish, Ends
<1>5. CASE Restart
  BY <1>5 DEF Restart, InstanceStep, Listed
<1>6. ASSUME NEW i \in Instances,
             StartSuspended(i) \/ Start(i) \/ Fail(i) \/ Requeue(i)
      PROVE  UNCHANGED instances
  BY <1>6 DEF StartSuspended, Start, Fail, Requeue
<1>7. PublishArtifact \/ DeliverSource \/ HandleSource \/ UNCHANGED vars => UNCHANGED instances
  BY DEF PublishArtifact, DeliverSource, HandleSource, vars
<1>8. QED
  BY <1>1, <1>2, <1>3, <1>4, <1>5, <1>6, <1>7, NextCases

(* Only a write makes a version that no one held. *)
LEMMA VersionsMove ==
  ASSUME TypeOK, NEW j \in Instances, InstanceStep(j)
  PROVE  /\ Versions(j)' \subseteq Versions(j) \cup {instance'[j]}
         /\ Follows(j, instance'[j]) \/ Versions(j)' \subseteq Versions(j)
<1>0. instanceWatch[j] \in Seq(Instance)
  BY DEF TypeOK
<1>1. CASE Kept(j)
  BY <1>1 DEF Kept, Versions
<1>2. CASE Delivered(j)
  <2>1. /\ Len(instanceWatch[j]) \in Nat \ {0}
        /\ Head(instanceWatch[j]) = instanceWatch[j][1]
        /\ Len(Tail(instanceWatch[j])) = Len(instanceWatch[j]) - 1
        /\ \A k \in 1 .. Len(Tail(instanceWatch[j])) :
             Tail(instanceWatch[j])[k] = instanceWatch[j][k + 1]
    BY <1>0, <1>2 DEF Delivered
  <2>2. QED BY <1>2, <2>1 DEF Delivered, Versions
<1>3. CASE Listed(j)
  BY <1>3 DEF Listed, Versions
<1>4. CASE \E new \in Instance : Follows(j, new) /\ Written(j, new)
  <2>1. PICK new \in Instance : Follows(j, new) /\ Written(j, new)
    BY <1>4
  <2>2. /\ Len(Append(instanceWatch[j], new)) = Len(instanceWatch[j]) + 1
        /\ \A k \in 1 .. Len(instanceWatch[j]) + 1 :
             Append(instanceWatch[j], new)[k] =
               IF k <= Len(instanceWatch[j]) THEN instanceWatch[j][k] ELSE new
        /\ Len(instanceWatch[j]) \in Nat
    BY <1>0
  <2>3. QED BY <2>1, <2>2 DEF Written, Versions
<1>5. QED BY <1>1, <1>2, <1>3, <1>4 DEF InstanceStep

(* What is held of an instance is a version of it. *)
LEMMA VersionsType ==
  ASSUME TypeOK, NEW j \in Instances
  PROVE  Versions(j) \subseteq Instance
BY DEF TypeOK, Versions

-----------------------------------------------------------------------------
(* The parts of the inductive invariant that hold whatever the constants.  *)

LEMMA GenerationsKept ==
  ASSUME TypeOK, TypeOK', GenerationsCount, [Next]_vars PROVE GenerationsCount'
<1> SUFFICES ASSUME NEW j \in Instances
             PROVE  \A v \in Versions(j)' :
                      /\ 1 <= v.generation /\ v.generation <= instance'[j].generation
                      /\ \A w \in Versions(j)' :
                           v.generation = w.generation => v.suspend = w.suspend
  BY DEF GenerationsCount
<1>0. InstanceStep(j) /\ instance[j] \in Instance /\ instance[j] \in Versions(j)
      /\ Versions(j) \subseteq Instance
  BY InstanceMoves, VersionsType DEF TypeOK, Versions
<1>1. \A v \in Versions(j) :
        /\ 1 <= v.generation /\ v.generation <= instance[j].generation
        /\ \A w \in Versions(j) : v.generation = w.generation => v.suspend = w.suspend
  BY DEF GenerationsCount
<1>2. CASE Kept(j) \/ Delivered(j) \/ Listed(j)
  <2>1. instance'[j] = instance[j]
    BY <1>2 DEF Kept, Delivered, Listed
  <2>2. Versions(j)' \subseteq Versions(j)
    BY <1>0, <2>1, VersionsMove
  <2>3. QED BY <1>1, <2>1, <2>2
<1>3. CASE \E new \in Instance : Follows(j, new) /\ Written(j, new)
  <2>1. PICK new \in Instance : Follows(j, new) /\ instance'[j] = new
    BY <1>3 DEF Written
  <2>2. Versions(j)' \subseteq Versions(j) \cup {new}
    BY <1>0, <2>1, VersionsMove
  <2>3. \/ new.generation = instance[j].generation + 1
        \/ new.generation = instance[j].generation /\ new.suspend = instance[j].suspend
    BY <2>1 DEF Follows
  <2>4. new.generation \in Nat /\ \A v \in Versions(j) : v.generation \in Nat
    BY <1>0 DEF Instance
  <2>5. QED BY <1>0, <1>1, <2>1, <2>2, <2>3, <2>4
<1>4. QED BY <1>0, <1>2, <1>3 DEF InstanceStep

(* Only a new generation resumes, and it is noticed. *)
LEMMA DeliveryHeeds ==
  ASSUME TypeOK, GenerationsCount, NEW j \in Instances, DeliverInstance(j), j \notin queue'
  PROVE  /\ instanceCache'[j].generation = instanceCache[j].generation
         /\ instanceCache'[j].requested = instanceCache[j].requested
         /\ instanceCache'[j].suspend = instanceCache[j].suspend
         /\ UNCHANGED queue
<1> DEFINE new == Head(instanceWatch[j])
<1>1. instanceWatch[j] \in Seq(Instance) /\ instanceWatch[j] # <<>>
  BY DEF TypeOK, DeliverInstance
<1>2. new = instanceWatch[j][1] /\ 1 \in 1 .. Len(instanceWatch[j])
  BY <1>1
<1>3. new \in Versions(j) /\ instanceCache[j] \in Versions(j)
  BY <1>2 DEF Versions
<1>4. instanceCache'[j] = new
  BY DEF DeliverInstance, TypeOK
<1>5. ~RunWanted(instanceCache[j], new) /\ UNCHANGED queue
  BY DEF DeliverInstance
<1>6. QED BY <1>3, <1>4, <1>5 DEF RunWanted, GenerationsCount

(* A run that starts reads the copies as they are. *)
LEMMA StartReads ==
  ASSUME TypeOK, GenerationsCount, NEW j \in Instances, Start(j)
  PROVE  /\ Latest(j)'.generation = instanceCache[j].generation
         /\ Latest(j)'.requested = instanceCache[j].requested
         /\ Latest(j)'.revision = sourceCache
<1>1. instanceCache[j] \in Versions(j)
  BY DEF Versions
<1>2. 1 <= instanceCache[j].generation
  BY <1>1 DEF GenerationsCount
<1>3. run'[j] = [generation |-> instanceCache[j].generation,
                 requested |-> instanceCache[j].requested, revision |-> sourceCache]
  BY DEF Start, TypeOK
<1>4. run'[j] # NoRun
  BY <1>2, <1>3 DEF NoRun
<1>5. QED BY <1>3, <1>4 DEF Latest

(* How an instance can be at rest after a step: a run of it has just read  *)
(* the copies, or it rested before and nothing of it was changed but what  *)
(* its status says was attempted.                                          *)
LEMMA RestMoves ==
  ASSUME TypeOK, GenerationsCount, [Next]_vars, NEW j \in Instances, Resting(j)'
  PROVE  \/ Start(j)
         \/ /\ Resting(j) /\ Latest(j)' = Latest(j)
            /\ instanceCache'[j].generation = instanceCache[j].generation
            /\ instanceCache'[j].requested = instanceCache[j].requested
<1> DEFINE Rested == /\ Resting(j) /\ Latest(j)' = Latest(j)
                     /\ instanceCache'[j].generation = instanceCache[j].generation
                     /\ instanceCache'[j].requested = instanceCache[j].requested
<1>1. ASSUME UNCHANGED <<instanceCache[j], run[j], attempt[j]>>,
             queue \subseteq queue', backoff \subseteq backoff'
      PROVE  Rested
  BY <1>1 DEF Resting, Latest
<1> HIDE DEF Rested
<1>2. UNCHANGED vars \/ PublishArtifact \/ DeliverSource \/ HandleSource => Rested
  BY <1>1 DEF vars, sources, instances, requeues, PublishArtifact, DeliverSource, HandleSource,
              Rested
<1>3. ~Restart
  BY DEF Restart, Resting
<1>4. ASSUME NEW i \in Instances, EditInstance(i) PROVE Rested
  BY <1>1, <1>4 DEF EditInstance, StoreInstance, sources, instances, requeues, Rested
<1>5. ASSUME NEW i \in Instances, DeliverInstance(i) PROVE Rested
  <2>1. CASE i = j
    BY <1>5, <2>1, DeliveryHeeds DEF Rested, Resting, Latest, DeliverInstance, requeues
  <2>2. CASE i # j
    BY <1>1, <1>5, <2>2 DEF DeliverInstance, TypeOK, requeues, Rested
  <2>3. QED BY <2>1, <2>2
<1>6. ASSUME NEW i \in Instances, StartSuspended(i) PROVE Rested
  <2>1. i # j
    BY <1>6 DEF StartSuspended, Resting, instances
  <2>2. j \notin queue \cup backoff
    BY <1>6, <2>1 DEF StartSuspended, Dequeue, Resting, requeues
  <2>3. QED BY <1>6, <2>2 DEF StartSuspended, Resting, Latest, instances, Rested
<1>7. ASSUME NEW i \in Instances, Start(i), i # j PROVE Rested
  <2>1. j \notin queue \cup backoff
    BY <1>7 DEF Start, Dequeue, Resting, requeues
  <2>2. run'[j] = run[j]
    BY <1>7 DEF Start, TypeOK
  <2>3. QED BY <1>7, <2>1, <2>2 DEF Start, Resting, Latest, instances, Rested
<1>8. ASSUME NEW i \in Instances, Finish(i) PROVE Rested
  <2>1. Latest(j)' = Latest(j)
    BY <1>8 DEF Finish, Ends, Latest, TypeOK
  <2>2. UNCHANGED <<instanceCache, queue, backoff>>
    BY <1>8 DEF Finish, Ends, StoreInstance, instances
  <2>3. QED BY <2>1, <2>2 DEF Resting, Rested
<1>9. ASSUME NEW i \in Instances, Fail(i) PROVE Rested
  <2>1. i # j
    BY <1>9 DEF Fail, Resting
  <2>2. run'[j] = run[j]
    BY <1>9, <2>1 DEF Fail, TypeOK
  <2>3. QED BY <1>1, <1>9, <2>2 DEF Fail, instances, Rested
<1>10. ASSUME NEW i \in Instances, Requeue(i) PROVE Rested
  <2>1. i # j
    BY <1>10 DEF Requeue, Resting
  <2>2. j \notin queue \cup backoff
    BY <1>10, <2>1 DEF Requeue, Resting
  <2>3. QED BY <1>10, <2>2 DEF Requeue, Resting, Latest, instances, Rested
<1>11. Start(j) \/ Rested
  BY <1>2, <1>3, <1>4, <1>5, <1>6, <1>7, <1>8, <1>9, <1>10, NextCases
<1>12. QED BY <1>11 DEF Rested

LEMMA EditsKept ==
  ASSUME TypeOK, GenerationsCount, EditsHeeded, [Next]_vars PROVE EditsHeeded'
<1> SUFFICES ASSUME NEW j \in Instances, Resting(j)'
             PROVE  /\ Latest(j)'.generation = instanceCache'[j].generation
                    /\ Latest(j)'.requested = instanceCache'[j].requested
  BY DEF EditsHeeded
<1>1. CASE Start(j)
  BY <1>1, StartReads DEF Start, instances
<1>2. CASE ~Start(j)
  BY <1>2, RestMoves DEF EditsHeeded
<1>3. QED BY <1>1, <1>2

LEMMA NeverForgottenKept ==
  ASSUME TypeOK, GenerationsCount, NeverForgotten, [Next]_vars PROVE NeverForgotten'
<1> SUFFICES ASSUME NEW j \in Instances, ~instanceCache'[j].suspend
             PROVE  j \in queue' \cup backoff' \cup timers' \cup Running'
  BY DEF NeverForgotten
<1> DEFINE Awaited == j \in queue' \cup backoff' \cup timers' \cup Running'
<1>1. ASSUME ~instanceCache[j].suspend, run'[j] = run[j], queue \subseteq queue',
             backoff \subseteq backoff', timers \subseteq timers'
      PROVE  Awaited
  BY <1>1 DEF NeverForgotten, Running
<1> HIDE DEF Awaited
<1>2. UNCHANGED vars \/ PublishArtifact \/ DeliverSource \/ HandleSource => Awaited
  BY <1>1 DEF vars, sources, instances, requeues, PublishArtifact, DeliverSource, HandleSource
<1>3. Restart => Awaited
  BY DEF Restart, Awaited
<1>4. ASSUME NEW i \in Instances, EditInstance(i) PROVE Awaited
  BY <1>1, <1>4 DEF EditInstance, StoreInstance, instances, requeues
<1>5. ASSUME NEW i \in Instances, DeliverInstance(i) PROVE Awaited
  <2>1. CASE i = j /\ j \in queue'
    BY <2>1 DEF Awaited
  <2>2. CASE i = j /\ j \notin queue'
    BY <1>1, <1>5, <2>2, DeliveryHeeds DEF DeliverInstance, requeues
  <2>3. CASE i # j
    BY <1>1, <1>5, <2>3 DEF DeliverInstance, TypeOK, requeues
  <2>4. QED BY <2>1, <2>2, <2>3
<1>6. ASSUME NEW i \in Instances, StartSuspended(i) PROVE Awaited
  <2>1. i # j
    BY <1>6 DEF StartSuspended, instances
  <2>2. QED BY <1>6, <2>1
            DEF StartSuspended, Dequeue, instances, requeues, NeverForgotten, Running, Awaited
<1>7. ASSUME NEW i \in Instances, Start(i) PROVE Awaited
  <2>1. CASE i = j
    <3>1. instanceCache[j] \in Versions(j)
      BY DEF Versions
    <3>2. 1 <= instanceCache[j].generation
      BY <3>1 DEF GenerationsCount
    <3>3. run'[j] # NoRun
      BY <1>7, <2>1, <3>2 DEF Start, TypeOK, NoRun
    <3>4. QED BY <3>3 DEF Running, Awaited
  <2>2. CASE i # j
    <3>1. run'[j] = run[j]
      BY <1>7, <2>2 DEF Start, TypeOK
    <3>2. QED BY <1>7, <2>2, <3>1
              DEF Start, Dequeue, instances, requeues, NeverForgotten, Running, Awaited
  <2>3. QED BY <2>1, <2>2
<1>8. ASSUME NEW i \in Instances, Finish(i) PROVE Awaited
  <2>1. CASE i = j
    BY <1>8, <2>1 DEF Finish, Awaited
  <2>2. CASE i # j
    <3>1. run'[j] = run[j] /\ UNCHANGED instanceCache
      BY <1>8, <2>2 DEF Finish, Ends, StoreInstance, instances, TypeOK
    <3>2. QED BY <1>1, <1>8, <3>1 DEF Finish
  <2>3. QED BY <2>1, <2>2
<1>9. ASSUME NEW i \in Instances, Fail(i) PROVE Awaited
  <2>1. CASE i = j
    BY <1>9, <2>1 DEF Fail, Awaited
  <2>2. CASE i # j
    BY <1>1, <1>9, <2>2 DEF Fail, instances, TypeOK
  <2>3. QED BY <2>1, <2>2
<1>10. ASSUME NEW i \in Instances, Requeue(i) PROVE Awaited
  BY <1>10 DEF Requeue, instances, NeverForgotten, Running, Awaited
<1>11. QED
  BY <1>2, <1>3, <1>4, <1>5, <1>6, <1>7, <1>8, <1>9, <1>10, NextCases DEF Awaited

(* The source's informer delivers what was published, in order or the last *)
(* of it.                                                                  *)
LEMMA DeliverSourceMoves ==
  ASSUME TypeOK, DeliverSource
  PROVE  \E n \in 1 .. Len(sourceWatch) :
           /\ sourceCache' = sourceWatch[n]
           /\ Len(sourceWatch') = Len(sourceWatch) - n
           /\ \A k \in 1 .. Len(sourceWatch') : sourceWatch'[k] = sourceWatch[n + k]
           /\ events' \in Noticed(sourceCache, sourceCache')
<1>1. PICK n \in {1, Len(sourceWatch)} :
        /\ sourceCache' = sourceWatch[n]
        /\ sourceWatch' = SubSeq(sourceWatch, n + 1, Len(sourceWatch))
        /\ events' \in Noticed(sourceCache, sourceWatch[n])
  BY DEF DeliverSource
<1>2. n \in 1 .. Len(sourceWatch) /\ sourceWatch \in Seq(Revision) /\ n \in Nat
  BY EmptySeq DEF DeliverSource, TypeOK
<1>3. Len(sourceWatch') = Len(sourceWatch) - n
      /\ \A k \in 1 .. Len(sourceWatch') : sourceWatch'[k] = sourceWatch[n + k]
  BY <1>1, <1>2
<1>4. QED BY <1>1, <1>2, <1>3

LEMMA ConvergenceKept ==
  ASSUME TypeOK, TypeOK', WatchesConverge, [Next]_vars PROVE WatchesConverge'
<1>1. IF sourceWatch' = <<>> THEN sourceCache' = source'
                             ELSE sourceWatch'[Len(sourceWatch')] = source'
  <2> DEFINE Last == IF sourceWatch' = <<>> THEN sourceCache' = source'
                                            ELSE sourceWatch'[Len(sourceWatch')] = source'
  <2>1. CASE UNCHANGED <<source, sourceWatch, sourceCache>>
    BY <2>1 DEF WatchesConverge
  <2>2. CASE PublishArtifact
    <3>1. sourceWatch' = Append(sourceWatch, source') /\ sourceWatch \in Seq(Revision)
          /\ source' \in Revision
      BY <2>2 DEF PublishArtifact, TypeOK
    <3>2. sourceWatch' # <<>> /\ sourceWatch'[Len(sourceWatch')] = source'
      BY <3>1
    <3>3. QED BY <3>2
  <2>3. CASE DeliverSource
    <3>1. PICK n \in 1 .. Len(sourceWatch) :
           /\ sourceCache' = sourceWatch[n]
           /\ Len(sourceWatch') = Len(sourceWatch) - n
           /\ \A k \in 1 .. Len(sourceWatch') : sourceWatch'[k] = sourceWatch[n + k]
      BY <2>3, DeliverSourceMoves
    <3>2. sourceWatch[Len(sourceWatch)] = source' /\ Len(sourceWatch) \in Nat
          /\ sourceWatch' \in Seq(Revision)
      BY <2>3 DEF DeliverSource, WatchesConverge, TypeOK
    <3>3. sourceWatch' = <<>> <=> Len(sourceWatch') = 0
      BY <3>2, EmptySeq
    <3>4. CASE sourceWatch' = <<>>
      <4>1. n = Len(sourceWatch)
        BY <3>1, <3>2, <3>3, <3>4
      <4>2. QED BY <3>1, <3>2, <3>4, <4>1
    <3>5. CASE sourceWatch' # <<>>
      <4>1. Len(sourceWatch') \in 1 .. Len(sourceWatch')
            /\ n + Len(sourceWatch') = Len(sourceWatch)
        BY <3>1, <3>2, <3>3, <3>5
      <4>2. QED BY <3>1, <3>2, <3>5, <4>1
    <3>6. QED BY <3>4, <3>5
  <2>4. CASE Restart
    BY <2>4 DEF Restart
  <2> HIDE DEF Last
  <2>5. HandleSource \/ UNCHANGED vars => Last
    BY <2>1 DEF HandleSource, vars, sources, Last
  <2>6. ASSUME NEW i \in Instances,
               \/ EditInstance(i) \/ DeliverInstance(i) \/ StartSuspended(i) \/ Start(i)
               \/ Finish(i) \/ Fail(i) \/ Requeue(i)
        PROVE  Last
    BY <2>1, <2>6 DEF EditInstance, DeliverInstance, StartSuspended, Start, Finish, Fail,
                      Requeue, sources, Last
  <2>7. QED BY <2>2, <2>3, <2>4, <2>5, <2>6, NextCases DEF Last
<1>2. ASSUME NEW j \in Instances
      PROVE  IF instanceWatch'[j] = <<>>
               THEN instanceCache'[j] = instance'[j]
               ELSE instanceWatch'[j][Len(instanceWatch'[j])] = instance'[j]
  <2>0. InstanceStep(j) /\ instanceWatch[j] \in Seq(Instance)
    BY InstanceMoves DEF TypeOK
  <2>1. CASE Kept(j) \/ Listed(j)
    BY <2>1 DEF Kept, Listed, WatchesConverge
  <2>2. CASE Delivered(j)
    <3>1. instanceWatch[j][Len(instanceWatch[j])] = instance'[j]
      BY <2>2 DEF Delivered, WatchesConverge
    <3>2. /\ Head(instanceWatch[j]) = instanceWatch[j][1]
          /\ Len(Tail(instanceWatch[j])) = Len(instanceWatch[j]) - 1
          /\ \A k \in 1 .. Len(Tail(instanceWatch[j])) :
               Tail(instanceWatch[j])[k] = instanceWatch[j][k + 1]
          /\ Tail(instanceWatch[j]) \in Seq(Instance)
          /\ Len(instanceWatch[j]) \in Nat \ {0}
      BY <2>0, <2>2 DEF Delivered
    <3>3. Tail(instanceWatch[j]) = <<>> <=> Len(Tail(instanceWatch[j])) = 0
      BY <3>2, EmptySeq
    <3>4. QED BY <2>2, <3>1, <3>2, <3>3 DEF Delivered
  <2>3. CASE \E new \in Instance : Written(j, new)
    BY <2>0, <2>3 DEF Written
  <2>4. QED BY <2>0, <2>1, <2>2, <2>3 DEF InstanceStep
<1>3. QED BY <1>1, <1>2 DEF WatchesConverge

(* What a version newly says was attempted, a run under way has read. *)
LEMMA AttemptsMove ==
  ASSUME TypeOK, [Next]_vars, NEW j \in Instances, NEW v \in Versions(j)'
  PROVE  \/ \E w \in Versions(j) : v.lastAttempted = w.lastAttempted
         \/ /\ run[j] # NoRun /\ run[j].revision # NoRevision
            /\ v.lastAttempted = run[j].revision
<1>1. InstanceStep(j) /\ instance[j] \in Versions(j)
  BY InstanceMoves DEF Versions
<1>2. v \in Versions(j) \/ (v = instance'[j] /\ Follows(j, instance'[j]))
  BY <1>1, VersionsMove
<1>3. QED BY <1>1, <1>2 DEF Follows

-----------------------------------------------------------------------------
(* The parts that need artifacts to stay and dependencies to be sortable.  *)

(* No two CueInstances or more depend on each other in a circle. *)
NoCircles == \A S \in SUBSET Instances : InCircle(S) = {}

LEMMA ArtifactKept ==
  ASSUME ~ArtifactVanishes, TypeOK, WatchesConverge, ArtifactStays, [Next]_vars
  PROVE  ArtifactStays'
<1>1. ASSUME NEW k \in 1 .. Len(sourceWatch') PROVE sourceWatch'[k] # NoRevision
  <2> DEFINE P == sourceWatch'[k] # NoRevision
  <2>1. ASSUME UNCHANGED sourceWatch PROVE P
    BY <1>1, <2>1 DEF ArtifactStays
  <2>2. CASE PublishArtifact
    <3>1. PICK r \in Revisions : sourceWatch' = Append(sourceWatch, r)
      BY <2>2 DEF PublishArtifact
    <3>2. sourceWatch \in Seq(Revision) /\ r # NoRevision
      BY RevisionsAssumption DEF TypeOK
    <3>3. /\ Len(Append(sourceWatch, r)) = Len(sourceWatch) + 1
          /\ Len(sourceWatch) \in Nat
          /\ \A m \in 1 .. Len(sourceWatch) + 1 :
               Append(sourceWatch, r)[m] = IF m <= Len(sourceWatch) THEN sourceWatch[m] ELSE r
      BY <3>2
    <3>4. QED BY <1>1, <3>1, <3>2, <3>3 DEF ArtifactStays
  <2>3. CASE DeliverSource
    <3>1. PICK n \in 1 .. Len(sourceWatch) :
           /\ Len(sourceWatch') = Len(sourceWatch) - n
           /\ \A m \in 1 .. Len(sourceWatch') : sourceWatch'[m] = sourceWatch[n + m]
      BY <2>3, DeliverSourceMoves
    <3>2. Len(sourceWatch) \in Nat
      BY DEF TypeOK
    <3>3. n + k \in 1 .. Len(sourceWatch) /\ sourceWatch'[k] = sourceWatch[n + k]
      BY <1>1, <3>1, <3>2
    <3>4. QED BY <3>3 DEF ArtifactStays
  <2>4. CASE Restart
    BY <1>1, <2>4 DEF Restart
  <2> HIDE DEF P
  <2>5. HandleSource \/ UNCHANGED vars => P
    BY <2>1 DEF HandleSource, vars, sources
  <2>6. ASSUME NEW i \in Instances,
               \/ EditInstance(i) \/ DeliverInstance(i) \/ StartSuspended(i) \/ Start(i)
               \/ Finish(i) \/ Fail(i) \/ Requeue(i)
        PROVE  P
    BY <2>1, <2>6 DEF EditInstance, DeliverInstance, StartSuspended, Start, Finish, Fail,
                      Requeue, sources
  <2>7. QED BY <2>2, <2>3, <2>4, <2>5, <2>6, NextCases DEF P
<1>2. ASSUME sourceCache' = NoRevision PROVE sourceCache = NoRevision
  <2> DEFINE P == sourceCache = NoRevision
  <2>1. ASSUME UNCHANGED sourceCache PROVE P
    BY <1>2, <2>1
  <2>2. ~DeliverSource
    BY <1>2, DeliverSourceMoves DEF ArtifactStays
  <2>3. CASE Restart
    <3>1. source = NoRevision
      BY <1>2, <2>3 DEF Restart
    <3>2. sourceWatch \in Seq(Revision)
      BY DEF TypeOK
    <3>3. sourceWatch # <<>> => Len(sourceWatch) \in 1 .. Len(sourceWatch)
      BY <3>2, EmptySeq
    <3>4. QED BY <3>1, <3>3 DEF WatchesConverge, ArtifactStays
  <2> HIDE DEF P
  <2>4. PublishArtifact \/ HandleSource \/ UNCHANGED vars => P
    BY <2>1 DEF PublishArtifact, HandleSource, vars, sources
  <2>5. ASSUME NEW i \in Instances,
               \/ EditInstance(i) \/ DeliverInstance(i) \/ StartSuspended(i) \/ Start(i)
               \/ Finish(i) \/ Fail(i) \/ Requeue(i)
        PROVE  P
    BY <2>1, <2>5 DEF EditInstance, DeliverInstance, StartSuspended, Start, Finish, Fail,
                      Requeue, sources
  <2>6. QED BY <2>2, <2>3, <2>4, <2>5, NextCases DEF P
<1>3. ASSUME sourceCache = NoRevision, NEW j \in Instances
      PROVE  run'[j].revision = NoRevision
  <2> DEFINE P == run'[j].revision = NoRevision
  <2>0. run[j].revision = NoRevision /\ NoRun.revision = NoRevision
    BY <1>3 DEF ArtifactStays, NoRun
  <2>1. ASSUME run'[j] = run[j] PROVE P
    BY <2>0, <2>1
  <2>2. CASE Restart
    BY <2>0, <2>2 DEF Restart
  <2>3. ASSUME NEW i \in Instances, Start(i) PROVE P
    BY <1>3, <2>0, <2>3 DEF Start, TypeOK
  <2>4. ASSUME NEW i \in Instances, Finish(i) \/ Fail(i) PROVE P
    BY <2>0, <2>4 DEF Finish, Ends, Fail, TypeOK
  <2> HIDE DEF P
  <2>5. PublishArtifact \/ DeliverSource \/ HandleSource \/ UNCHANGED vars => P
    BY <2>1 DEF PublishArtifact, DeliverSource, HandleSource, vars
  <2>6. ASSUME NEW i \in Instances,
               EditInstance(i) \/ DeliverInstance(i) \/ StartSuspended(i) \/ Requeue(i)
        PROVE  P
    BY <2>1, <2>6 DEF EditInstance, DeliverInstance, StartSuspended, Requeue
  <2>7. QED BY <2>2, <2>3, <2>4, <2>5, <2>6, NextCases DEF P
<1>4. ASSUME sourceCache = NoRevision, NEW j \in Instances, NEW v \in Versions(j)'
      PROVE  v.lastAttempted = NoRevision
  BY <1>4, AttemptsMove DEF ArtifactStays
<1>5. QED BY <1>1, <1>2, <1>3, <1>4 DEF ArtifactStays

(* An event that will request an instance does, when it is handled. *)
LEMMA Requested ==
  ASSUME NoCircles, TypeOK, NEW j \in Instances, NEW event \in Revision \X Revision,
         WillRequest(event, j)
  PROVE  j \in Requests(event)
<1>1. \A r \in Revision \ {NoRevision} :
        instanceCache[j].lastAttempted # r => j \in RequestsFor(r)
  BY DEF RequestsFor, NoCircles
<1>2. instanceCache[j] \in Versions(j)
  BY DEF Versions
<1>3. event[1] \in Revision /\ event[2] \in Revision
  OBVIOUS
<1>4. CASE event[1] = NoRevision
  BY <1>1, <1>2, <1>3, <1>4 DEF WillRequest, Requests
<1>5. CASE event[1] # NoRevision
  BY <1>1, <1>3, <1>5 DEF WillRequest, Requests
<1>6. QED BY <1>4, <1>5

(* A delivery that changes the copy appends an event that requests those   *)
(* at rest; one that does not change it leaves the events alone.           *)
LEMMA DeliveryRequests ==
  ASSUME TypeOK, ArtifactStays, DeliverSource, NEW j \in Instances
  PROVE  \/ UNCHANGED <<sourceCache, events>>
         \/ \E k \in 1 .. Len(events') : WillRequest(events[k], j)'
<1>1. PICK n \in 1 .. Len(sourceWatch) :
        sourceCache' = sourceWatch[n] /\ events' \in Noticed(sourceCache, sourceCache')
  BY DeliverSourceMoves
<1>2. sourceCache' # NoRevision
  BY <1>1 DEF ArtifactStays
<1>3. CASE sourceCache' = sourceCache
  BY <1>1, <1>3 DEF Noticed, RevisionChanged
<1>4. CASE sourceCache' # sourceCache
  <2> DEFINE event == <<sourceCache, sourceCache'>>
  <2>1. events' = Append(events, event) /\ events \in Seq(Revision \X Revision)
    BY <1>1, <1>2, <1>4 DEF Noticed, RevisionChanged, TypeOK
  <2>2. Len(events') \in 1 .. Len(events') /\ events'[Len(events')] = event
    BY <2>1
  <2>3. Versions(j)' = Versions(j)
    BY DEF DeliverSource, instances, Versions
  <2>4. sourceCache = NoRevision => \A v \in Versions(j)' : v.lastAttempted # sourceCache'
    BY <1>2, <2>3 DEF ArtifactStays
  <2>5. event[1] = sourceCache /\ event[2] = sourceCache'
    OBVIOUS
  <2> HIDE DEF event
  <2>6. WillRequest(events[Len(events)], j)'
    BY <1>2, <1>4, <2>2, <2>4, <2>5 DEF WillRequest
  <2>7. QED BY <2>2, <2>6
<1>5. QED BY <1>3, <1>4

LEMMA RevisionsKept ==
  ASSUME NoCircles, TypeOK, GenerationsCount, ArtifactStays, RevisionsHeeded, [Next]_vars
  PROVE  RevisionsHeeded'
<1> SUFFICES ASSUME NEW j \in Instances, Resting(j)', Latest(j)'.revision # sourceCache'
             PROVE  \E k \in 1 .. Len(events') : WillRequest(events[k], j)'
  BY DEF RevisionsHeeded
<1>1. ~Start(j)
  BY StartReads DEF Start, sources
<1>2. Resting(j) /\ Latest(j)' = Latest(j)
  BY <1>1, RestMoves
<1>3. CASE DeliverSource /\ ~(UNCHANGED <<sourceCache, events>>)
  BY <1>3, DeliveryRequests
<1>4. ASSUME UNCHANGED sourceCache
      PROVE  /\ \E k \in 1 .. Len(events) : WillRequest(events[k], j)
             /\ \A event : WillRequest(event, j) =>
                  /\ event[2] # NoRevision /\ event[1] # event[2]
                  /\ event[1] = NoRevision =>
                       /\ event[2] = sourceCache'
                       /\ \A v \in Versions(j)' : v.lastAttempted # sourceCache'
  <2>1. Latest(j).revision # sourceCache
    BY <1>2, <1>4
  <2>2. run[j] # NoRun => run[j].revision # sourceCache
    BY <2>1 DEF Latest
  <2>3. (\A v \in Versions(j) : v.lastAttempted # sourceCache)
          => \A v \in Versions(j)' : v.lastAttempted # sourceCache'
    BY <1>4, <2>2, AttemptsMove
  <2>4. QED BY <1>2, <1>4, <2>1, <2>3 DEF RevisionsHeeded, WillRequest
<1>5. ASSUME UNCHANGED <<sourceCache, events>>
      PROVE  \E k \in 1 .. Len(events') : WillRequest(events[k], j)'
  <2>1. PICK k \in 1 .. Len(events) : WillRequest(events[k], j)
    BY <1>4, <1>5
  <2>2. WillRequest(events[k], j)'
    BY <1>4, <1>5, <2>1 DEF WillRequest
  <2>3. QED BY <1>5, <2>1, <2>2
<1>6. CASE HandleSource
  <2>0. UNCHANGED sourceCache /\ events \in Seq(Revision \X Revision) /\ events # <<>>
        /\ events' = Tail(events)
    BY <1>6 DEF HandleSource, TypeOK
  <2>1. PICK k \in 1 .. Len(events) : WillRequest(events[k], j)
    BY <1>4, <2>0
  <2>2. /\ Head(events) = events[1] /\ Len(Tail(events)) = Len(events) - 1
        /\ \A m \in 1 .. Len(Tail(events)) : Tail(events)[m] = events[m + 1]
        /\ Len(events) \in Nat /\ events[k] \in Revision \X Revision
    BY <2>0, <2>1
  <2>3. k # 1
    <3>1. SUFFICES ASSUME k = 1 PROVE FALSE
      OBVIOUS
    <3>2. j \in Requests(Head(events))
      BY <2>1, <2>2, <3>1, Requested
    <3>3. QED BY <1>6, <3>2 DEF HandleSource, Resting
  <2>4. k - 1 \in 1 .. Len(events') /\ events'[k - 1] = events[k]
    BY <2>0, <2>1, <2>2, <2>3
  <2>5. WillRequest(events[k - 1], j)'
    BY <1>4, <2>0, <2>1, <2>4 DEF WillRequest
  <2>6. QED BY <2>4, <2>5
<1>7. ~Restart
  BY DEF Restart, Resting
<1>8. PublishArtifact \/ UNCHANGED vars => UNCHANGED <<sourceCache, events>>
  BY DEF PublishArtifact, vars, sources
<1>9. ASSUME NEW i \in Instances,
             \/ EditInstance(i) \/ DeliverInstance(i) \/ StartSuspended(i) \/ Start(i)
             \/ Finish(i) \/ Fail(i) \/ Requeue(i)
      PROVE  UNCHANGED <<sourceCache, events>>
  BY <1>9 DEF EditInstance, DeliverInstance, StartSuspended, Start, Finish, Fail, Requeue, sources
<1>10. \/ UNCHANGED <<sourceCache, events>> \/ HandleSource
       \/ DeliverSource /\ ~(UNCHANGED <<sourceCache, events>>)
  BY <1>7, <1>8, <1>9, NextCases
<1>11. QED BY <1>3, <1>5, <1>6, <1>10

-----------------------------------------------------------------------------
(* The theorems.                                                           *)

LEMMA InvInit == Init => WatchInv
<1> SUFFICES ASSUME Init PROVE WatchInv
  OBVIOUS
<1> DEFINE first == [generation |-> 1, requested |-> 0, suspend |-> FALSE,
                     lastAttempted |-> NoRevision]
<1>1. \A i \in Instances : instance[i] = first /\ instanceCache[i] = first
                           /\ instanceWatch[i] = <<>> /\ run[i] = NoRun
  BY DEF Init
<1>2. \A i \in Instances : Versions(i) = {first}
  <2> HIDE DEF first
  <2>1. \A i \in Instances : {instanceWatch[i][k] : k \in 1 .. Len(instanceWatch[i])} = {}
    BY <1>1
  <2>2. QED BY <1>1, <2>1 DEF Versions
<1>3. first.generation = 1 /\ first.lastAttempted = NoRevision /\ NoRun.revision = NoRevision
  BY DEF NoRun
<1> HIDE DEF first
<1>4. WatchesConverge
  BY <1>1 DEF Init, WatchesConverge
<1>5. GenerationsCount
  BY <1>1, <1>2, <1>3 DEF GenerationsCount
<1>6. EditsHeeded /\ RevisionsHeeded
  BY DEF Init, EditsHeeded, RevisionsHeeded, Resting
<1>7. ArtifactStays
  BY <1>1, <1>2, <1>3 DEF Init, ArtifactStays
<1>8. QED BY <1>4, <1>5, <1>6, <1>7 DEF WatchInv

(* Whatever the source does, an instance at rest has acted on the spec and *)
(* the reconcile request that were delivered of it.                        *)
THEOREM EditsAreHeeded == Spec => []EditsHeeded
<1> DEFINE Inv == GenerationsCount /\ EditsHeeded
<1>1. Init => Inv
  BY InvInit DEF WatchInv
<1>2. TypeOK /\ TypeOK' /\ Inv /\ [Next]_vars => Inv'
  BY GenerationsKept, EditsKept
<1>3. Inv => EditsHeeded
  OBVIOUS
<1> HIDE DEF Inv
<1>4. QED BY <1>1, <1>2, <1>3, TypeCorrect, PTL DEF Spec

(* Whatever the source does, no active CueInstance is ever forgotten. *)
THEOREM NoneIsForgotten == Spec => []NeverForgotten
<1> DEFINE Inv == GenerationsCount /\ NeverForgotten
<1>1. Init => Inv
  BY InvInit DEF WatchInv, Init, NeverForgotten
<1>2. TypeOK /\ TypeOK' /\ Inv /\ [Next]_vars => Inv'
  BY GenerationsKept, NeverForgottenKept
<1>3. Inv => NeverForgotten
  OBVIOUS
<1> HIDE DEF Inv
<1>4. QED BY <1>1, <1>2, <1>3, TypeCorrect, PTL DEF Spec

(* The inductive invariant. *)
THEOREM Invariance ==
  ASSUME ~ArtifactVanishes, NoCircles PROVE Spec => []WatchInv
<1>1. TypeOK /\ TypeOK' /\ WatchInv /\ [Next]_vars => WatchInv'
  BY GenerationsKept, EditsKept, ConvergenceKept, ArtifactKept, RevisionsKept DEF WatchInv
<1>2. QED BY <1>1, InvInit, TypeCorrect, PTL DEF Spec

(* When everything delivered has been dealt with, the last run of every    *)
(* active CueInstance was of the current revision, spec and request.       *)
THEOREM ChangesAreNotMissed ==
  ASSUME ~ArtifactVanishes, NoCircles PROVE Spec => []NoChangeMissed
<1>1. TypeOK /\ WatchInv => NoChangeMissed
  <2> SUFFICES ASSUME TypeOK, WatchInv, NEW i \in Instances, Settled(i), ~instance[i].suspend
               PROVE  attempt[i] = [generation |-> instance[i].generation,
                                    requested  |-> instance[i].requested, revision |-> source]
    BY DEF NoChangeMissed
  <2>1. instanceCache[i] = instance[i] /\ sourceCache = source
    BY DEF Settled, WatchInv, WatchesConverge
  <2>2. Resting(i) /\ Latest(i) = attempt[i] /\ Len(events) = 0
    BY <2>1 DEF Settled, Resting, Latest
  <2>3. attempt[i].generation = instance[i].generation
        /\ attempt[i].requested = instance[i].requested
    BY <2>1, <2>2 DEF WatchInv, EditsHeeded
  <2>4. attempt[i].revision = source
    BY <2>1, <2>2 DEF WatchInv, RevisionsHeeded
  <2>5. attempt[i] \in Inputs
    BY DEF TypeOK
  <2>6. QED BY <2>3, <2>4, <2>5 DEF Inputs
<1>2. QED BY <1>1, TypeCorrect, Invariance, PTL
=============================================================================
