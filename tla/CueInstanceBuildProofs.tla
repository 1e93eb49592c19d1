----------------------- MODULE CueInstanceBuildProofs -----------------------
(***************************************************************************)
(* What CueInstanceBuild promises of a build, proved for every input: any  *)
(* number of expressions, files, items and gates, and every policy.        *)
(***************************************************************************)
EXTENDS CueInstanceBuild, TLAPS

Ids == ExprIds \cup FileIds \cup ValueIds

(* The inputs do not change during a run, and with them what is a document, *)
(* carries objects or is invalid.                                          *)
LEMMA InputStays ==
  ASSUME [Next]_vars
  PROVE  in' = in
BY DEF Next, vars, Load, LoadFails, BuildFails, BuildExpr, ExprsDone, BuildValue, OpenFile,
       BuildItem, CloseFile, FilesDone, GatesUnloadable, CheckGate, GatesDone, Done, Judge

LEMMA DocumentsStay ==
  ASSUME in' = in
  PROVE  /\ Ids' = Ids /\ Payload' = Payload /\ Invalid' = Invalid
         /\ \A id : Doc(id)' = Doc(id)
<1>1. ExprIds' = ExprIds /\ FileIds' = FileIds /\ ValueIds' = ValueIds
  BY DEF ExprIds, FileIds, ValueIds, Documents
<1>2. \A id : Doc(id)' = Doc(id)
  BY DEF Doc
<1>3. \A id : Rejected(TypeOf(id), Doc(id))' = Rejected(TypeOf(id), Doc(id))
  BY <1>2 DEF Rejected, TypeOf
<1>4. QED BY <1>1, <1>2, <1>3 DEF Ids, Payload, Invalid

(* A document's name tells where it comes from. *)
LEMMA IdShapes ==
  ASSUME NEW id \in Ids
  PROVE  \/ \E n \in 1 .. Len(in.exprs) : id = <<"expr", n, 1>>
         \/ \E n \in 1 .. Len(in.files) : \E m \in Documents(in.files[n]) : id = <<"file", n, m>>
         \/ id = <<"value", 1, 1>> /\ in.exprs = <<>>
BY DEF Ids, ExprIds, FileIds, ValueIds

(* Payload and Invalid are made of documents. *)
LEMMA IdSets == Payload \subseteq Ids /\ Invalid \subseteq Ids
BY DEF Payload, Invalid, Ids

SoFar == WrittenSoFar /\ AnnouncedSoFar /\ NoneFailed

(* A step that comes past no document and writes none. *)
LEMMA NoMore ==
  ASSUME SoFar, in' = in, written' = written, announced' = announced,
         \A id \in Ids : Visited(id)' <=> Visited(id)
  PROVE  SoFar'
<1>1. Payload' = Payload /\ Invalid' = Invalid
  BY DocumentsStay
<1>2. WrittenSoFar'
  BY <1>1, IdSets DEF SoFar, WrittenSoFar
<1>3. AnnouncedSoFar'
  BY <1>1, IdSets DEF SoFar, AnnouncedSoFar
<1>4. NoneFailed'
  BY <1>1, IdSets DEF SoFar, NoneFailed
<1>5. QED BY <1>2, <1>3, <1>4 DEF SoFar

(* A step that comes past one document, and deals with it by its fate. *)
LEMMA OneMore ==
  ASSUME SoFar, in' = in,
         NEW d \in Ids, ~Visited(d),
         \A id \in Ids : Visited(id)' <=> (Visited(id) \/ id = d),
         NEW fate, fate = Fate(TypeOf(d), Doc(d)), fate # "failed",
         announced' = IF fate \in {"dropped", "audited"} THEN announced \cup {d} ELSE announced,
         written' = IF fate = "dropped" \/ d \notin Payload THEN written ELSE written \cup {d}
  PROVE  SoFar'
<1>1. Payload' = Payload /\ Invalid' = Invalid
  BY DocumentsStay
<1>2. d \in Invalid <=> Rejected(TypeOf(d), Doc(d))
  BY DEF Invalid, Ids
<1>3. /\ fate = "dropped" <=> d \in Invalid /\ in.validate.mode = "Drop"
      /\ fate = "audited" <=> d \in Invalid /\ in.validate.mode = "Audit"
      /\ in.validate.mode = "Fail" => d \notin Invalid
  BY <1>2 DEF Fate
<1>4. WrittenSoFar'
  BY <1>1, <1>3, IdSets DEF SoFar, WrittenSoFar
<1>5. AnnouncedSoFar'
  BY <1>1, <1>3, IdSets DEF SoFar, AnnouncedSoFar
<1>6. NoneFailed'
  BY <1>1, <1>3, IdSets DEF SoFar, NoneFailed
<1>7. QED BY <1>4, <1>5, <1>6 DEF SoFar
-----------------------------------------------------------------------------
(* Where the loops are.                                                    *)

LEMMA LoopsInit ==
  ASSUME Init
  PROVE  Loops
BY InputsAssumption DEF Init, Loops

(* A build that fails ends. *)
LEMMA FailsLoops ==
  ASSUME Loops, BuildFails
  PROVE  Loops'
BY DEF Loops, BuildFails

LEMMA LoopsNext ==
  ASSUME Loops, [Next]_vars
  PROVE  Loops'
<1>1. in' = in
  BY InputStays
<1>2. CASE Load
  BY <1>2 DEF Load, Loops
<1>3. CASE LoadFails
  BY <1>3, FailsLoops DEF LoadFails
<1>4. CASE BuildExpr
  <2>1. CASE BuildFails
    BY <2>1, FailsLoops
  <2>2. CASE i' = i + 1 /\ UNCHANGED <<in, pc, j, outcome>>
    BY <2>2, <1>4 DEF Loops, BuildExpr
  <2>3. QED BY <1>4, <2>1, <2>2 DEF BuildExpr, Judge
<1>5. CASE ExprsDone
  BY <1>5 DEF ExprsDone, Loops
<1>6. CASE BuildValue
  <2>1. CASE BuildFails
    BY <2>1, FailsLoops
  <2>2. CASE pc' = "files" /\ i' = 1 /\ UNCHANGED <<in, j, outcome>>
    BY <2>2, <1>6 DEF Loops, BuildValue
  <2>3. QED BY <1>6, <2>1, <2>2 DEF BuildValue
<1>7. CASE OpenFile
  <2>1. CASE BuildFails
    BY <2>1, FailsLoops
  <2>2. CASE ~BuildFails
    BY <2>2, <1>1, <1>7 DEF Loops, OpenFile, Documents
  <2>3. QED BY <2>1, <2>2
<1>8. CASE BuildItem
  <2>1. CASE BuildFails
    BY <2>1, FailsLoops
  <2>2. CASE j' = j + 1 /\ UNCHANGED <<in, pc, i, outcome>>
    BY <2>2, <1>8 DEF Loops, BuildItem, Documents
  <2>3. QED BY <1>8, <2>1, <2>2 DEF BuildItem, Judge
<1>9. CASE CloseFile
  BY <1>9 DEF CloseFile, Loops
<1>10. CASE FilesDone
  BY <1>10 DEF FilesDone, Loops
<1>11. CASE GatesUnloadable
  BY <1>11 DEF GatesUnloadable, Loops
<1>12. CASE CheckGate
  BY <1>12 DEF CheckGate, Loops
<1>13. CASE GatesDone
  BY <1>13 DEF GatesDone, Loops
<1>14. CASE Done \/ UNCHANGED vars
  BY <1>14 DEF Done, vars, Loops, Documents
<1>15. QED
  BY <1>2, <1>3, <1>4, <1>5, <1>6, <1>7, <1>8, <1>9, <1>10, <1>11, <1>12, <1>13, <1>14
     DEF Next

-----------------------------------------------------------------------------
(* What is written, reported and refused.                                  *)

(* No loop has come past a document before it starts. *)
LEMMA SoFarInit ==
  ASSUME Init
  PROVE  SoFar
<1>1. \A id \in Ids : ~Visited(id)
  BY IdShapes DEF Init, Visited
<1>2. QED BY <1>1, IdSets DEF Init, SoFar, WrittenSoFar, AnnouncedSoFar, NoneFailed

(* The document the loop over expressions is at. *)
LEMMA BuildExprSoFar ==
  ASSUME Loops, SoFar, BuildExpr, outcome' # "buildFailed"
  PROVE  SoFar'
<1> DEFINE d == <<"expr", i, 1>>
<1>1. d \in Ids /\ Doc(d) = in.exprs[i] /\ TypeOf(d) = "cue"
  BY DEF BuildExpr, Loops, Ids, ExprIds, Doc, TypeOf
<1>2. d \in Payload <=> in.exprs[i].kind # "other"
  BY <1>1 DEF Payload, BuildExpr, Loops, ExprIds
<1>3. in' = in /\ i' = i + 1 /\ pc' = pc /\ pc = "exprs"
  BY DEF BuildExpr, Judge, BuildFails
<1>4. ~Visited(d)
  BY <1>3 DEF Visited, Loops
<1>5. \A id \in Ids : Visited(id)' <=> (Visited(id) \/ id = d)
  BY <1>3, IdShapes DEF Visited, Loops
<1>6. PICK fate : fate = Fate(TypeOf(d), Doc(d))
  OBVIOUS
<1>7. /\ fate # "failed"
      /\ announced' = IF fate \in {"dropped", "audited"} THEN announced \cup {d} ELSE announced
      /\ written' = IF fate = "dropped" \/ d \notin Payload THEN written ELSE written \cup {d}
  BY <1>1, <1>2, <1>6 DEF BuildExpr, Judge, BuildFails, Announce, Written
<1> HIDE DEF d
<1>8. QED BY <1>1, <1>3, <1>4, <1>5, <1>6, <1>7, OneMore

(* The item the loop over a file is at. *)
LEMMA BuildItemSoFar ==
  ASSUME Loops, SoFar, BuildItem, outcome' # "buildFailed"
  PROVE  SoFar'
<1> DEFINE d == <<"file", i, j>>
<1>0. i \in 1 .. Len(in.files) /\ j \in Documents(in.files[i])
  BY DEF BuildItem, Loops, Documents
<1>1. d \in Ids /\ Doc(d) = in.files[i].items[j] /\ TypeOf(d) = "yaml"
  BY <1>0 DEF Ids, FileIds, Doc, TypeOf
<1>2. d \in Payload <=> in.files[i].items[j].kind # "other"
  BY <1>0, <1>1 DEF Payload, FileIds
<1>3. in' = in /\ j' = j + 1 /\ i' = i /\ pc' = pc /\ pc = "items"
  BY DEF BuildItem, Judge, BuildFails
<1>4. ~Visited(d)
  BY <1>3 DEF Visited, Loops
<1>5. \A id \in Ids : Visited(id)' <=> (Visited(id) \/ id = d)
  BY <1>3, IdShapes DEF Visited, Loops, Documents
<1>6. PICK fate : fate = Fate(TypeOf(d), Doc(d))
  OBVIOUS
<1>7. /\ fate # "failed"
      /\ announced' = IF fate \in {"dropped", "audited"} THEN announced \cup {d} ELSE announced
      /\ written' = IF fate = "dropped" \/ d \notin Payload THEN written ELSE written \cup {d}
  BY <1>1, <1>2, <1>6 DEF BuildItem, Judge, BuildFails, Announce, Written
<1> HIDE DEF d
<1>8. QED BY <1>1, <1>3, <1>4, <1>5, <1>6, <1>7, OneMore

(* The whole value is judged, and not written: it is no payload. *)
LEMMA BuildValueSoFar ==
  ASSUME Loops, SoFar, BuildValue, outcome' # "buildFailed"
  PROVE  SoFar'
<1> DEFINE d == <<"value", 1, 1>>
<1>1. d \in Ids /\ Doc(d) = in.value /\ TypeOf(d) = "cue"
  BY DEF BuildValue, Loops, Ids, ValueIds, Doc, TypeOf
<1>2. d \notin Payload
  BY DEF Payload, ExprIds, FileIds
<1>3. in' = in /\ pc' = "files" /\ i' = 1 /\ pc = "value" /\ in.exprs = <<>>
  BY DEF BuildValue, BuildFails, Loops
<1>4. ~Visited(d)
  BY <1>3 DEF Visited
<1>5. \A id \in Ids : Visited(id)' <=> (Visited(id) \/ id = d)
  BY <1>3, IdShapes DEF Visited, Documents
<1>6. PICK fate : fate = Fate(TypeOf(d), Doc(d))
  OBVIOUS
<1>7. /\ fate # "failed"
      /\ announced' = IF fate \in {"dropped", "audited"} THEN announced \cup {d} ELSE announced
      /\ written' = IF fate = "dropped" \/ d \notin Payload THEN written ELSE written \cup {d}
  <2>1. fate \in {"failed", "dropped", "audited", "accepted"}
    BY <1>6 DEF Fate
  <2>2. fate # "failed" /\ written' = written
    BY <1>1, <1>6 DEF BuildValue, BuildFails
  <2>3. announced' = IF fate = "accepted" THEN announced ELSE announced \cup {d}
    BY <1>1, <1>6 DEF BuildValue, BuildFails, Announce
  <2>4. QED BY <1>2, <2>1, <2>2, <2>3
<1> HIDE DEF d
<1>8. QED BY <1>1, <1>3, <1>4, <1>5, <1>6, <1>7, OneMore

(* The steps between documents. *)
LEMMA BetweenSoFar ==
  ASSUME Loops, SoFar, outcome' # "buildFailed",
         \/ Load \/ ExprsDone \/ OpenFile \/ CloseFile \/ FilesDone
         \/ GatesUnloadable \/ CheckGate \/ GatesDone \/ Done \/ UNCHANGED vars
  PROVE  SoFar'
<1>1. in' = in /\ written' = written /\ announced' = announced
  BY DEF Load, ExprsDone, OpenFile, BuildFails, CloseFile, FilesDone, GatesUnloadable,
         CheckGate, GatesDone, Done, vars
<1> SUFFICES ASSUME NEW id \in Ids PROVE Visited(id)' <=> Visited(id)
  BY <1>1, NoMore
<1>2. CASE Load
  BY <1>2, IdShapes DEF Load, Visited, Loops
<1>3. CASE ExprsDone
  BY <1>3, IdShapes DEF ExprsDone, Visited, Loops
<1>4. CASE OpenFile
  BY <1>4, IdShapes DEF OpenFile, BuildFails, Visited, Loops, Documents
<1>5. CASE CloseFile
  BY <1>5, IdShapes DEF CloseFile, Visited, Loops, Documents
<1>6. CASE FilesDone
  BY <1>6, IdShapes DEF FilesDone, Visited, Loops
<1>7. CASE GatesUnloadable \/ CheckGate \/ GatesDone
  BY <1>7 DEF GatesUnloadable, CheckGate, GatesDone, Visited
<1>8. CASE Done \/ UNCHANGED vars
  BY <1>8 DEF Done, vars, Visited
<1>9. QED BY <1>2, <1>3, <1>4, <1>5, <1>6, <1>7, <1>8

(* A failed build is over. *)
LEMMA FailedStays ==
  ASSUME Loops, [Next]_vars, outcome = "buildFailed"
  PROVE  outcome' = "buildFailed"
BY DEF Loops, Next, vars, Load, LoadFails, BuildFails, BuildExpr, ExprsDone, BuildValue,
       OpenFile, BuildItem, CloseFile, FilesDone, GatesUnloadable, CheckGate, GatesDone, Done

LEMMA FailedUnchanged ==
  ASSUME Loops, [Next]_vars, outcome = "buildFailed"
  PROVE  written' = written /\ announced' = announced
BY DEF Loops, Next, vars, Load, LoadFails, BuildExpr, ExprsDone, BuildValue,
       OpenFile, BuildItem, CloseFile, FilesDone, GatesUnloadable, CheckGate, GatesDone, Done

(* A step that fails reports at most the document it fails on. *)
LEMMA FailingAnnounces ==
  ASSUME Loops, [Next]_vars, outcome' = "buildFailed", outcome # "buildFailed"
  PROVE  written' = written /\ (announced' = announced \/ \E d \in Invalid : announced' = announced \cup {d})
<1>1. CASE LoadFails
  BY <1>1 DEF LoadFails, BuildFails
<1>2. CASE BuildExpr
  <2> DEFINE d == <<"expr", i, 1>>
  <2>1. BuildFails /\ (announced' = announced \/ (Fate("cue", in.exprs[i]) = "failed" /\ Announce(d)))
    BY <1>2 DEF BuildExpr, Judge
  <2>2. Fate("cue", in.exprs[i]) = "failed" => d \in Invalid
    BY <1>2 DEF Fate, BuildExpr, Loops, Invalid, ExprIds, Doc, TypeOf
  <2>3. QED BY <2>1, <2>2 DEF BuildFails, Announce
<1>3. CASE BuildItem
  <2> DEFINE d == <<"file", i, j>>
  <2>1. BuildFails /\ (announced' = announced \/ (Fate("yaml", in.files[i].items[j]) = "failed" /\ Announce(d)))
    BY <1>3 DEF BuildItem, Judge
  <2>2. i \in 1 .. Len(in.files) /\ j \in Documents(in.files[i])
    BY <1>3 DEF BuildItem, Loops, Documents
  <2>3. d \in FileIds /\ Doc(d) = in.files[i].items[j] /\ TypeOf(d) = "yaml"
    BY <2>2 DEF FileIds, Doc, TypeOf
  <2>4. Fate("yaml", in.files[i].items[j]) = "failed" => d \in Invalid
    BY <2>3 DEF Fate, Invalid
  <2>5. QED BY <2>1, <2>4 DEF BuildFails, Announce
<1>4. CASE BuildValue
  <2> DEFINE d == <<"value", 1, 1>>
  <2>1. BuildFails /\ (announced' = announced \/ (Fate("cue", in.value) = "failed" /\ Announce(d)))
    BY <1>4 DEF BuildValue
  <2>2. Fate("cue", in.value) = "failed" => d \in Invalid
    BY <1>4 DEF Fate, BuildValue, Loops, Invalid, ValueIds, Doc, TypeOf
  <2>3. QED BY <2>1, <2>2 DEF BuildFails, Announce
<1>5. CASE OpenFile
  BY <1>5 DEF OpenFile, BuildFails
<1>6. ~(\/ Load \/ ExprsDone \/ CloseFile \/ FilesDone \/ GatesUnloadable \/ CheckGate
        \/ GatesDone \/ Done \/ UNCHANGED vars)
  BY DEF Load, ExprsDone, CloseFile, FilesDone, GatesUnloadable, CheckGate, GatesDone, Done, vars
<1>7. QED BY <1>1, <1>2, <1>3, <1>4, <1>5, <1>6 DEF Next

LEMMA SoFarNext ==
  ASSUME Loops, outcome # "buildFailed" => SoFar, [Next]_vars
  PROVE  outcome' # "buildFailed" => SoFar'
<1> SUFFICES ASSUME outcome' # "buildFailed" PROVE SoFar'
  OBVIOUS
<1>1. SoFar
  BY FailedStays
<1>2. ~LoadFails
  BY DEF LoadFails, BuildFails
<1>3. QED
  BY <1>1, <1>2, BuildExprSoFar, BuildItemSoFar, BuildValueSoFar, BetweenSoFar DEF Next

-----------------------------------------------------------------------------
(* The gates.                                                              *)

LEMMA GatesNext ==
  ASSUME Loops, GatesSoFar, GatesHold, [Next]_vars
  PROVE  GatesSoFar' /\ GatesHold'
<1>1. CASE CheckGate
  <2>1. i \in 1 .. Len(in.gates) /\ in' = in /\ i' = i + 1 /\ pc' = pc /\ pc = "gates"
    BY <1>1 DEF CheckGate, Loops, Input
  <2>2. closed' = {n \in 1 .. Len(in.gates) : n < i + 1 /\ in.gates[n] # "true"}
    BY <1>1, <2>1 DEF CheckGate, Open, GatesSoFar
  <2>3. GatesHold'
    BY <1>1, <2>1 DEF CheckGate, GatesHold
  <2>4. QED BY <2>1, <2>2, <2>3 DEF GatesSoFar
<1>2. CASE GatesDone
  <2>1. in' = in /\ pc' = "done" /\ closed' = closed /\ (outcome' = "apply" => closed = {})
    BY <1>2 DEF GatesDone
  <2>2. closed = {n \in 1 .. Len(in.gates) : n < i /\ in.gates[n] # "true"}
    BY <1>2 DEF GatesDone, GatesSoFar
  <2>3. \A n \in 1 .. Len(in.gates) : n < i
    BY <1>2 DEF GatesDone, Loops, Input
  <2>4. outcome' = "apply" => \A n \in 1 .. Len(in.gates) : in.gates[n] = "true"
    BY <2>1, <2>2, <2>3
  <2>5. GatesHold'
    BY <2>1, <2>4 DEF GatesHold
  <2>6. GatesSoFar'
    BY <2>1 DEF GatesSoFar
  <2>7. QED BY <2>5, <2>6
<1>3. CASE GatesUnloadable
  BY <1>3 DEF GatesUnloadable, Loops, GatesSoFar, GatesHold
<1>4. CASE FilesDone
  <2>1. in' = in /\ pc' = "gates" /\ i' = 1 /\ closed' = {} /\ outcome' = outcome
    BY <1>4 DEF FilesDone, GatesSoFar
  <2>2. {n \in 1 .. Len(in.gates) : n < 1 /\ in.gates[n] # "true"} = {}
    OBVIOUS
  <2>3. GatesSoFar'
    BY <2>1, <2>2 DEF GatesSoFar
  <2>4. QED BY <2>1, <2>3 DEF GatesHold
<1>5. CASE BuildExpr \/ BuildItem \/ BuildValue
  BY <1>5 DEF BuildExpr, BuildItem, BuildValue, Judge, BuildFails, Loops, GatesSoFar, GatesHold
<1>6. CASE Load \/ LoadFails \/ ExprsDone \/ OpenFile \/ CloseFile
  BY <1>6 DEF Load, LoadFails, BuildFails, ExprsDone, OpenFile, CloseFile, Loops, GatesSoFar,
              GatesHold
<1>7. CASE Done \/ UNCHANGED vars
  BY <1>7 DEF Done, vars, GatesSoFar, GatesHold
<1>8. QED BY <1>1, <1>2, <1>3, <1>4, <1>5, <1>6, <1>7 DEF Next

-----------------------------------------------------------------------------
(* The invariant holds of every build.                                     *)
THEOREM BuildInvariance == Spec => []BuildInv
<1>1. Init => BuildInv
  <2> SUFFICES ASSUME Init PROVE BuildInv
    OBVIOUS
  <2>1. Loops /\ SoFar
    BY LoopsInit, SoFarInit
  <2>2. GatesSoFar /\ GatesHold
    BY DEF Init, GatesSoFar, GatesHold
  <2>3. QED BY <2>1, <2>2 DEF BuildInv, SoFar
<1>2. BuildInv /\ [Next]_vars => BuildInv'
  <2> SUFFICES ASSUME BuildInv, [Next]_vars PROVE BuildInv'
    OBVIOUS
  <2>1. Loops' /\ GatesSoFar' /\ GatesHold'
    BY LoopsNext, GatesNext DEF BuildInv
  <2>2. outcome' # "buildFailed" => SoFar'
    BY SoFarNext DEF BuildInv, SoFar
  <2>3. QED BY <2>1, <2>2 DEF BuildInv, SoFar
<1>3. QED BY <1>1, <1>2, PTL DEF Spec

(* A build that ends has come past every document. *)
LEMMA AllVisited ==
  ASSUME Loops, outcome \in {"apply", "gateFailed"}
  PROVE  \A id : Visited(id)
BY DEF Loops, Visited

(* BuildsByPolicy: whatever the nesting of the loops, a build that goes on *)
(* wrote every expression and item, except those Drop rejects.             *)
THEOREM PolicyKept == Spec => []BuildsByPolicy
<1>1. BuildInv => BuildsByPolicy
  BY AllVisited DEF BuildInv, WrittenSoFar, BuildsByPolicy
<1>2. QED BY <1>1, BuildInvariance, PTL

(* FailsWhole: under Fail nothing is applied of a build with an invalid    *)
(* document.                                                               *)
THEOREM FailingIsWhole == Spec => []FailsWhole
<1>1. BuildInv => FailsWhole
  BY AllVisited, IdSets DEF BuildInv, NoneFailed, FailsWhole
<1>2. QED BY <1>1, BuildInvariance, PTL

(* ReportsInvalid: Drop and Audit report all that is invalid, and only it. *)
THEOREM InvalidReported == Spec => []ReportsInvalid
<1>1. BuildInv => ReportsInvalid
  BY AllVisited DEF BuildInv, AnnouncedSoFar, ReportsInvalid
<1>2. QED BY <1>1, BuildInvariance, PTL

(* TypeOK. *)
THEOREM BuildTypeCorrect == Spec => []TypeOK
<1>1. Init => TypeOK
  BY InputsAssumption DEF Init, TypeOK
<1>2. BuildInv /\ BuildInv' /\ TypeOK /\ [Next]_vars => TypeOK'
  <2> SUFFICES ASSUME BuildInv, BuildInv', TypeOK, [Next]_vars PROVE TypeOK'
    OBVIOUS
  <2>1. in' = in /\ Payload' = Payload /\ Invalid' = Invalid
    BY InputStays, DocumentsStay
  <2>2. written' \subseteq Payload /\ announced' \subseteq Invalid
    <3>1. CASE outcome' # "buildFailed"
      BY <2>1, <3>1 DEF BuildInv, WrittenSoFar, AnnouncedSoFar
    <3>2. CASE outcome' = "buildFailed" /\ outcome = "buildFailed"
      BY <3>2, FailedUnchanged DEF BuildInv, TypeOK
    <3>3. CASE outcome' = "buildFailed" /\ outcome # "buildFailed"
      BY <3>3, FailingAnnounces DEF BuildInv, TypeOK
    <3>4. QED BY <3>1, <3>2, <3>3
  <2>3. QED BY <2>1, <2>2 DEF BuildInv, Loops, GatesSoFar, TypeOK
<1>3. QED BY <1>1, <1>2, BuildInvariance, PTL DEF Spec

(* GatesHold: nothing is applied behind a gate that is not true. *)
THEOREM GatesRespected == Spec => []GatesHold
<1>1. BuildInv => GatesHold
  BY DEF BuildInv
<1>2. QED BY <1>1, BuildInvariance, PTL
=============================================================================
