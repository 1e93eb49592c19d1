-------------------------- MODULE CueInstanceBuild --------------------------
(***************************************************************************)
(* What a run builds from an artifact, and whether it may apply it: build, *)
(* cueEncodeYAML and checkGates of controllers/cueinstance_controller.go.  *)
(*                                                                         *)
(* The build writes documents to a buffer.  A document comes from an       *)
(* expression, from the whole value when there are no expressions, or from *)
(* an item of a YAML file beside the CUE files; it is named by where it    *)
(* comes from.  Of its content only what decides its fate is kept: its     *)
(* kind, whether it encodes, and whether the schema accepts it.            *)
(***************************************************************************)
EXTENDS Naturals, Sequences

CONSTANT Inputs  \* what builds may be given

Kinds == {"list", "struct", "other"}
Modes == {"Ignore", "Audit", "Drop", "Fail", "unknown"}

(* A value CUE evaluated; an expression that is not there is of kind other. *)
Value == [kind : Kinds, encodes : BOOLEAN, valid : BOOLEAN]

(* A file that is not CUE, and the items of its list, or its one struct.   *)
(* An item is encoded whatever it is.                                      *)
Item == [kind : {"struct"}, encodes : BOOLEAN, valid : BOOLEAN]
File == [yaml : BOOLEAN, reads : BOOLEAN, kind : Kinds, items : Seq(Item)]

Validation == [type : {"none", "cue", "yaml"}, mode : Modes]
TagVar == [name : STRING, value : STRING]

Input ==
  [loads : BOOLEAN, tagVars : Seq(TagVar), validate : Validation,
   exprs : Seq(Value), value : Value, files : Seq(File),
   gates : Seq({"true", "false", "error"})]

ASSUME InputsAssumption ==
  /\ Inputs \subseteq Input
  /\ \A in \in Inputs : \A n \in 1 .. Len(in.files) :
       in.files[n].kind = "struct" => Len(in.files[n].items) = 1

VARIABLES
  in,        \* the spec and the artifact of this run
  pc,        \* where it is
  i, j,      \* the loops' indices
  tagValues, \* what each tag variable evaluated to
  written,   \* the documents in the buffer
  announced, \* the documents an event reported as invalid
  closed,    \* the gates that failed
  outcome

vars == <<in, pc, i, j, tagValues, written, announced, closed, outcome>>

Init ==
  /\ in \in Inputs
  /\ pc = "load" /\ i = 1 /\ j = 1
  /\ tagValues = <<>> /\ written = {} /\ announced = {} /\ closed = {}
  /\ outcome = "none"

-----------------------------------------------------------------------------
(* load.Instances and BuildInstance.                                       *)

(* The closures registered for the tag variables share the loop's variable: *)
(* when load calls them, the loop is over.                                 *)
TagValue(name) == in.tagVars[Len(in.tagVars)].value

TagNames == {in.tagVars[n].name : n \in 1 .. Len(in.tagVars)}

Load ==
  /\ pc = "load" /\ in.loads
  /\ tagValues' = [name \in TagNames |-> TagValue(name)]
  /\ pc' = IF in.exprs # <<>> THEN "exprs" ELSE "value"
  /\ UNCHANGED <<in, i, j, written, announced, closed, outcome>>

(* reconcile publishes BuildFailed; nothing of the buffer gets out. *)
BuildFails ==
  /\ pc' = "done" /\ outcome' = "buildFailed"
  /\ UNCHANGED <<in, i, j, tagValues, written, closed>>

LoadFails ==
  /\ pc = "load" /\ ~in.loads
  /\ BuildFails /\ UNCHANGED announced

-----------------------------------------------------------------------------
(* One document: encode, validate under the policy, write.                 *)

(* The schema rejects the document, and the validation is of its type. *)
Rejected(type, doc) == in.validate.type = type /\ ~doc.valid

(* Mutants of Fate: Fail only drops; Drop and Audit taken for each other;  *)
(* Audit forgets its event.                                                *)
FateLenient(type, doc) ==
  IF ~Rejected(type, doc) THEN "accepted"
  ELSE IF in.validate.mode \in {"Drop", "Fail"} THEN "dropped"
  ELSE IF in.validate.mode = "Audit" THEN "audited" ELSE "accepted"
FateSwapped(type, doc) ==
  IF ~Rejected(type, doc) THEN "accepted"
  ELSE CASE in.validate.mode = "Fail"  -> "failed"
         [] in.validate.mode = "Drop"  -> "audited"
         [] in.validate.mode = "Audit" -> "dropped"
         [] OTHER                      -> "accepted"
FateQuiet(type, doc) ==
  IF ~Rejected(type, doc) THEN "accepted"
  ELSE CASE in.validate.mode = "Fail"  -> "failed"
         [] in.validate.mode = "Drop"  -> "dropped"
         [] OTHER                      -> "accepted"

(* Ignore, and a mode the switch does not know, only log. *)
Fate(type, doc) ==
  IF ~Rejected(type, doc) THEN "accepted"
  ELSE IF in.validate.mode = "Fail" THEN "failed"
  ELSE IF in.validate.mode = "Drop" THEN "dropped"
  ELSE IF in.validate.mode = "Audit" THEN "audited" ELSE "accepted"

(* cueEncodeYAML: what is neither a list nor a struct encodes to nothing. *)
Encodes(value) == value.kind = "other" \/ value.encodes

(* Mutant of Written: an empty document is written. *)
WrittenEmpty(value, id) == written \cup {id}

Written(value, id) == IF value.kind = "other" THEN written ELSE written \cup {id}

Announce(id) == announced' = announced \cup {id}

(* The document id gets its fate; next is where the loop goes on. *)
Judge(type, doc, id, next) ==
  \/ ~Encodes(doc) /\ BuildFails /\ UNCHANGED announced
  \/ /\ Encodes(doc) /\ Fate(type, doc) = "failed"
     /\ BuildFails /\ Announce(id)
  \/ /\ Encodes(doc) /\ Fate(type, doc) = "dropped"
     /\ Announce(id) /\ next
     /\ UNCHANGED <<in, tagValues, written, closed, outcome>>
  \/ /\ Encodes(doc) /\ Fate(type, doc) = "audited"
     /\ Announce(id) /\ next /\ written' = Written(doc, id)
     /\ UNCHANGED <<in, tagValues, closed, outcome>>
  \/ /\ Encodes(doc) /\ Fate(type, doc) = "accepted"
     /\ next /\ written' = Written(doc, id)
     /\ UNCHANGED <<in, tagValues, announced, closed, outcome>>

BuildExpr ==
  /\ pc = "exprs" /\ i <= Len(in.exprs)
  /\ Judge("cue", in.exprs[i], <<"expr", i, 1>>, i' = i + 1 /\ UNCHANGED <<pc, j>>)

(* Without expressions the value is encoded and judged, but valid is FALSE *)
(* from its declaration on: it is never written.                           *)
BuildValue ==
  /\ pc = "value"
  /\ \/ /\ ~Encodes(in.value)
        /\ BuildFails /\ UNCHANGED announced
     \/ /\ Encodes(in.value) /\ Fate("cue", in.value) = "failed"
        /\ BuildFails /\ Announce(<<"value", 1, 1>>)
     \/ /\ Encodes(in.value) /\ Fate("cue", in.value) # "failed"
        /\ IF Fate("cue", in.value) = "accepted"
             THEN UNCHANGED announced ELSE Announce(<<"value", 1, 1>>)
        /\ pc' = "files" /\ i' = 1
        /\ UNCHANGED <<in, j, tagValues, written, closed, outcome>>

ExprsDone ==
  /\ pc = "exprs" /\ i > Len(in.exprs)
  /\ pc' = "files" /\ i' = 1
  /\ UNCHANGED <<in, j, tagValues, written, announced, closed, outcome>>

-----------------------------------------------------------------------------
(* The orphaned files.                                                     *)

Documents(file) ==
  IF file.yaml /\ file.kind # "other" THEN 1 .. Len(file.items) ELSE {}

OpenFile ==
  /\ pc = "files" /\ i <= Len(in.files)
  /\ LET file == in.files[i]
     IN  \/ /\ file.yaml /\ ~file.reads
            /\ BuildFails /\ UNCHANGED announced
         \/ /\ file.yaml => file.reads
            /\ IF Documents(file) # {} THEN pc' = "items" /\ j' = 1 /\ UNCHANGED i
                                       ELSE i' = i + 1 /\ UNCHANGED <<pc, j>>
            /\ UNCHANGED <<in, tagValues, written, announced, closed, outcome>>

BuildItem ==
  /\ pc = "items" /\ j <= Len(in.files[i].items)
  /\ Judge("yaml", in.files[i].items[j], <<"file", i, j>>, j' = j + 1 /\ UNCHANGED <<pc, i>>)

CloseFile ==
  /\ pc = "items" /\ j > Len(in.files[i].items)
  /\ pc' = "files" /\ i' = i + 1
  /\ UNCHANGED <<in, j, tagValues, written, announced, closed, outcome>>

FilesDone ==
  /\ pc = "files" /\ i > Len(in.files)
  /\ pc' = "gates" /\ i' = 1
  /\ UNCHANGED <<in, j, tagValues, written, announced, closed, outcome>>

-----------------------------------------------------------------------------
(* checkGates: every gate is evaluated, on a build of its own, which may   *)
(* fail although the first one did not.                                    *)

GatesUnloadable ==
  /\ pc = "gates" /\ i = 1
  /\ pc' = "done" /\ outcome' = "gateFailed"
  /\ UNCHANGED <<in, i, j, tagValues, written, announced, closed>>

(* Mutant of Open: a gate that does not evaluate to a Boolean lets pass. *)
OpenUnlessFalse(gate) == gate # "false"

Open(gate) == gate = "true"

CheckGate ==
  /\ pc = "gates" /\ i <= Len(in.gates)
  /\ closed' = IF Open(in.gates[i]) THEN closed ELSE closed \cup {i}
  /\ i' = i + 1
  /\ UNCHANGED <<in, pc, j, tagValues, written, announced, outcome>>

GatesDone ==
  /\ pc = "gates" /\ i > Len(in.gates)
  /\ pc' = "done"
  /\ outcome' = IF closed = {} THEN "apply" ELSE "gateFailed"
  /\ UNCHANGED <<in, i, j, tagValues, written, announced, closed>>

Done == pc = "done" /\ UNCHANGED vars

Next ==
  \/ Load \/ LoadFails \/ BuildExpr \/ ExprsDone \/ BuildValue
  \/ OpenFile \/ BuildItem \/ CloseFile \/ FilesDone
  \/ GatesUnloadable \/ CheckGate \/ GatesDone \/ Done

Spec == Init /\ [][Next]_vars

-----------------------------------------------------------------------------
(* The documents a validation may judge, whatever their kind, with their   *)
(* types; Payload: those that carry objects.                               *)
ExprIds == {<<"expr", n, 1>> : n \in 1 .. Len(in.exprs)}
FileIds == UNION {{<<"file", n, m>> : m \in Documents(in.files[n])} : n \in 1 .. Len(in.files)}
ValueIds == IF in.exprs = <<>> THEN {<<"value", 1, 1>>} ELSE {}

Doc(id) ==
  IF id[1] = "expr" THEN in.exprs[id[2]]
  ELSE IF id[1] = "file" THEN in.files[id[2]].items[id[3]] ELSE in.value

TypeOf(id) == IF id[1] = "file" THEN "yaml" ELSE "cue"
Invalid == {id \in ExprIds \cup FileIds \cup ValueIds : Rejected(TypeOf(id), Doc(id))}
Payload == {id \in ExprIds \cup FileIds : Doc(id).kind # "other"}

(* Every variable has its type. *)
TypeOK ==
  /\ in \in Input
  /\ pc \in {"load", "exprs", "value", "files", "items", "gates", "done"}
  /\ i \in Nat /\ j \in Nat
  /\ written \subseteq Payload
  /\ announced \subseteq Invalid
  /\ closed \subseteq 1 .. Len(in.gates)
  /\ outcome \in {"none", "buildFailed", "gateFailed", "apply"}

(* types.go, the policies: of the expressions and files, a build that goes *)
(* on has written all but what Drop rejects, each wherever it stands in    *)
(* the nested loops, whose `continue` belongs to one loop or the other.    *)
BuildsByPolicy ==
  outcome \in {"apply", "gateFailed"} =>
    written = IF in.validate.mode = "Drop" THEN Payload \ Invalid ELSE Payload

(* Under Fail one invalid document, the last as well as the first, keeps   *)
(* the whole build from the cluster.                                       *)
FailsWhole == outcome = "apply" /\ in.validate.mode = "Fail" => Invalid = {}

(* Drop and Audit report every document they let go, and only those;       *)
(* Ignore reports none.                                                    *)
ReportsInvalid ==
  outcome \in {"apply", "gateFailed"} =>
    announced = IF in.validate.mode \in {"Drop", "Audit"} THEN Invalid ELSE {}

(* GateExpr: nothing is applied unless every gate evaluates to true. *)
GatesHold == outcome = "apply" => \A n \in 1 .. Len(in.gates) : in.gates[n] = "true"

(* A document the loops have come past. *)
Visited(id) ==
  \/ pc \in {"gates", "done"}
  \/ id[1] \in {"value", "expr"} /\ pc \in {"files", "items"}
  \/ id[1] = "expr" /\ pc = "exprs" /\ id[2] < i
  \/ id[1] = "file" /\ pc \in {"files", "items"} /\ id[2] < i
  \/ id[1] = "file" /\ pc = "items" /\ id[2] = i /\ id[3] < j

(* Where the loops may be. *)
Loops ==
  /\ in \in Input
  /\ \A n \in 1 .. Len(in.files) : in.files[n].kind = "struct" => Len(in.files[n].items) = 1
  /\ pc \in {"load", "exprs", "value", "files", "items", "gates", "done"}
  /\ i \in Nat \ {0} /\ j \in Nat \ {0}
  /\ pc = "load" => i = 1
  /\ pc = "exprs" => in.exprs # <<>>
  /\ pc = "value" => in.exprs = <<>>
  /\ pc = "items" => i <= Len(in.files) /\ Documents(in.files[i]) # {}
  /\ outcome \in {"none", "buildFailed", "gateFailed", "apply"}
  /\ outcome = "none" <=> pc # "done"

WrittenSoFar ==
  written = {id \in Payload : Visited(id) /\ (in.validate.mode = "Drop" => id \notin Invalid)}

AnnouncedSoFar ==
  announced = {id \in Invalid : Visited(id) /\ in.validate.mode \in {"Drop", "Audit"}}

NoneFailed == in.validate.mode = "Fail" => \A id \in Invalid : ~Visited(id)

GatesSoFar ==
  /\ closed \subseteq 1 .. Len(in.gates)
  /\ pc \notin {"gates", "done"} => closed = {}
  /\ pc = "gates" => closed = {n \in 1 .. Len(in.gates) : n < i /\ in.gates[n] # "true"}

(* The inductive invariant: half-way through the loops, what is written,   *)
(* reported and refused is already what the policy says of the documents   *)
(* the loops have come past.                                               *)
BuildInv ==
  /\ Loops /\ GatesSoFar /\ GatesHold
  /\ outcome # "buildFailed" => WrittenSoFar /\ AnnouncedSoFar /\ NoneFailed

(* types.go, DropPolicy: "continue to reconcile valid objects". *)
DropKeepsValid ==
  outcome = "apply" /\ in.validate.mode = "Drop" =>
    \A id \in ValueIds : Doc(id).kind # "other" /\ id \notin Invalid => id \in written

(* types.go: "TagVars that will be available to the CUE instance": each by *)
(* its own value.                                                          *)
TagVarsAvailable ==
  pc \in {"exprs", "value"} =>
    \A name \in TagNames :
      \E n \in 1 .. Len(in.tagVars) :
        in.tagVars[n] = [name |-> name, value |-> tagValues[name]]
=============================================================================
