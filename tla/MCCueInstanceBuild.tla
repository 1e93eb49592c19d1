------------------------- MODULE MCCueInstanceBuild -------------------------
(* Small inputs of CueInstanceBuild for TLC. *)
EXTENDS CueInstanceBuild, FiniteSets

UpTo(n, S) == UNION {[1 .. m -> S] : m \in 0 .. n}

Good == [kind |-> "struct", encodes |-> TRUE, valid |-> TRUE]
Bad  == [Good EXCEPT !.valid = FALSE]
Missing == [kind |-> "other", encodes |-> FALSE, valid |-> FALSE]
Incomplete == [kind |-> "list", encodes |-> FALSE, valid |-> FALSE]

YamlFile(kind, items) == [yaml |-> TRUE, reads |-> TRUE, kind |-> kind, items |-> items]
Files ==
  {YamlFile("list", items) : items \in UpTo(2, {Good, Bad})}
    \cup {YamlFile("struct", <<Good>>), YamlFile("struct", <<Bad>>), YamlFile("other", <<>>)}
Unreadable == [YamlFile("other", <<>>) EXCEPT !.reads = FALSE]
Torn == YamlFile("list", <<Good, [Good EXCEPT !.encodes = FALSE]>>)
TextFile == [YamlFile("other", <<>>) EXCEPT !.yaml = FALSE]

Policies == [type : {"none", "cue", "yaml"}, mode : Modes]

Plain ==
  [loads |-> TRUE, tagVars |-> <<>>, validate |-> [type |-> "none", mode |-> "Audit"],
   exprs |-> <<Good>>, value |-> Good, files |-> <<>>, gates |-> <<>>]

(* Every policy with up to two expressions and two files of up to two items. *)
PolicyInputs ==
  {[Plain EXCEPT !.validate = p, !.exprs = es, !.files = fs] :
     p \in Policies, es \in UpTo(2, {Good, Bad}), fs \in UpTo(2, Files)}

(* What fails to load, read or encode, and what encodes to nothing. *)
FailureInputs ==
  {[Plain EXCEPT !.loads = l, !.validate = p, !.exprs = es, !.value = v, !.files = fs] :
     l \in BOOLEAN, p \in Policies, es \in UpTo(2, {Good, Incomplete}) \cup {<<Missing>>},
     v \in {Good, Bad, Missing, Incomplete},
     fs \in UpTo(2, {YamlFile("struct", <<Good>>), Torn, Unreadable, TextFile})}

GateInputs == {[Plain EXCEPT !.gates = gs] : gs \in UpTo(3, {"true", "false", "error"})}

TagInputs ==
  {[Plain EXCEPT !.tagVars = ts] :
     ts \in UpTo(2, [name : {"env", "region"}, value : {"prod", "eu"}])}

AllInputs == PolicyInputs \cup FailureInputs \cup GateInputs
=============================================================================
