--------------------------- MODULE MCSourceWatch ---------------------------
(* Small instances of SourceWatch for TLC. *)
EXTENDS SourceWatch, TLC

CONSTANTS a, b, r1, r2

(* b needs a. *)
Chain == (a :> {}) @@ (b :> {a})

(* a and b need each other. *)
Circle == (a :> {b}) @@ (b :> {a})

(* Nothing tells one revision from another. *)
RevisionSymmetry == Permutations({r1, r2})

(* Edits: two of a, or one. *)
EditATwice == (a :> 2) @@ (b :> 0)
EditAOnce == (a :> 1) @@ (b :> 0)
=============================================================================
