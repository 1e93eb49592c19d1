---------------------- MODULE MCCueInstanceReconciler ----------------------
(* Small instances of CueInstanceReconciler for TLC. *)
EXTENDS CueInstanceReconciler, TLC

CONSTANTS ns, app, job, r1, r2

(* The second revision drops job and brings the namespace. *)
MCContent == (r1 :> {app, job}) @@ (r2 :> {ns, app})

(* And where copies trail within a run: the second revision drops app, and *)
(* going back drops the namespace.                                         *)
SwapContent == (r1 :> {app}) @@ (r2 :> {ns})

(* One revision is enough where only the informer's lag is at stake. *)
LagContent == r1 :> {ns, app}

SpecOf(prune, suspend, wait, checks) ==
  [prune |-> prune, suspend |-> suspend, wait |-> wait, healthChecks |-> checks]

(* One prunes and waits for everything; the other keeps, and checks app. *)
ActiveSpecs == {SpecOf(TRUE, FALSE, TRUE, {}), SpecOf(FALSE, FALSE, FALSE, {app})}

(* One prunes and waits for everything, the other does neither. *)
PlainSpecs == {SpecOf(TRUE, FALSE, TRUE, {}), SpecOf(FALSE, FALSE, FALSE, {})}

(* A user who suspends and resumes a CueInstance that prunes. *)
SuspendSpecs == {SpecOf(TRUE, FALSE, FALSE, {}), SpecOf(TRUE, TRUE, FALSE, {})}
=============================================================================
