---------------------------- MODULE MCReconcile ----------------------------
(* Instances of Reconcile for TLC: a source branch of two changes.         *)
EXTENDS Reconcile

TwoChanges == <<"a", "b">>
=============================================================================
