------------------------------ MODULE MCCondVar -----------------------------
(* TLC instances of CondVar. *)
EXTENDS CondVar, TLC

FairSpec == Spec /\ Fairness
=============================================================================
