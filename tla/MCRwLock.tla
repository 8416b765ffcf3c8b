------------------------------ MODULE MCRwLock ------------------------------
(* TLC instances of RwLock. *)
EXTENDS RwLock, TLC

=============================================================================
