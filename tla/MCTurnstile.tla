---------------------------- MODULE MCTurnstile -----------------------------
(* TLC instances of Turnstile: LWPs 1 .. 4, and as many priorities.        *)
EXTENDS Turnstile, TLC

MCPrio == [l \in Lwp |-> l]
AnyTurnstile == Permutations(TS)
=============================================================================
