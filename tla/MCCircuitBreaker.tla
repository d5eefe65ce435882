-------------------------- MODULE MCCircuitBreaker --------------------------
(* Instances of CircuitBreaker for TLC. *)
EXTENDS CircuitBreaker, TLC

\* Goroutines run the same code and no property names one of them.
ThreadSymmetry == Permutations(Threads)
=============================================================================
