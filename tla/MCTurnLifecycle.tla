-------------------------- MODULE MCTurnLifecycle --------------------------
(* TurnLifecycle on a small instance: two turns of one thread, or of two.    *)
EXTENDS TurnLifecycle, TLC

CONSTANTS t1, t2, h1, h2

OneThread == [t \in Turns |-> h1]
TwoThreads == (t1 :> h1) @@ (t2 :> h2)
Symmetry == Permutations(Turns) \union Permutations(Texts)
=============================================================================
