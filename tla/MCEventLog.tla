----------------------------- MODULE MCEventLog -----------------------------
(* EventLog on a small instance: the events and the connections are          *)
(* interchangeable.                                                          *)
EXTENDS EventLog

Symmetry == Permutations(Events) \union Permutations(Streams)
=============================================================================
