------------------------------ MODULE MCDesktop ------------------------------
(* The desktop and its runtime: the event path of a thread (EventLog) and    *)
(* the runtime as a child process (KunProcess), each on a small instance.    *)
(* They share no state: one of them is chosen in the initial state, and the  *)
(* other stays as it is. The callers of ensureRuntime have the model values  *)
(* of the streams, which are interchangeable in both.                        *)
EXTENDS EventLog, KunProcess

VARIABLE part

DesktopInit == part \in {"events", "process"} /\ Init /\ ProcessInit

DesktopNext ==
  /\ UNCHANGED part
  /\ \/ part = "events"  /\ Next        /\ UNCHANGED processVars
     \/ part = "process" /\ ProcessNext /\ UNCHANGED vars

DesktopSpec == DesktopInit /\ [][DesktopNext]_<<part, vars, processVars>>

Symmetry == Permutations(Events) \union Permutations(Streams)
=============================================================================
