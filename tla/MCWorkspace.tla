----------------------------- MODULE MCWorkspace -----------------------------
(* What a user works with: the queue and the lock of those who write a file  *)
(* (FileMutationLock), with three calls of one process, and with one call of *)
(* each of three processes; checkpoints of all files                         *)
(* (Checkpoints), with one checkpoint and one restore or fork; and the chat  *)
(* (ChatStore), with two threads and two messages. They share no state: one  *)
(* of them is chosen in the initial state, and the others stay as they are.  *)
(* Their sets share model values, which are interchangeable in all of them.  *)
EXTENDS FileMutationLock, ChatStore, Checkpoints, TLC

CONSTANTS c1, c2, c3, c4, c5, p1, p2, p3

ThreeProcs == (c1 :> p1) @@ (c2 :> p1) @@ (c3 :> p1) @@ (c4 :> p2) @@ (c5 :> p3)

VARIABLE part

\* Where the checkpoints are not looked at, the files are those of the commit.
WorkspaceInit ==
  /\ part \in {"queue", "lock", "checkpoints", "chat"} /\ Init /\ RewindInit /\ ChatInit
  /\ part \notin {"queue", "lock"} => exists
  /\ part # "checkpoints" => \E v \in Contents : /\ head = [p \in Paths |-> v]
                                               /\ places["main"] = [index |-> head, work |-> head]

WorkspaceNext ==
  /\ UNCHANGED part
  /\ \/ part \in {"queue", "lock"} /\ Next   /\ UNCHANGED <<rewindVars, chatVars>>
     \/ part = "checkpoints" /\ RewindNext /\ UNCHANGED <<vars, chatVars>>
     \/ part = "chat"        /\ ChatNext   /\ UNCHANGED <<vars, rewindVars>>

WorkspaceSpec == WorkspaceInit /\ [][WorkspaceNext]_<<part, vars, rewindVars, chatVars>>

Symmetry == {p @@ c : p \in Permutations(Paths), c \in Permutations(Contents)}

\* The calls of one process are looked at for the queue, one of each for the lock.
\* Nothing is said of a checkpoint that somebody disturbed while it was made, nor of
\* a restore or fork that was disturbed, nor of a chat when all that its invariants
\* except has happened. The two threads have four events between them.
Bound == /\ \A c \in Calls :
              pc[c] # "idle" => c \in IF part = "queue" THEN {c1, c2, c3} ELSE {c1, c4, c5}
         /\ \A c \in DOMAIN captures : captures[c] = "kept" => given[c] # None
         /\ \A j \in DOMAIN job : job[j].at # "none" => j \in fair
         /\ ~(crossed /\ (overlap \/ early))
         /\ MapThenSumSet(LAMBDA t : Len(log[t]), Threads) <= 4
=============================================================================
