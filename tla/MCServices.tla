----------------------------- MODULE MCServices -----------------------------
(* Services of the runtime: the approval gate (ApprovalGate), the loop       *)
(* scheduler (LoopScheduler), the goal of a thread (GoalEvaluation) and the  *)
(* files of its session (SessionStore), each on a small instance. They share *)
(* no state: one of them is chosen in the initial state, and the others stay *)
(* as they are.                                                              *)
(*                                                                           *)
(* Approvals: two calls share an id, and one has its own.                    *)
(* Loops: the first call creates a loop that runs once and is skipped when   *)
(* its thread is busy, the second creates one or ends one, the third changes *)
(* one; all have one thread. Once no call is left to come, ticks that begin  *)
(* are not followed. Goals: what follows a crossing is not explored.         *)
(* Session: all calls are about one of its two files, which share nothing,   *)
(* and time passes for the events only.                                      *)
EXTENDS ApprovalGate, LoopScheduler, GoalEvaluation, SessionStore, TLC

CONSTANTS c1, c2, c3, i1, i2,
          As, Bs  \* turns, ticks, models and posts; objectives and items

VARIABLE part

SharedId  == (c1 :> i1) @@ (c2 :> i1) @@ (c3 :> i2)
LoopOps   == (c1 :> {"create"}) @@ (c2 :> {"create", "cancel", "delete"})
               @@ (c3 :> {"pause", "resume", "cancel", "activate"})
OneThread == [i \in 1..3 |-> "thread"]
AnyOp     == [c \in StoreCalls |-> EventOps \union ItemOps]

ServicesInit == /\ part \in {"approvals", "loops", "goals", "session"}
                /\ Init /\ LoopInit /\ GoalInit /\ SessionInit

ServicesNext ==
  /\ UNCHANGED part
  /\ \/ part = "approvals" /\ Next         /\ UNCHANGED <<loopVars, goalVars, sessionVars>>
     \/ part = "loops"     /\ LoopNext     /\ UNCHANGED <<vars, goalVars, sessionVars>>
     \/ part = "goals"     /\ GoalNext     /\ UNCHANGED <<vars, loopVars, sessionVars>>
     \/ part = "session"   /\ SessionNext  /\ UNCHANGED <<vars, loopVars, goalVars>>

ServicesSpec == ServicesInit /\ [][ServicesNext]_<<part, vars, loopVars, goalVars, sessionVars>>

Symmetry == Permutations(As) \union Permutations(Bs)
Bound == /\ (\E c \in Clients : pc[c] = "idle") \/ (\A t \in Ticks : pc[t] = "idle")
         /\ ~crossed
         /\ LET begun == {c \in StoreCalls : progress[c] # "idle"}
            IN  \/ \A c \in begun : asked[c] \in EventOps
                \/ now = 0 /\ \A c \in begun : asked[c] \in ItemOps
=============================================================================
