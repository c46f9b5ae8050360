---------------------------- MODULE MCDelegation ----------------------------
(* What the loop hands to others: child agents (DelegationRuntime), three    *)
(* calls of which the third has a parent thread of its own, and requests to  *)
(* the model (RequestHistory). They share no state: one of them is chosen in *)
(* the initial state, and the others stay as they are.                       *)
(*                                                                           *)
(* Requests, wide: two calls in a response, which may come to anything the   *)
(* code has, seen by one more request. Requests, long: one call in a         *)
(* response, its name used again, seen by two more requests. Both have one   *)
(* fault or one fold. What follows the last request is not explored.         *)
EXTENDS DelegationRuntime, RequestHistory, TLC

CONSTANTS r1, r2, r3, t1, t2, c1, c2, c3

TwoThreads == (r1 :> t1) @@ (r2 :> t1) @@ (r3 :> t2)

\* Beside its calls, a wide response says nothing or thinks and answers.
WideSays == {<<>>, <<"reasoning", "text">>}

VARIABLE part

Long == INSTANCE RequestHistory WITH
          CallIds <- {c3},
          Says <- {<<"text">>}, Ways <- {"result", "partial", "refused"},
          MaxSteps <- 3, MaxCalls <- 1, Keeps <- {1, 2}

DelegationInit == part \in {"children", "wide", "long"} /\ Init /\ RequestInit

DelegationNext ==
  /\ UNCHANGED part
  /\ \/ part = "children" /\ Next      /\ UNCHANGED requestVars
     \/ part = "wide"     /\ RequestNext /\ UNCHANGED vars
     \/ part = "long"     /\ Long!RequestNext /\ UNCHANGED vars

DelegationSpec == DelegationInit /\ [][DelegationNext]_<<part, vars, requestVars>>

\* Requests only.
RequestsSpec == DelegationInit /\ part = "wide" /\ [][DelegationNext]_<<part, vars, requestVars>>

Symmetry == Permutations({r1, r2}) \union Permutations({c1, c2})
Bound == /\ step < (IF part = "long" THEN 3 ELSE 2)
         /\ folds + faults < 2

=============================================================================
