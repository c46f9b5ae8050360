------------------------ MODULE UserInputGateProofs ------------------------
(***************************************************************************)
(* UserInputGate, proved for any questions and posts: the gate knows the   *)
(* questions that wait, and an answer that was accepted is the answer.     *)
(***************************************************************************)
EXTENDS UserInputGate, TLAPS

\* A post that was made has a question; a question that goes on has a post.
Linked ==
  /\ \A p \in Posts : post[p] # "off" => about[p] \in Inputs
  /\ \A p \in Posts : said[p] # "nothing" => post[p] = "done"
  /\ \A i \in Inputs : wait[i] \in {"given", "done"} => outcome[i] \in Posts

Inv == TypeOK /\ Linked /\ PendingIsWaitedFor /\ AnswerStands

LEMMA InvInit == Init => Inv
<1> SUFFICES ASSUME Init PROVE Inv
  OBVIOUS
<1>1. TypeOK
  BY DEF Init, TypeOK, Kinds
<1> QED
  BY <1>1 DEF Init, Inv, Linked, PendingIsWaitedFor, AnswerStands

\* The steps of the question's own call.
LEMMA WaitInv ==
  ASSUME Inv, NEW i \in Inputs, Wait(i)
  PROVE  Inv'
<1>t. TypeOK /\ Linked /\ PendingIsWaitedFor /\ AnswerStands
  BY DEF Inv
<1>1. CASE Announce(i) \/ Request(i)
  <2>1. TypeOK'
    BY <1>t, <1>1 DEF Announce, Request, TypeOK, postVars
  <2>2. Linked' /\ PendingIsWaitedFor' /\ AnswerStands'
    BY <1>t, <1>1 DEF Announce, Request, TypeOK, Linked, PendingIsWaitedFor, AnswerStands, postVars
  <2> QED
    BY <2>1, <2>2 DEF Inv
<1>2. CASE Abort(i)
  <2>1. TypeOK'
    BY <1>t, <1>2 DEF Abort, TypeOK, postVars
  <2>2. Linked' /\ PendingIsWaitedFor' /\ AnswerStands'
    BY <1>t, <1>2 DEF Abort, TypeOK, Linked, PendingIsWaitedFor, AnswerStands, postVars
  <2> QED
    BY <2>1, <2>2 DEF Inv
<1>3. CASE Update(i)
  <2>1. kind[outcome[i]] \in Kinds
    BY <1>t, <1>3 DEF Update, TypeOK, Linked
  <2>2. TypeOK'
    BY <1>t, <1>3, <2>1 DEF Update, TypeOK, postVars
  <2>3. Linked' /\ PendingIsWaitedFor'
    BY <1>t, <1>3 DEF Update, TypeOK, Linked, PendingIsWaitedFor, postVars
  <2>4. AnswerStands'
    BY <1>t, <1>3 DEF Update, TypeOK, Linked, AnswerStands, postVars
  <2> QED
    BY <2>2, <2>3, <2>4 DEF Inv
<1> QED
  BY <1>1, <1>2, <1>3 DEF Wait

\* What an accepted answer changes.
LEMMA GiveInv ==
  ASSUME Inv, NEW p \in Posts, NEW i \in Inputs, i \in requests, said[p] = "nothing",
         Give(p, i), about' = [about EXCEPT ![p] = i], kind' \in [Posts -> Kinds],
         \A q \in Posts \ {p} : kind'[q] = kind[q],
         UNCHANGED <<aborted, item>>
  PROVE  Inv'
<1>t. TypeOK /\ Linked /\ PendingIsWaitedFor /\ AnswerStands
  BY DEF Inv
<1>1. TypeOK'
  BY <1>t DEF Give, Tell, TypeOK
<1>2. Linked' /\ PendingIsWaitedFor'
  BY <1>t DEF Give, Tell, TypeOK, Linked, PendingIsWaitedFor
<1>3. AnswerStands'
  <2>1. wait[i] = "waiting"
    BY <1>t DEF PendingIsWaitedFor
  <2>2. \A q \in Posts \ {p} : said[q] = "ok" => about[q] # i
    BY <1>t, <2>1 DEF AnswerStands
  <2>3. ASSUME NEW q \in Posts \ {p}, said'[q] = "ok"
        PROVE  /\ outcome'[about'[q]] = q /\ wait'[about'[q]] \in {"given", "done"}
               /\ wait'[about'[q]] = "done" => item'[about'[q]] = kind'[q]
    <3>1. said[q] = "ok" /\ about'[q] = about[q] /\ about[q] \in Inputs
      BY <1>t, <2>3 DEF Give, Tell, TypeOK, Linked
    <3> QED
      BY <1>t, <2>2, <3>1 DEF Give, TypeOK, AnswerStands
  <2>4. about'[p] = i /\ outcome'[i] = p /\ wait'[i] = "given"
    BY <1>t DEF Give, TypeOK
  <2> QED
    BY <2>3, <2>4 DEF AnswerStands
<1> QED
  BY <1>1, <1>2, <1>3 DEF Inv

LEMMA PostInv ==
  ASSUME Inv, NEW p \in Posts, NEW i \in Inputs, NEW k \in Kinds, Post(p, i, k)
  PROVE  Inv'
<1>t. TypeOK /\ Linked /\ PendingIsWaitedFor /\ AnswerStands
  BY DEF Inv
<1>s. post[p] = "off" /\ said[p] = "nothing"
  BY <1>t DEF Post, TypeOK, Linked
<1>1. CASE i \in requests /\ k = "cancelled"
  <2>1. Give(p, i) /\ kind' \in [Posts -> Kinds] /\ \A q \in Posts \ {p} : kind'[q] = kind[q]
    BY <1>t, <1>1 DEF Post, TypeOK, Kinds
  <2> QED
    BY <1>1, <1>s, <2>1, GiveInv DEF Post
<1>2. CASE ~(i \in requests /\ k = "cancelled")
  <2>1. /\ UNCHANGED <<wait, aborted, item, requests, outcome>>
        /\ post'[p] \in {"hooks", "done"} /\ said'[p] \in {"nothing", "missing"}
        /\ said'[p] # "nothing" => post'[p] = "done"
        /\ about'[p] = i
        /\ \A q \in Posts \ {p} : /\ about'[q] = about[q] /\ kind'[q] = kind[q]
                                  /\ post'[q] = post[q] /\ said'[q] = said[q]
    BY <1>t, <1>2, <1>s DEF Post, Tell, TypeOK
  <2>2. TypeOK'
    BY <1>t, <1>2 DEF Post, Tell, TypeOK
  <2>3. Linked' /\ PendingIsWaitedFor' /\ AnswerStands'
    BY <1>t, <2>1 DEF TypeOK, Linked, PendingIsWaitedFor, AnswerStands
  <2> QED
    BY <2>2, <2>3 DEF Inv
<1> QED
  BY <1>1, <1>2

LEMMA ResolveInv ==
  ASSUME Inv, NEW p \in Posts, Resolve(p)
  PROVE  Inv'
<1>t. TypeOK /\ Linked /\ PendingIsWaitedFor /\ AnswerStands
  BY DEF Inv
<1>s. about[p] \in Inputs /\ said[p] = "nothing"
  BY <1>t DEF Resolve, TypeOK, Linked
<1>1. CASE about[p] \in requests
  <2>1. Give(p, about[p]) /\ about' = [about EXCEPT ![p] = about[p]]
    BY <1>t, <1>1 DEF Resolve, TypeOK
  <2>2. kind' \in [Posts -> Kinds] /\ \A q \in Posts \ {p} : kind'[q] = kind[q]
    BY <1>t DEF Resolve, TypeOK
  <2> QED
    BY <1>1, <1>s, <2>1, <2>2, GiveInv DEF Resolve
<1>2. CASE about[p] \notin requests
  BY <1>t, <1>2 DEF Resolve, Tell, Inv, TypeOK, Linked, PendingIsWaitedFor, AnswerStands
<1> QED
  BY <1>1, <1>2

LEMMA InvStep == Inv /\ [Next]_vars => Inv'
<1> SUFFICES ASSUME Inv, [Next]_vars PROVE Inv'
  OBVIOUS
<1>1. CASE UNCHANGED vars
  BY <1>1 DEF vars, loopVars, postVars, Inv, TypeOK, Linked, PendingIsWaitedFor, AnswerStands
<1> QED
  BY <1>1, WaitInv, PostInv, ResolveInv DEF Next

\* UserInputGate keeps every variable in the range the code gives it.
THEOREM TypeCorrect == Spec => []TypeOK
<1>1. Inv => TypeOK
  BY DEF Inv
<1> QED
  BY <1>1, InvInit, InvStep, PTL DEF Spec

\* The gate knows exactly the questions that wait.
THEOREM PendingWaited == Spec => []PendingIsWaitedFor
<1>1. Inv => PendingIsWaitedFor
  BY DEF Inv
<1> QED
  BY <1>1, InvInit, InvStep, PTL DEF Spec

\* An answer whose client was told "ok" is the one the tool goes on with.
THEOREM Stands == Spec => []AnswerStands
<1>1. Inv => AnswerStands
  BY DEF Inv
<1> QED
  BY <1>1, InvInit, InvStep, PTL DEF Spec
=============================================================================
