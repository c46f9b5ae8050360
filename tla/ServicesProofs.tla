------------------------- MODULE ServicesProofs -------------------------
(***************************************************************************)
(* ApprovalGate, GoalEvaluation, LoopScheduler and SessionStore, proved for *)
(* any calls, ids, posts, turns, clients, ticks, budgets, limits, items and *)
(* models: ids that several calls share, failed writes and restarts         *)
(* included.                                                                *)
(***************************************************************************)
EXTENDS ApprovalGate, LoopScheduler, GoalEvaluation, SessionStore,
        FiniteSetTheorems, WellFoundedInduction, SequenceTheorems, TLAPS

-----------------------------------------------------------------------------
(* ApprovalGate *)

\* A resolver belongs to a call that waits under its id, its record is pending,
\* and nothing else is pending.
ResolverInv ==
  \A i \in Ids :
    /\ resolvers[i] # None =>
         call[resolvers[i]] = "waiting" /\ IdOf[resolvers[i]] = i /\ approvals[i] = "pending"
    /\ approvals[i] = "pending" => resolvers[i] # None

\* A post in the hooks has a call and a decision; one that has not been answered
\* has no answer.
PostInv ==
  \A p \in Posts :
    /\ post[p] \in {"hooks", "vetoed", "decided"} => about[p] # None /\ decision[p] \in Decisions
    /\ post[p] # "done" => answer[p] = "none"

Inv == TypeOK /\ ResolverInv /\ PostInv /\ AllowedByPost

LEMMA InvInit == Init => Inv
  BY GateAssumption DEF Init, Inv, TypeOK, ResolverInv, PostInv, AllowedByPost, Ids

LEMMA InvStep == Inv /\ [Next]_vars => Inv'
<1> SUFFICES ASSUME Inv, [Next]_vars PROVE Inv'
  OBVIOUS
<1>i. \A c \in Calls : IdOf[c] \in Ids
  BY DEF Ids
<1>1. CASE UNCHANGED vars
  BY <1>1 DEF vars, postVars, Inv, TypeOK, ResolverInv, PostInv, AllowedByPost
<1>2. ASSUME NEW c \in Calls, Announce(c) PROVE Inv'
  <2>1. TypeOK'
    BY <1>2 DEF Announce, postVars, Inv, TypeOK
  <2>2. ResolverInv'
    BY <1>2 DEF Announce, postVars, Inv, TypeOK, ResolverInv
  <2>3. PostInv' /\ AllowedByPost'
    BY <1>2 DEF Announce, postVars, Inv, TypeOK, PostInv, AllowedByPost
  <2> QED
    BY <2>1, <2>2, <2>3 DEF Inv
<1>3. ASSUME NEW c \in Calls, Request(c) PROVE Inv'
  <2>1. TypeOK'
    BY <1>3, <1>i DEF Request, postVars, Inv, TypeOK
  <2>2. ResolverInv'
    BY <1>3, <1>i, GateAssumption DEF Request, Inv, TypeOK, ResolverInv
  <2>3. PostInv' /\ AllowedByPost'
    BY <1>3 DEF Request, postVars, Inv, TypeOK, PostInv, AllowedByPost
  <2> QED
    BY <2>1, <2>2, <2>3 DEF Inv
<1>4. ASSUME NEW p \in Posts, NEW c \in Calls, NEW d \in Decisions, Post(p, c, d) PROVE Inv'
  <2>1. TypeOK'
    BY <1>4 DEF Post, Finish, Go, Inv, TypeOK
  <2>2. ResolverInv'
    BY <1>4 DEF Post, Inv, ResolverInv
  <2>3. /\ \A q \in Posts : q # p => /\ post'[q] = post[q] /\ about'[q] = about[q]
                                     /\ decision'[q] = decision[q] /\ answer'[q] = answer[q]
        /\ about'[p] = c /\ decision'[p] = d /\ post[p] = "off" /\ call' = call
        /\ giver' = giver
        /\ post'[p] = "done" \/ answer'[p] = answer[p]
    BY <1>4 DEF Post, Finish, Go, Inv, TypeOK
  <2>4. PostInv'
    BY <2>3, GateAssumption DEF Inv, PostInv
  <2>5. AllowedByPost'
    <3> SUFFICES ASSUME NEW e \in Calls, call'[e] = "allow"
                 PROVE  /\ giver'[e] # None /\ about'[giver'[e]] # None
                        /\ IdOf[about'[giver'[e]]] = IdOf[e]
                        /\ decision'[giver'[e]] = "allow"
                        /\ post'[giver'[e]] = "decided" \/ answer'[giver'[e]] \in {"allowed", "error"}
      BY DEF AllowedByPost
    <3>1. /\ giver[e] # None /\ about[giver[e]] # None /\ IdOf[about[giver[e]]] = IdOf[e]
          /\ decision[giver[e]] = "allow"
          /\ post[giver[e]] = "decided" \/ answer[giver[e]] \in {"allowed", "error"}
      BY <2>3 DEF Inv, AllowedByPost
    <3>2. giver[e] \in Posts /\ giver[e] # p
      BY <3>1, <2>3 DEF Inv, TypeOK, PostInv
    <3> QED
      BY <2>3, <3>1, <3>2
  <2> QED
    BY <2>1, <2>2, <2>4, <2>5 DEF Inv
<1>5. ASSUME NEW p \in Posts, HookVeto(p) \/ Answer(p) PROVE Inv'
  <2>1. /\ UNCHANGED <<call, approvals, resolvers, about, decision, giver>>
        /\ post[p] \in {"hooks", "vetoed", "decided"}
        /\ \A q \in Posts : q # p => post'[q] = post[q] /\ answer'[q] = answer[q]
        /\ \/ post[p] = "hooks" /\ post'[p] = "vetoed" /\ answer'[p] = answer[p]
           \/ post'[p] = "done" /\ answer'[p] = "error"
           \/ post'[p] = "done" /\ post[p] = "decided" /\ answer'[p] = StatusOf(decision[p])
           \/ post'[p] = "done" /\ post[p] = "vetoed"
    BY <1>5 DEF HookVeto, Answer, Finish, Go, Inv, TypeOK
  <2>2. TypeOK'
    <3>1. StatusOf(decision[p]) \in {"allowed", "denied"}
      BY DEF StatusOf
    <3> QED
      BY <1>5, <3>1 DEF HookVeto, Answer, Finish, Go, Inv, TypeOK
  <2>3. ResolverInv'
    BY <2>1 DEF Inv, ResolverInv
  <2>4. PostInv'
    BY <2>1 DEF Inv, PostInv
  <2>5. AllowedByPost'
    <3> SUFFICES ASSUME NEW e \in Calls, call[e] = "allow"
                 PROVE  /\ giver[e] # None /\ about[giver[e]] # None
                        /\ IdOf[about[giver[e]]] = IdOf[e] /\ decision[giver[e]] = "allow"
                        /\ post'[giver[e]] = "decided" \/ answer'[giver[e]] \in {"allowed", "error"}
      BY <2>1 DEF AllowedByPost
    <3>1. /\ giver[e] # None /\ about[giver[e]] # None
          /\ IdOf[about[giver[e]]] = IdOf[e] /\ decision[giver[e]] = "allow"
          /\ post[giver[e]] = "decided" \/ answer[giver[e]] \in {"allowed", "error"}
          /\ giver[e] \in Posts
      BY DEF Inv, TypeOK, AllowedByPost
    <3>2. giver[e] = p => post[p] = "decided" /\ StatusOf(decision[p]) = "allowed"
      BY <2>1, <3>1 DEF Inv, PostInv, StatusOf
    <3> QED
      BY <2>1, <3>1, <3>2
  <2> QED
    BY <2>2, <2>3, <2>4, <2>5 DEF Inv
<1>6. ASSUME NEW p \in Posts, Decide(p) PROVE Inv'
  <2> DEFINE i == IdOf[about[p]]
             c == resolvers[i]
  <2>1. /\ about[p] \in Calls /\ i \in Ids /\ decision[p] \in Decisions \union {"none"}
        /\ StatusOf(decision[p]) \in {"allowed", "denied"}
    BY <1>6, <1>i DEF Decide, Inv, TypeOK, PostInv, StatusOf
  <2>2. /\ approvals' = [approvals EXCEPT ![i] = StatusOf(decision[p])]
        /\ resolvers' = [resolvers EXCEPT ![i] = None]
        /\ call' = [d \in Calls |-> IF d = c THEN decision[p] ELSE call[d]]
        /\ giver' = [d \in Calls |-> IF d = c THEN p ELSE giver[d]]
        /\ post' = [post EXCEPT ![p] = "decided"]
        /\ answer' = answer /\ about' = about /\ decision' = decision /\ post[p] = "hooks"
    BY <1>6 DEF Decide, Resolve, Go
  <2>3. decision[p] \in Decisions
    BY <2>2 DEF Inv, PostInv
  <2>4. TypeOK'
    BY <2>1, <2>2, <2>3 DEF Inv, TypeOK
  <2>5. ResolverInv'
    <3> SUFFICES ASSUME NEW j \in Ids
                 PROVE  /\ resolvers'[j] # None => /\ call'[resolvers'[j]] = "waiting"
                                                  /\ IdOf[resolvers'[j]] = j
                                                  /\ approvals'[j] = "pending"
                        /\ approvals'[j] = "pending" => resolvers'[j] # None
      BY DEF ResolverInv
    <3>1. CASE j = i
      BY <3>1, <2>1, <2>2 DEF Inv, TypeOK
    <3>2. CASE j # i
      <4>1. resolvers'[j] = resolvers[j] /\ approvals'[j] = approvals[j] /\ resolvers[j] \in Calls \union {None}
        BY <3>2, <2>2 DEF Inv, TypeOK
      <4>2. resolvers[j] # None => resolvers[j] # c
        BY <3>2, <2>1 DEF Inv, ResolverInv
      <4> QED
        BY <4>1, <4>2, <2>2 DEF Inv, ResolverInv
    <3> QED
      BY <3>1, <3>2
  <2>6. PostInv'
    BY <2>2 DEF Inv, TypeOK, PostInv
  <2>7. AllowedByPost'
    <3> SUFFICES ASSUME NEW d \in Calls, call'[d] = "allow"
                 PROVE  /\ giver'[d] # None /\ about'[giver'[d]] # None
                        /\ IdOf[about'[giver'[d]]] = IdOf[d]
                        /\ decision'[giver'[d]] = "allow"
                        /\ post'[giver'[d]] = "decided" \/ answer'[giver'[d]] \in {"allowed", "error"}
      BY DEF AllowedByPost
    <3>1. CASE d = c
      <4>1. IdOf[d] = i /\ giver'[d] = p /\ p # None
        BY <3>1, <2>1, <2>2, GateAssumption DEF Inv, ResolverInv
      <4>2. decision[p] = "allow" /\ post'[p] = "decided"
        BY <3>1, <2>2 DEF Inv, TypeOK
      <4> QED
        BY <4>1, <4>2, <2>1, <2>2, GateAssumption
    <3>2. CASE d # c
      <4>1. /\ giver'[d] = giver[d] /\ giver[d] # None /\ about[giver[d]] # None
            /\ IdOf[about[giver[d]]] = IdOf[d]
            /\ decision[giver[d]] = "allow"
            /\ post[giver[d]] = "decided" \/ answer[giver[d]] \in {"allowed", "error"}
        BY <3>2, <2>2 DEF Inv, AllowedByPost
      <4>2. giver[d] \in Posts /\ giver[d] # p
        BY <4>1, <2>2 DEF Inv, TypeOK, PostInv
      <4> QED
        BY <4>1, <4>2, <2>2 DEF Inv, TypeOK
    <3> QED
      BY <3>1, <3>2
  <2> QED
    BY <2>4, <2>5, <2>6, <2>7 DEF Inv
<1> QED
  BY <1>1, <1>2, <1>3, <1>4, <1>5, <1>6 DEF Next

LEMMA Invariant == Spec => []Inv
  BY InvInit, InvStep, PTL DEF Spec

\* ApprovalGate keeps every variable in the range the code gives it.
THEOREM TypeCorrect == Spec => []TypeOK
<1>1. Inv => TypeOK
  BY DEF Inv
<1> QED
  BY Invariant, <1>1, PTL

\* A call goes on only by a post for its id that allowed it and that no hook vetoed,
\* and whose client is told nothing else than that, or of an error.
THEOREM Allowed == Spec => []AllowedByPost
<1>1. Inv => AllowedByPost
  BY DEF Inv
<1> QED
  BY Invariant, <1>1, PTL

\* The pending approvals are those that somebody waits for.
THEOREM PendingWaited == Spec => []PendingIsWaitedFor
<1>1. Inv => PendingIsWaitedFor
  BY GateAssumption DEF Inv, TypeOK, ResolverInv, PendingIsWaitedFor
<1> QED
  BY Invariant, <1>1, PTL

-----------------------------------------------------------------------------
(* GoalEvaluation *)

Maybe == Goals \cup {NoGoal}

GoalTypeOK ==
  /\ goal \in Maybe
  /\ born \in 0..MaxGoals
  /\ timer \in [Turns -> [at : {"idle", "runs", "reads", "writes", "done"}, read : Maybe, new : {NoGoal}]]
  /\ eval \in [Turns -> [at : {"idle", "reads", "asks", "reads2", "writes", "done"}, read : Maybe,
                         new : Maybe \cup Statuses]]
  /\ setting \in [Setters -> [at : {"idle", "writes", "done"}, read : Maybe, new : Maybe]]
  /\ asks \in [1..MaxGoals -> Nat]
  /\ lost \in [1..MaxGoals -> Nat]
  /\ crossed \in BOOLEAN

\* A goal that is set is new, or keeps its birth and its count.
LEMMA SetKeeps ==
  ASSUME GoalTypeOK, NEW r \in Requests, goal = NoGoal => r \in Objectives /\ born < MaxGoals
  PROVE  /\ goal = NoGoal => /\ Set(r) \in Goals
                             /\ Set(r).born = born + 1 /\ Set(r).iterations = 0
         /\ goal # NoGoal => \/ Set(r) = NoGoal
                             \/ /\ Set(r) \in Goals
                                /\ Set(r).born = goal.born /\ Set(r).iterations = goal.iterations
<1> USE GoalAssumption DEF GoalAssumption
<1>1. CASE goal = NoGoal
  <2>1. Set(r) = [born |-> born + 1, objective |-> r, status |-> "active", iterations |-> 0]
    BY <1>1 DEF Set
  <2>2. born + 1 \in 1..MaxGoals
    BY <1>1 DEF GoalTypeOK
  <2> QED
    BY <1>1, <2>1, <2>2 DEF Goals, Statuses
<1>2. CASE goal # NoGoal
  <2>1. goal \in Goals
    BY <1>2 DEF GoalTypeOK, Maybe
  <2>2. CASE r = "clear"
    <3>1. r \notin Statuses /\ r \notin Objectives
      BY <2>2 DEF Statuses
    <3> QED
      BY <1>2, <2>2, <3>1 DEF Set
  <2>3. CASE r \in Statuses
    <3>1. Set(r) = [goal EXCEPT !.status = r]
      BY <1>2, <2>3 DEF Set, Statuses
    <3> QED
      BY <1>2, <2>1, <2>3, <3>1 DEF Goals
  <2>4. CASE r \in Objectives
    <3>1. Set(r) = [goal EXCEPT !.objective = r, !.status = "active"]
      BY <1>2, <2>4 DEF Set
    <3> QED
      BY <1>2, <2>1, <2>4, <3>1 DEF Goals, Statuses
  <2> QED
    BY <2>2, <2>3, <2>4 DEF Requests
<1> QED
  BY <1>1, <1>2

Evaluating(t) == eval[t].at \in {"asks", "reads2", "writes"}

\* An evaluation begins when its turn ends, and keeps the goal it was asked about;
\* what a call writes is a new goal, none, or the goal it read with its count.
GoalSteps ==
  /\ \A t \in Turns :
       /\ eval[t].at # "idle" => timer[t].at \in {"reads", "writes", "done"}
       /\ Evaluating(t) => eval[t].read \in Goals
       /\ eval[t].at = "reads2" => eval[t].new \in Statuses
       /\ eval[t].at = "writes" => /\ eval[t].new \in Goals /\ eval[t].new.born = eval[t].read.born
  /\ \A c \in Setters : setting[c].at = "writes" =>
       \/ /\ setting[c].read = NoGoal /\ setting[c].new \in Goals
          /\ setting[c].new.born <= born /\ setting[c].new.iterations = 0
       \/ setting[c].read \in Goals /\ setting[c].new = NoGoal
       \/ /\ setting[c].read \in Goals /\ setting[c].new \in Goals
          /\ setting[c].new.born = setting[c].read.born
          /\ setting[c].new.iterations = setting[c].read.iterations

LEMMA GoalReachInit == GoalInit => GoalTypeOK /\ GoalSteps
<1> SUFFICES ASSUME GoalInit PROVE GoalTypeOK /\ GoalSteps
  OBVIOUS
<1>1. goal = NoGoal /\ born \in 0..MaxGoals /\ NoGoal \in Maybe
  BY GoalAssumption DEF GoalInit, Maybe
<1>2. GoalTypeOK
  BY <1>1 DEF GoalInit, GoalTypeOK, Idle
<1>3. GoalSteps
  BY DEF GoalInit, GoalSteps, Evaluating, Idle
<1> QED
  BY <1>2, <1>3

LEMMA GoalReachStep ==
  ASSUME GoalTypeOK, GoalSteps, [GoalNext]_goalVars
  PROVE  GoalTypeOK' /\ GoalSteps'
<1> USE DEF Maybe
<1>g. NoGoal \notin Goals
  BY GoalAssumption
<1>1. CASE UNCHANGED goalVars
  BY <1>1 DEF goalVars, GoalTypeOK, GoalSteps, Evaluating
<1>2. ASSUME NEW t \in Turns, BeginTurn(t) PROVE GoalTypeOK' /\ GoalSteps'
  <2>1. GoalTypeOK'
    BY <1>2 DEF BeginTurn, Idle, GoalTypeOK
  <2>2. GoalSteps'
    BY <1>2 DEF BeginTurn, Idle, GoalTypeOK, GoalSteps, Evaluating
  <2> QED
    BY <2>1, <2>2
<1>3. ASSUME NEW t \in Turns, EndTurn(t) PROVE GoalTypeOK' /\ GoalSteps'
  <2>1. GoalTypeOK'
    BY <1>3 DEF EndTurn, GoalTypeOK
  <2>2. GoalSteps'
    BY <1>3 DEF EndTurn, GoalTypeOK, GoalSteps, Evaluating
  <2> QED
    BY <2>1, <2>2
<1>4. ASSUME NEW t \in Turns, ReadTimed(t) PROVE GoalTypeOK' /\ GoalSteps'
  <2>1. /\ timer[t].at = "reads" /\ UNCHANGED <<goal, born, eval, setting, asks, lost, crossed>>
        /\ \/ timer' = [timer EXCEPT ![t] = [at |-> "writes", read |-> goal, new |-> NoGoal]]
           \/ timer' = [timer EXCEPT ![t] = [at |-> "done", read |-> NoGoal, new |-> NoGoal]]
    BY <1>4 DEF ReadTimed, Idle
  <2>2. GoalTypeOK'
    <3> DEFINE Timers == [at : {"idle", "runs", "reads", "writes", "done"}, read : Maybe, new : {NoGoal}]
    <3>1. /\ timer \in [Turns -> Timers]
          /\ [at |-> "writes", read |-> goal, new |-> NoGoal] \in Timers
          /\ [at |-> "done", read |-> NoGoal, new |-> NoGoal] \in Timers
      BY DEF GoalTypeOK
    <3> HIDE DEF Timers
    <3>2. timer' \in [Turns -> Timers]
      BY <2>1, <3>1
    <3> QED
      BY <2>1, <3>2 DEF GoalTypeOK, Timers
  <2>3. GoalSteps'
    BY <2>1 DEF GoalTypeOK, GoalSteps, Evaluating
  <2> QED
    BY <2>2, <2>3
<1>5. ASSUME NEW t \in Turns, WriteTimed(t) PROVE GoalTypeOK' /\ GoalSteps'
  <2>1. GoalTypeOK'
    BY <1>5 DEF WriteTimed, Upsert, Idle, GoalTypeOK
  <2>2. GoalSteps'
    BY <1>5 DEF WriteTimed, Upsert, Idle, GoalTypeOK, GoalSteps, Evaluating
  <2> QED
    BY <2>1, <2>2
<1>6. ASSUME NEW t \in Turns, BeginEval(t) PROVE GoalTypeOK' /\ GoalSteps'
  <2>1. GoalTypeOK'
    BY <1>6 DEF BeginEval, Active, Idle, GoalTypeOK
  <2>2. GoalSteps'
    BY <1>6 DEF BeginEval, Active, Idle, GoalTypeOK, GoalSteps, Evaluating
  <2> QED
    BY <2>1, <2>2
<1>7. ASSUME NEW t \in Turns, Ask(t) PROVE GoalTypeOK' /\ GoalSteps'
  <2>1. eval[t].read \in Goals /\ eval[t].read.born \in 1..MaxGoals
    BY <1>7 DEF Ask, GoalSteps, Evaluating, Goals
  <2>2. \E v \in Statuses : eval' = [eval EXCEPT ![t].at = "reads2", ![t].new = v]
    BY <1>7 DEF Ask, Statuses
  <2>3. asks' \in [1..MaxGoals -> Nat]
    BY <1>7, <2>1 DEF Ask, GoalTypeOK
  <2>u. UNCHANGED <<goal, born, timer, setting, lost, crossed>>
    BY <1>7 DEF Ask
  <2>e. eval' \in [Turns -> [at : {"idle", "reads", "asks", "reads2", "writes", "done"}, read : Maybe,
                            new : Maybe \cup Statuses]]
    <3> DEFINE Evals == [at : {"idle", "reads", "asks", "reads2", "writes", "done"}, read : Maybe,
                         new : Maybe \cup Statuses]
    <3>1. PICK v \in Statuses : eval' = [eval EXCEPT ![t].at = "reads2", ![t].new = v]
      BY <2>2
    <3>2. eval \in [Turns -> Evals]
      BY DEF GoalTypeOK
    <3>3. [eval[t] EXCEPT !.at = "reads2", !.new = v] \in Evals
      BY <3>2
    <3>4. eval' = [eval EXCEPT ![t] = [eval[t] EXCEPT !.at = "reads2", !.new = v]]
      BY <3>1, <3>2
    <3> HIDE DEF Evals
    <3>5. eval' \in [Turns -> Evals]
      BY <3>2, <3>3, <3>4
    <3> QED
      BY <3>5 DEF Evals
  <2>4. GoalTypeOK'
    BY <2>u, <2>e, <2>3 DEF GoalTypeOK
  <2>5. GoalSteps'
    BY <1>7, <2>2 DEF Ask, GoalTypeOK, GoalSteps, Evaluating
  <2> QED
    BY <2>4, <2>5
<1>8. ASSUME NEW t \in Turns, ReadJudged(t) PROVE GoalTypeOK' /\ GoalSteps'
  <2>1. /\ eval[t].read \in Goals /\ eval[t].new \in Statuses
        /\ eval[t].read.iterations + 1 \in Nat
    BY <1>8 DEF ReadJudged, GoalSteps, Evaluating, Goals
  <2>2. goal # NoGoal => Judged(t) \in Goals /\ Judged(t).born = goal.born
    <3>1. ASSUME NEW n \in Nat, n = eval[t].read.iterations + 1, goal \in Goals
          PROVE  Judged(t) \in Goals /\ Judged(t).born = goal.born
      <4>1. Judged(t) = [goal EXCEPT !.status = eval[t].new, !.iterations = n]
        BY <3>1 DEF Judged
      <4>2. eval[t].new \in Statuses
        BY <2>1
      <4>3. /\ [goal EXCEPT !.status = eval[t].new, !.iterations = n] \in Goals
            /\ [goal EXCEPT !.status = eval[t].new, !.iterations = n].born = goal.born
        BY <3>1, <4>2 DEF Goals
      <4> QED
        BY <4>1, <4>3
    <3> QED
      BY <2>1, <3>1 DEF GoalTypeOK
  <2>3. GoalTypeOK'
    BY <1>8, <2>2 DEF ReadJudged, Idle, GoalTypeOK
  <2>4. GoalSteps'
    BY <1>8, <2>2 DEF ReadJudged, Idle, GoalTypeOK, GoalSteps, Evaluating
  <2> QED
    BY <2>3, <2>4
<1>9. ASSUME NEW t \in Turns, WriteJudged(t) PROVE GoalTypeOK' /\ GoalSteps'
  <2>1. GoalTypeOK'
    BY <1>9 DEF WriteJudged, Upsert, Idle, GoalTypeOK, GoalSteps
  <2>2. GoalSteps'
    BY <1>9 DEF WriteJudged, Upsert, Idle, GoalTypeOK, GoalSteps, Evaluating
  <2> QED
    BY <2>1, <2>2
<1>10. ASSUME NEW c \in Setters, NEW r \in Requests, Read(c, r) PROVE GoalTypeOK' /\ GoalSteps'
  <2>1. CASE goal = NoGoal /\ r \notin Objectives
    <3>1. /\ setting' = [setting EXCEPT ![c].at = "done"]
          /\ UNCHANGED <<goal, born, timer, eval, asks, lost, crossed>>
      BY <1>10, <2>1 DEF Read
    <3>2. GoalTypeOK'
      BY <3>1 DEF GoalTypeOK
    <3>3. GoalSteps'
      BY <3>1 DEF GoalTypeOK, GoalSteps, Evaluating
    <3> QED
      BY <3>2, <3>3
  <2>2. CASE ~(goal = NoGoal /\ r \notin Objectives)
    <3>1. /\ goal = NoGoal => /\ Set(r) \in Goals /\ born < MaxGoals /\ born' = born + 1
                              /\ Set(r).born = born' /\ Set(r).iterations = 0
          /\ goal # NoGoal => /\ born' = born
                              /\ \/ Set(r) = NoGoal
                                 \/ /\ Set(r) \in Goals /\ Set(r).born = goal.born
                                    /\ Set(r).iterations = goal.iterations
      BY <1>10, <2>2, SetKeeps DEF Read
    <3>2. /\ setting' = [setting EXCEPT ![c] = [at |-> "writes", read |-> goal, new |-> Set(r)]]
          /\ goal \in Maybe /\ Set(r) \in Maybe /\ born' \in 0..MaxGoals /\ born <= born'
      <4>1. /\ setting' = [setting EXCEPT ![c] = [at |-> "writes", read |-> goal, new |-> Set(r)]]
            /\ goal \in Maybe /\ born \in 0..MaxGoals
        BY <1>10, <2>2 DEF Read, GoalTypeOK
      <4>2. Set(r) \in Maybe
        BY <3>1
      <4>3. born' \in 0..MaxGoals /\ born <= born'
        BY <3>1, <4>1, GoalAssumption
      <4> QED
        BY <4>1, <4>2, <4>3
    <3>3. GoalTypeOK'
      BY <1>10, <3>2 DEF Read, GoalTypeOK
    <3>4. GoalSteps'
      BY <1>10, <3>1, <3>2 DEF Read, GoalTypeOK, GoalSteps, Evaluating, Goals
    <3> QED
      BY <3>3, <3>4
  <2> QED
    BY <2>1, <2>2
<1>11. ASSUME NEW c \in Setters, WriteSet(c) PROVE GoalTypeOK' /\ GoalSteps'
  <2>1. GoalTypeOK'
    BY <1>11 DEF WriteSet, Upsert, Idle, GoalTypeOK
  <2>2. GoalSteps'
    BY <1>11 DEF WriteSet, Upsert, Idle, GoalTypeOK, GoalSteps, Evaluating
  <2> QED
    BY <2>1, <2>2
<1>12. ASSUME NEW t \in Turns, FailTimed(t) PROVE GoalTypeOK' /\ GoalSteps'
  BY <1>12 DEF FailTimed, Idle, GoalTypeOK, GoalSteps, Evaluating
<1>13. ASSUME NEW t \in Turns, FailEval(t) PROVE GoalTypeOK' /\ GoalSteps'
  <2>1. lost' \in [1..MaxGoals -> Nat]
    <3>1. lost' = lost \/ lost' = [lost EXCEPT ![eval[t].read.born] = @ + 1]
      BY <1>13 DEF FailEval
    <3>2. lost \in [1..MaxGoals -> Nat]
      BY DEF GoalTypeOK
    <3> QED
      BY <3>1, <3>2
  <2>2. /\ eval' = [eval EXCEPT ![t] = [at |-> "done", read |-> NoGoal, new |-> NoGoal]]
        /\ eval[t].at # "idle" /\ UNCHANGED <<goal, born, timer, setting, asks, crossed>>
    <3>1. [Idle EXCEPT !.at = "done"] = [at |-> "done", read |-> NoGoal, new |-> NoGoal]
      BY DEF Idle
    <3> QED
      BY <1>13, <3>1 DEF FailEval
  <2>3. GoalTypeOK'
    BY <2>1, <2>2 DEF GoalTypeOK
  <2>4. GoalSteps'
    BY <2>2 DEF GoalTypeOK, GoalSteps, Evaluating
  <2> QED
    BY <2>3, <2>4
<1>14. ASSUME NEW c \in Setters, FailSet(c) PROVE GoalTypeOK' /\ GoalSteps'
  BY <1>14 DEF FailSet, Idle, GoalTypeOK, GoalSteps, Evaluating
<1> QED
  BY <1>1, <1>2, <1>3, <1>4, <1>5, <1>6, <1>7, <1>8, <1>9, <1>10, <1>11, <1>12, <1>13, <1>14 DEF GoalNext

NewGoal(c) == setting[c].at = "writes" /\ setting[c].read = NoGoal
\* An evaluation was made whose answer is not yet written.
Answered(t) == eval[t].at \in {"reads2", "writes"} /\ ~Exhausted(eval[t].read)
Pending(b) == \E t \in Turns : Answered(t) /\ eval[t].read.born = b

\* One evaluation at a time; a goal that was born is counted from then on.
OneEvaluates ==
  /\ \A t, u \in Turns : Evaluating(t) /\ Evaluating(u) => t = u
  /\ \A t \in Turns : Evaluating(t) => eval[t].read.born <= born
  /\ goal # NoGoal => goal.born <= born

\* The evaluator was not asked about a goal that is yet to be written, nobody
\* judges it, and two calls never write the same.
Fresh ==
  \A c \in Setters : NewGoal(c) =>
    /\ asks[setting[c].new.born] = 0
    /\ goal # NoGoal => goal.born # setting[c].new.born
    /\ \A t \in Turns : Evaluating(t) => eval[t].read.born # setting[c].new.born
    /\ \A d \in Setters : NewGoal(d) /\ setting[d].new.born = setting[c].new.born => d = c

\* A goal counts how often the evaluator was asked about it, but for the answers
\* that are lost, and one that is not yet written.
CountKept ==
  /\ \A b \in 1..MaxGoals : b > born => asks[b] = 0
  /\ goal # NoGoal => /\ asks[goal.born] <= goal.iterations + 1 + lost[goal.born]
                      /\ ~Pending(goal.born) => asks[goal.born] <= goal.iterations + lost[goal.born]
  /\ \A t \in Turns :
       /\ eval[t].at = "asks"   => asks[eval[t].read.born] <= eval[t].read.iterations + lost[eval[t].read.born]
       /\ eval[t].at = "reads2" => asks[eval[t].read.born] <= eval[t].read.iterations + 1 + lost[eval[t].read.born]
       /\ eval[t].at = "writes" => asks[eval[t].new.born] <= eval[t].new.iterations + lost[eval[t].new.born]

Capped == \A b \in 1..MaxGoals : asks[b] < MaxIterations + lost[b]

GoalsCounted == OneEvaluates /\ Fresh /\ CountKept /\ Capped

\* Nothing that is counted depends on anything else.
LEMMA GoalsFrame ==
  ASSUME GoalsCounted, UNCHANGED <<goal, born, asks, lost, setting>>,
         \A t \in Turns : (Evaluating(t) \/ Evaluating(t)') => eval'[t] = eval[t]
  PROVE  GoalsCounted'
<1>1. \A t \in Turns : Evaluating(t)' <=> Evaluating(t)
  BY DEF Evaluating
<1>2. \A b : Pending(b)' <=> Pending(b)
  BY DEF Pending, Answered, Evaluating
<1>3. \A c \in Setters : NewGoal(c)' <=> NewGoal(c)
  BY DEF NewGoal
<1>4. OneEvaluates'
  BY <1>1 DEF GoalsCounted, OneEvaluates
<1>5. Fresh'
  BY <1>1, <1>3 DEF GoalsCounted, Fresh
<1>6. CountKept'
  BY <1>2 DEF GoalsCounted, CountKept, Evaluating
<1>7. Capped'
  BY DEF GoalsCounted, Capped
<1> QED
  BY <1>4, <1>5, <1>6, <1>7 DEF GoalsCounted

LEMMA GoalsCountedStep ==
  ASSUME GoalTypeOK, GoalSteps, GoalsCounted, [GoalNext]_goalVars, ~crossed'
  PROVE  GoalsCounted'
<1> USE DEF Maybe
<1>g. NoGoal \notin Goals /\ MaxGoals \in Nat /\ MaxIterations \in Nat \ {0}
  BY GoalAssumption
<1>b. \A g \in Goals : g.born \in 1..MaxGoals /\ g.iterations \in Nat
  BY DEF Goals
<1>a. \A b \in 1..MaxGoals : asks[b] \in Nat /\ lost[b] \in Nat
  BY DEF GoalTypeOK
<1>1. CASE UNCHANGED goalVars
  BY <1>1, GoalsFrame DEF goalVars
<1>2. ASSUME NEW t \in Turns, BeginTurn(t) \/ ReadTimed(t) PROVE GoalsCounted'
  BY <1>2, GoalsFrame DEF BeginTurn, ReadTimed
<1>3. ASSUME NEW t \in Turns, EndTurn(t) PROVE GoalsCounted'
  <2>1. eval[t].at = "idle"
    BY <1>3 DEF EndTurn, GoalSteps, GoalTypeOK
  <2>2. \A u \in Turns : (Evaluating(u) \/ Evaluating(u)') => eval'[u] = eval[u]
    BY <1>3, <2>1 DEF EndTurn, GoalTypeOK, Evaluating
  <2> QED
    BY <1>3, <2>2, GoalsFrame DEF EndTurn
<1>4. ASSUME NEW t \in Turns, WriteTimed(t) PROVE GoalsCounted'
  BY <1>4, GoalsFrame DEF WriteTimed, Upsert
<1>5. ASSUME NEW t \in Turns, BeginEval(t) PROVE GoalsCounted'
  <2>1. CASE ~Active(goal)
    <3>1. \A u \in Turns : (Evaluating(u) \/ Evaluating(u)') => eval'[u] = eval[u]
      BY <1>5, <2>1 DEF BeginEval, GoalTypeOK, Evaluating, Idle
    <3> QED
      BY <1>5, <3>1, GoalsFrame DEF BeginEval
  <2>2. CASE Active(goal)
    <3>1. /\ goal \in Goals /\ UNCHANGED <<goal, born, asks, lost, setting>>
          /\ eval' = [eval EXCEPT ![t] = [at |-> "asks", read |-> goal, new |-> NoGoal]]
          /\ \A u \in Turns : ~Evaluating(u)
      <4>1. goal \in Goals
        BY <2>2 DEF Active, GoalTypeOK
      <4>2. /\ UNCHANGED <<goal, born, asks, lost, setting>>
            /\ eval' = [eval EXCEPT ![t] = [at |-> "asks", read |-> goal, new |-> NoGoal]]
        BY <1>5, <2>2 DEF BeginEval
      <4>3. \A u \in Turns : eval[u].at \in {"idle", "reads", "done"}
        BY <1>5, <2>2 DEF BeginEval
      <4> QED
        BY <4>1, <4>2, <4>3 DEF Evaluating
    <3>2. /\ eval'[t] = [at |-> "asks", read |-> goal, new |-> NoGoal]
          /\ \A u \in Turns : u # t => ~Evaluating(u)' /\ eval'[u] = eval[u]
      BY <3>1 DEF GoalTypeOK, Evaluating
    <3>3. \A b : ~Pending(b) /\ ~Pending(b)'
      BY <3>1, <3>2 DEF Pending, Answered, Evaluating
    <3>4. OneEvaluates'
      BY <3>1, <3>2, <1>g DEF GoalsCounted, OneEvaluates
    <3>5. Fresh'
      BY <3>1, <3>2, <1>g DEF GoalsCounted, Fresh, NewGoal
    <3>6. CountKept'
      BY <3>1, <3>2, <3>3, <1>g DEF GoalsCounted, CountKept, Evaluating
    <3> QED
      BY <3>1, <3>4, <3>5, <3>6 DEF GoalsCounted, Capped
  <2> QED
    BY <2>1, <2>2
<1>6. ASSUME NEW t \in Turns, Ask(t) PROVE GoalsCounted'
  <2> DEFINE b == eval[t].read.born
             n == eval[t].read.iterations
  <2>1. /\ Evaluating(t) /\ eval[t].read \in Goals /\ b \in 1..MaxGoals /\ n \in Nat
        /\ eval[t].at = "asks" /\ asks[b] \in Nat /\ lost[b] \in Nat
        /\ asks[b] <= n + lost[b] /\ b <= born
        /\ UNCHANGED <<goal, born, lost, setting>>
    <3>1. /\ Evaluating(t) /\ eval[t].at = "asks" /\ eval[t].read \in Goals
          /\ UNCHANGED <<goal, born, lost, setting>>
      BY <1>6 DEF Ask, Evaluating, GoalSteps
    <3>2. b \in 1..MaxGoals /\ n \in Nat /\ asks[b] \in Nat /\ lost[b] \in Nat
      BY <3>1, <1>a, <1>b
    <3>3. asks[b] <= n + lost[b] /\ b <= born
      BY <3>1 DEF GoalsCounted, CountKept, OneEvaluates
    <3> QED
      BY <3>1, <3>2, <3>3
  <2>2. /\ eval'[t].at = "reads2" /\ eval'[t].read = eval[t].read
        /\ \A u \in Turns : u # t => eval'[u] = eval[u]
        /\ \A u \in Turns : Evaluating(u)' <=> Evaluating(u)
    <3>1. \E v \in Statuses : eval' = [eval EXCEPT ![t].at = "reads2", ![t].new = v]
      BY <1>6 DEF Ask, Statuses
    <3>2. /\ eval'[t].at = "reads2" /\ eval'[t].read = eval[t].read
          /\ \A u \in Turns : u # t => eval'[u] = eval[u]
      BY <3>1 DEF GoalTypeOK
    <3> QED
      BY <2>1, <3>2 DEF Evaluating
  <2>3. /\ asks' = asks \/ (asks' = [asks EXCEPT ![b] = @ + 1] /\ n + 1 < MaxIterations)
        /\ asks'[b] \in Nat /\ asks'[b] <= n + 1 + lost[b] /\ asks'[b] <= asks[b] + 1
        /\ \A d \in 1..MaxGoals : d # b => asks'[d] = asks[d]
        /\ asks' # asks => ~Exhausted(eval[t].read)
    <3>0. asks' # asks => ~Exhausted(eval[t].read)
      BY <1>6 DEF Ask
    <3>1. asks' = asks \/ (asks' = [asks EXCEPT ![b] = @ + 1] /\ n + 1 < MaxIterations)
      BY <1>6, <2>1, <1>g DEF Ask, Exhausted
    <3>2. /\ asks'[b] = asks[b] \/ asks'[b] = asks[b] + 1
          /\ \A d \in 1..MaxGoals : d # b => asks'[d] = asks[d]
      BY <2>1, <3>1 DEF GoalTypeOK
    <3> QED
      BY <2>1, <3>0, <3>1, <3>2
  <2>4. \A u \in Turns : Evaluating(u) => u = t
    BY <2>1 DEF GoalsCounted, OneEvaluates
  <2>5. OneEvaluates'
    BY <2>1, <2>2 DEF GoalsCounted, OneEvaluates
  <2>6. Fresh'
    BY <2>1, <2>2, <2>3, <1>b DEF GoalsCounted, Fresh, NewGoal, GoalSteps
  <2>7. CountKept'
    <3>1. \A d \in 1..MaxGoals : d > born' => asks'[d] = 0
      BY <2>1, <2>3 DEF GoalsCounted, CountKept, GoalTypeOK
    <3>2. asks' # asks => \E u \in Turns : Answered(u)' /\ eval'[u].read.born = eval[t].read.born
      <4> SUFFICES ASSUME asks' # asks PROVE Answered(t)'
        BY <2>2
      <4>1. ~Exhausted(eval'[t].read)
        BY <2>2, <2>3
      <4> QED
        BY <2>2, <4>1 DEF Answered, Exhausted
    <3>3. \A d : ~Pending(d)
      BY <2>1, <2>4 DEF Pending, Answered, Evaluating
    <3>4. (goal # NoGoal => /\ asks[goal.born] <= goal.iterations + 1 + lost[goal.born]
                            /\ ~Pending(goal.born) => asks[goal.born] <= goal.iterations + lost[goal.born])'
      <4> SUFFICES ASSUME goal # NoGoal
                   PROVE  /\ asks'[goal.born] <= goal.iterations + 1 + lost[goal.born]
                          /\ goal.born # b \/ asks' = asks
                               => asks'[goal.born] <= goal.iterations + lost[goal.born]
        BY <2>1, <3>2 DEF Pending
      <4>1. /\ goal.born \in 1..MaxGoals /\ goal.iterations \in Nat
            /\ asks[goal.born] \in Nat /\ lost[goal.born] \in Nat
        BY <1>a, <1>b DEF GoalTypeOK
      <4>2. asks[goal.born] <= goal.iterations + lost[goal.born]
        BY <3>3 DEF GoalsCounted, CountKept
      <4>3. goal.born # b => asks'[goal.born] = asks[goal.born]
        BY <2>3, <4>1
      <4>4. asks'[goal.born] <= asks[goal.born] + 1 /\ asks'[goal.born] \in Nat
        BY <2>3, <4>1, <4>3
      <4> QED
        BY <4>1, <4>2, <4>3, <4>4
    <3>5. (\A u \in Turns :
             /\ eval[u].at = "asks"   => asks[eval[u].read.born] <= eval[u].read.iterations + lost[eval[u].read.born]
             /\ eval[u].at = "reads2" => asks[eval[u].read.born] <= eval[u].read.iterations + 1 + lost[eval[u].read.born]
             /\ eval[u].at = "writes" => asks[eval[u].new.born] <= eval[u].new.iterations + lost[eval[u].new.born])'
      BY <2>1, <2>2, <2>3, <2>4 DEF Evaluating
    <3> QED
      BY <3>1, <3>4, <3>5 DEF CountKept
  <2>8. Capped'
    <3>1. ASSUME NEW d \in 1..MaxGoals PROVE asks'[d] < MaxIterations + lost[d]
      <4>1. asks[d] < MaxIterations + lost[d]
        BY DEF GoalsCounted, Capped
      <4>2. CASE asks' = asks
        BY <4>1, <4>2
      <4>3. CASE asks' # asks
        <5>1. asks'[b] < MaxIterations + lost[b]
          BY <2>1, <2>3, <4>3, <1>g
        <5> QED
          BY <2>3, <4>1, <5>1
      <4> QED
        BY <4>2, <4>3
    <3> QED
      BY <2>1, <3>1 DEF Capped
  <2> QED
    BY <2>5, <2>6, <2>7, <2>8 DEF GoalsCounted
<1>7. ASSUME NEW t \in Turns, ReadJudged(t) PROVE GoalsCounted'
  <2>1. /\ eval[t].at = "reads2" /\ goal = eval[t].read /\ goal \in Goals /\ Evaluating(t)
        /\ eval[t].new \in Statuses /\ UNCHANGED <<goal, born, asks, lost, setting>>
    BY <1>7 DEF ReadJudged, GoalSteps, Evaluating, GoalTypeOK
  <2>2. eval' = [eval EXCEPT ![t] = [at |-> "writes", read |-> goal, new |-> Judged(t)]]
    BY <1>7, <2>1, <1>g DEF ReadJudged
  <2>3. Judged(t).born = goal.born /\ Judged(t).iterations = goal.iterations + 1
    BY <2>1 DEF Judged, Goals
  <2>4. /\ eval'[t].at = "writes" /\ eval'[t].read = eval[t].read /\ eval'[t].new = Judged(t)
        /\ \A u \in Turns : u # t => eval'[u] = eval[u]
        /\ \A u \in Turns : Evaluating(u)' <=> Evaluating(u)
    BY <2>1, <2>2 DEF GoalTypeOK, Evaluating
  <2>5. \A d : Pending(d)' <=> Pending(d)
    BY <2>1, <2>4 DEF Pending, Answered
  <2>6. OneEvaluates'
    BY <2>1, <2>4 DEF GoalsCounted, OneEvaluates
  <2>7. Fresh'
    BY <2>1, <2>4 DEF GoalsCounted, Fresh, NewGoal
  <2>8. CountKept'
    BY <2>1, <2>3, <2>4, <2>5 DEF GoalsCounted, CountKept
  <2> QED
    BY <2>1, <2>6, <2>7, <2>8 DEF GoalsCounted, Capped
<1>8. ASSUME NEW t \in Turns, WriteJudged(t) PROVE GoalsCounted'
  <2>1. /\ eval[t].at = "writes" /\ goal = eval[t].read /\ goal' = eval[t].new
        /\ UNCHANGED <<born, asks, lost, setting>> /\ Evaluating(t)
        /\ goal \in Goals /\ goal' \in Goals /\ goal'.born = goal.born
    BY <1>8 DEF WriteJudged, Upsert, Evaluating, GoalSteps
  <2>2. /\ ~Evaluating(t)' /\ \A u \in Turns : u # t => eval'[u] = eval[u]
    BY <1>8, <2>1 DEF WriteJudged, Idle, Evaluating, GoalTypeOK
  <2>3. \A u \in Turns : ~Evaluating(u)'
    BY <2>1, <2>2 DEF GoalsCounted, OneEvaluates, Evaluating
  <2>4. OneEvaluates'
    BY <2>1, <2>3, <1>g DEF GoalsCounted, OneEvaluates
  <2>5. Fresh'
    BY <2>1, <2>3, <1>g DEF GoalsCounted, Fresh, NewGoal
  <2>6. CountKept'
    <3>1. goal'.born \in 1..MaxGoals /\ goal'.iterations \in Nat /\ asks[goal'.born] \in Nat
          /\ lost[goal'.born] \in Nat
      BY <2>1, <1>b, <1>a
    <3>2. asks[goal'.born] <= goal'.iterations + lost[goal'.born]
      BY <2>1 DEF GoalsCounted, CountKept
    <3> QED
      BY <2>1, <2>3, <3>1, <3>2 DEF GoalsCounted, CountKept, Evaluating
  <2> QED
    BY <2>1, <2>4, <2>5, <2>6 DEF GoalsCounted, Capped
<1>9. ASSUME NEW c \in Setters, NEW r \in Requests, Read(c, r) PROVE GoalsCounted'
  <2>0. UNCHANGED <<goal, eval, asks, lost>> /\ setting[c].at = "idle"
    BY <1>9 DEF Read
  <2>e. \A u \in Turns : Evaluating(u)' <=> Evaluating(u)
    BY <2>0 DEF Evaluating
  <2>p. \A b : Pending(b)' <=> Pending(b)
    BY <2>0 DEF Pending, Answered
  <2>1. CASE goal # NoGoal \/ r \notin Objectives
    <3>1. born' = born /\ \A d \in Setters : NewGoal(d)' => NewGoal(d) /\ setting'[d] = setting[d]
      BY <1>9, <2>1 DEF Read, NewGoal, GoalTypeOK
    <3>2. OneEvaluates'
      BY <2>0, <2>e, <3>1 DEF GoalsCounted, OneEvaluates
    <3>3. Fresh'
      BY <2>0, <2>e, <3>1 DEF GoalsCounted, Fresh
    <3>4. CountKept'
      BY <2>0, <2>p, <3>1 DEF GoalsCounted, CountKept
    <3> QED
      BY <2>0, <3>2, <3>3, <3>4 DEF GoalsCounted, Capped
  <2>2. CASE goal = NoGoal /\ r \in Objectives
    <3>1. /\ setting' = [setting EXCEPT ![c] = [at |-> "writes", read |-> goal, new |-> Set(r)]]
          /\ born < MaxGoals /\ born' = born + 1 /\ born \in Nat
          /\ Set(r).born = born + 1
      BY <1>9, <2>2, <1>g, SetKeeps DEF Read, GoalTypeOK
    <3>2. /\ NewGoal(c)' /\ setting'[c].new.born = born + 1
          /\ \A d \in Setters : d # c => setting'[d] = setting[d] /\ (NewGoal(d)' <=> NewGoal(d))
          /\ ~NewGoal(c)
      BY <2>0, <2>2, <3>1 DEF NewGoal, GoalTypeOK
    <3>3. \A d \in Setters : NewGoal(d) => setting[d].new.born <= born /\ setting[d].new.born \in Nat
      BY <1>g, <1>b DEF NewGoal, GoalSteps
    <3>4. \A u \in Turns : Evaluating(u) => eval[u].read.born <= born /\ eval[u].read.born \in Nat
      BY <1>b DEF GoalsCounted, OneEvaluates, GoalSteps
    <3>5. OneEvaluates'
      BY <2>0, <2>2, <2>e, <3>1, <3>4 DEF GoalsCounted, OneEvaluates
    <3>6. Fresh'
      <4>1. asks[born + 1] = 0
        BY <3>1, <1>g DEF GoalsCounted, CountKept
      <4> QED
        BY <2>0, <2>2, <2>e, <3>1, <3>2, <3>3, <3>4, <4>1 DEF GoalsCounted, Fresh
    <3>7. CountKept'
      BY <2>0, <2>2, <2>p, <3>1 DEF GoalsCounted, CountKept
    <3> QED
      BY <2>0, <3>5, <3>6, <3>7 DEF GoalsCounted, Capped
  <2> QED
    BY <2>1, <2>2
<1>10. ASSUME NEW c \in Setters, WriteSet(c) PROVE GoalsCounted'
  <2>1. /\ setting[c].at = "writes" /\ goal = setting[c].read /\ goal' = setting[c].new
        /\ UNCHANGED <<born, asks, lost, eval>>
    BY <1>10 DEF WriteSet, Upsert
  <2>2. /\ ~NewGoal(c)' /\ \A d \in Setters : d # c => setting'[d] = setting[d] /\ (NewGoal(d)' <=> NewGoal(d))
    BY <1>10 DEF WriteSet, Idle, NewGoal, GoalTypeOK
  <2>e. \A u \in Turns : Evaluating(u)' <=> Evaluating(u)
    BY <2>1 DEF Evaluating
  <2>p. \A b : Pending(b)' <=> Pending(b)
    BY <2>1 DEF Pending, Answered
  <2>3. CASE NewGoal(c)
    <3>1. /\ goal = NoGoal /\ goal' \in Goals /\ goal'.born <= born /\ goal'.iterations = 0
          /\ goal'.born \in 1..MaxGoals
      BY <2>1, <2>3, <1>g, <1>b DEF NewGoal, GoalSteps
    <3>2. /\ asks[goal'.born] = 0 /\ \A d \in Setters : NewGoal(d)' => setting'[d].new.born # goal'.born
      BY <2>1, <2>2, <2>3 DEF GoalsCounted, Fresh
    <3>3. OneEvaluates'
      BY <2>1, <2>e, <3>1 DEF GoalsCounted, OneEvaluates
    <3>4. Fresh'
      BY <2>1, <2>2, <2>e, <3>2 DEF GoalsCounted, Fresh
    <3>5. CountKept'
      <4>1. lost[goal'.born] \in Nat
        BY <3>1, <1>a
      <4> QED
        BY <2>1, <2>p, <3>1, <3>2, <4>1 DEF GoalsCounted, CountKept
    <3> QED
      BY <2>1, <3>3, <3>4, <3>5 DEF GoalsCounted, Capped
  <2>4. CASE goal' = NoGoal
    <3>1. OneEvaluates'
      BY <2>1, <2>e, <2>4 DEF GoalsCounted, OneEvaluates
    <3>2. Fresh'
      BY <2>1, <2>2, <2>e, <2>4 DEF GoalsCounted, Fresh
    <3>3. CountKept'
      BY <2>1, <2>p, <2>4 DEF GoalsCounted, CountKept
    <3> QED
      BY <2>1, <3>1, <3>2, <3>3 DEF GoalsCounted, Capped
  <2>5. CASE ~NewGoal(c) /\ goal' # NoGoal
    <3>1. /\ goal \in Goals /\ goal # NoGoal /\ goal'.born = goal.born
          /\ goal'.iterations = goal.iterations
      BY <2>1, <2>5, <1>g DEF NewGoal, GoalSteps
    <3>2. OneEvaluates'
      BY <2>1, <2>e, <3>1 DEF GoalsCounted, OneEvaluates
    <3>3. Fresh'
      BY <2>1, <2>2, <2>e, <3>1 DEF GoalsCounted, Fresh
    <3>4. CountKept'
      BY <2>1, <2>p, <3>1 DEF GoalsCounted, CountKept
    <3> QED
      BY <2>1, <3>2, <3>3, <3>4 DEF GoalsCounted, Capped
  <2> QED
    BY <2>3, <2>4, <2>5
<1>11. ASSUME NEW t \in Turns, FailTimed(t) PROVE GoalsCounted'
  BY <1>11, GoalsFrame DEF FailTimed
<1>12. ASSUME NEW c \in Setters, FailSet(c) PROVE GoalsCounted'
  <2>1. /\ UNCHANGED <<goal, born, asks, lost, eval>>
        /\ \A d \in Setters : NewGoal(d)' => NewGoal(d) /\ setting'[d] = setting[d]
    BY <1>12 DEF FailSet, Idle, NewGoal, GoalTypeOK
  <2>e. \A u \in Turns : Evaluating(u)' <=> Evaluating(u)
    BY <2>1 DEF Evaluating
  <2>p. \A b : Pending(b)' <=> Pending(b)
    BY <2>1 DEF Pending, Answered
  <2>2. OneEvaluates'
    BY <2>1, <2>e DEF GoalsCounted, OneEvaluates
  <2>3. Fresh'
    BY <2>1, <2>e DEF GoalsCounted, Fresh
  <2>4. CountKept'
    BY <2>1, <2>p DEF GoalsCounted, CountKept
  <2> QED
    BY <2>1, <2>2, <2>3, <2>4 DEF GoalsCounted, Capped
<1>13. ASSUME NEW t \in Turns, FailEval(t), ~Evaluating(t) PROVE GoalsCounted'
  <2>1. UNCHANGED <<goal, born, asks, lost, setting>>
    BY <1>13 DEF FailEval, Evaluating
  <2>2. \A u \in Turns : (Evaluating(u) \/ Evaluating(u)') => eval'[u] = eval[u]
    BY <1>13 DEF FailEval, GoalTypeOK, Evaluating, Idle
  <2> QED
    BY <2>1, <2>2, GoalsFrame
<1>14. ASSUME NEW t \in Turns, FailEval(t), Evaluating(t) PROVE GoalsCounted'
  <2>1. /\ ~Evaluating(t)' /\ \A u \in Turns : u # t => eval'[u] = eval[u]
        /\ UNCHANGED <<goal, born, setting, asks>>
        /\ lost' = IF Answered(t) THEN [lost EXCEPT ![eval[t].read.born] = @ + 1] ELSE lost
    BY <1>14 DEF FailEval, Idle, Evaluating, Answered, GoalTypeOK
  <2>2. \A b \in 1..MaxGoals : lost'[b] \in Nat /\ lost[b] <= lost'[b]
    BY <2>1, <1>a DEF GoalTypeOK
  <2>3. \A u \in Turns : Evaluating(u)' => Evaluating(u) /\ u # t
    BY <2>1 DEF Evaluating
  <2>4. OneEvaluates'
    BY <2>1, <2>3 DEF GoalsCounted, OneEvaluates
  <2>5. Fresh'
    <3>1. \A d \in Setters : NewGoal(d)' <=> NewGoal(d)
      BY <2>1 DEF NewGoal
    <3> QED
      BY <2>1, <2>3, <3>1 DEF GoalsCounted, Fresh
  <2>6. CountKept'
    <3>1. \A b : b \in 1..MaxGoals /\ b > born => asks[b] = 0
      BY DEF GoalsCounted, CountKept
    <3>2. ASSUME goal # NoGoal
          PROVE  /\ asks[goal.born] <= goal.iterations + 1 + lost'[goal.born]
                 /\ ~Pending(goal.born)' => asks[goal.born] <= goal.iterations + lost'[goal.born]
      <4>1. /\ goal.born \in 1..MaxGoals /\ goal.iterations \in Nat
            /\ asks[goal.born] \in Nat /\ lost[goal.born] \in Nat /\ lost'[goal.born] \in Nat
            /\ lost[goal.born] <= lost'[goal.born]
            /\ asks[goal.born] <= goal.iterations + 1 + lost[goal.born]
            /\ ~Pending(goal.born) => asks[goal.born] <= goal.iterations + lost[goal.born]
        BY <3>2, <2>2, <1>a, <1>b DEF GoalTypeOK, GoalsCounted, CountKept
      <4>2. CASE Answered(t) /\ eval[t].read.born = goal.born
        <5>1. lost'[goal.born] = lost[goal.born] + 1
          BY <2>1, <4>1, <4>2 DEF GoalTypeOK
        <5> QED
          BY <4>1, <5>1
      <4>3. CASE ~(Answered(t) /\ eval[t].read.born = goal.born)
        <5>1. Pending(goal.born) => Pending(goal.born)'
          BY <2>1, <4>3 DEF Pending, Answered
        <5> QED
          BY <4>1, <5>1
      <4> QED
        BY <4>2, <4>3
    <3>3. \A u \in Turns : ~Evaluating(u)'
      BY <2>3, <1>14 DEF GoalsCounted, OneEvaluates, Evaluating, FailEval
    <3> QED
      BY <2>1, <3>1, <3>2, <3>3 DEF CountKept, Evaluating
  <2>7. Capped'
    <3>1. \A b \in 1..MaxGoals : asks[b] < MaxIterations + lost[b]
      BY DEF GoalsCounted, Capped
    <3> QED
      BY <2>1, <2>2, <3>1, <1>a, <1>g DEF Capped
  <2> QED
    BY <2>4, <2>5, <2>6, <2>7 DEF GoalsCounted
<1> QED
  BY <1>1, <1>2, <1>3, <1>4, <1>5, <1>6, <1>7, <1>8, <1>9, <1>10, <1>11, <1>12, <1>13, <1>14 DEF GoalNext

GoalInv == GoalTypeOK /\ GoalSteps /\ (~crossed => GoalsCounted)

LEMMA GoalInvariant == GoalSpec => []GoalInv
<1>1. GoalInit => GoalInv
  <2> SUFFICES ASSUME GoalInit PROVE GoalsCounted
    BY GoalReachInit DEF GoalInv
  <2>1. goal = NoGoal /\ asks = [b \in 1..MaxGoals |-> 0] /\ lost = [b \in 1..MaxGoals |-> 0]
    BY DEF GoalInit
  <2>2. (\A t \in Turns : eval[t].at = "idle") /\ (\A c \in Setters : setting[c].at = "idle")
    BY DEF GoalInit, Idle
  <2> QED
    BY <2>1, <2>2, GoalAssumption DEF GoalsCounted, OneEvaluates, Fresh, CountKept, Capped, Evaluating, NewGoal
<1>2. GoalInv /\ [GoalNext]_goalVars => GoalInv'
  <2> SUFFICES ASSUME GoalInv, [GoalNext]_goalVars PROVE GoalInv'
    OBVIOUS
  <2>1. GoalTypeOK' /\ GoalSteps'
    BY GoalReachStep DEF GoalInv
  <2>2. ~crossed' => ~crossed
    BY DEF GoalNext, goalVars, BeginTurn, EndTurn, ReadTimed, WriteTimed, BeginEval, Ask, ReadJudged,
           WriteJudged, Read, WriteSet, FailTimed, FailEval, FailSet, Upsert
  <2> QED
    BY <2>1, <2>2, GoalsCountedStep DEF GoalInv
<1> QED
  BY <1>1, <1>2, PTL DEF GoalSpec

\* GoalEvaluation keeps every variable in the range the code gives it.
THEOREM GoalTypeCorrect == GoalSpec => []GoalTypeOK
<1>1. GoalInv => GoalTypeOK
  BY DEF GoalInv
<1> QED
  BY GoalInvariant, <1>1, PTL

\* The evaluator is asked about a goal less often than its budget says, and once
\* more for each of its answers that was never written, however turns, evaluations,
\* users and tools come and fail, until two of them cross.
THEOREM EvaluationsBounded == GoalSpec => []EvaluationsCapped
<1>1. GoalInv => EvaluationsCapped
  BY GoalAssumption DEF GoalInv, GoalsCounted, Capped, EvaluationsCapped, GoalTypeOK
<1> QED
  BY GoalInvariant, <1>1, PTL

-----------------------------------------------------------------------------
(* LoopScheduler *)

LoopTypeOK ==
  /\ pc \in [Clients \cup Ticks -> {"idle", "load", "do", "write", "look", "skipRecord", "skipWrite", "done"}]
  /\ phase \in [Runs -> {"idle", "begin", "recordWrite", "nextWrite", "expiryWrite"}]
  /\ op \in [Clients -> Ops \cup {Nil}]
  /\ target \in [Clients \cup Ticks -> LoopIds \cup {Nil}]
  /\ toRead \in [Clients \cup Ticks -> SUBSET LoopIds]
  /\ due \in [Ticks -> SUBSET LoopIds]
  /\ writing \in [Actors -> Writes \cup {Nil}]
  /\ cache \in [LoopIds -> Loops \cup {Nil}]
  /\ file \in [LoopIds -> Loops \cup {Nil, Torn}]
  /\ nextSeq \in 0..Cardinality(Clients)
  /\ active \subseteq LoopIds /\ running \subseteq Threads /\ ended \subseteq Clients /\ stuck \subseteq Clients /\ back \subseteq Clients
  /\ loaded \in BOOLEAN /\ clash \in BOOLEAN /\ overlap \in BOOLEAN /\ faults \in Nat

\* A call or a tick under way knows its loop, and waits for a write where it should.
LoopPlaces ==
  /\ \A c \in Clients :
       /\ pc[c] \in {"idle", "load", "do", "write", "done"}
       /\ pc[c] \in {"load", "do", "write"} => op[c] # Nil /\ target[c] # Nil
       /\ writing[c] # Nil => pc[c] = "write" /\ writing[c].id = target[c]
  /\ \A t \in Ticks :
       /\ pc[t] # "write"
       /\ pc[t] \in {"look", "skipRecord", "skipWrite"} => target[t] # Nil
       /\ writing[t] # Nil => pc[t] \in {"skipRecord", "skipWrite"} /\ writing[t].id = target[t]
  /\ \A r \in Runs :
       writing[r] # Nil => phase[r] # "idle" /\ writing[r].id = r[2]

Under == {r \in Runs : phase[r] # "idle"}

\* What counts runs. While ticks do not overlap, one tick is under way; what it is
\* about to start does not run, and there is room for it.
RunsInv ==
  /\ active \subseteq {r[2] : r \in Under}
  /\ ~overlap =>
       /\ \A t, u \in Ticks : pc[t] \notin {"idle", "done"} /\ pc[u] \notin {"idle", "done"} => t = u
       /\ \A r \in Under : r[2] \in active
       /\ \A r, s \in Under : r[2] = s[2] => r = s
       /\ Cardinality(active) <= MaxConcurrent
       /\ \A t \in Ticks : pc[t] = "look" => target[t] \notin active /\ Cardinality(active) < MaxConcurrent

LEMMA LoopActors ==
  /\ \A c \in Clients : c \in Actors /\ c \notin Ticks /\ c \notin Runs
  /\ \A t \in Ticks : t \in Actors /\ t \notin Clients /\ t \notin Runs
  /\ \A r \in Runs : r \in Actors /\ r \notin Clients /\ r \notin Ticks /\ r[1] \in Ticks /\ r[2] \in LoopIds
  BY LoopAssumption DEF Actors, Runs

\* A change of the store puts a record where it was, and waits for its file.
LEMMA StoreKeeps ==
  ASSUME LoopTypeOK, NEW a \in Actors, NEW i \in LoopIds, NEW record \in Loops \cup {Nil},
         cache[i] # Nil \/ record # Nil, Store(a, i, record)
  PROVE  /\ cache' \in [LoopIds -> Loops \cup {Nil}] /\ clash' \in BOOLEAN
         /\ writing' \in [Actors -> Writes \cup {Nil}]
         /\ writing'[a] # Nil /\ writing'[a].id = i
         /\ \A b \in Actors : b # a => writing'[b] = writing[b]
<1> DEFINE w == [id |-> i, by |-> IF cache[i] = Nil THEN record.by ELSE cache[i].by, record |-> record]
<1>1. /\ cache' = [cache EXCEPT ![i] = record] /\ writing' = [writing EXCEPT ![a] = w]
      /\ clash' = (clash \/ \E b \in Actors \ {a} : writing[b] # Nil /\ writing[b].id = i)
  BY DEF Store
<1>2. (IF cache[i] = Nil THEN record.by ELSE cache[i].by) \in Clients
  BY DEF LoopTypeOK, Loops
<1>3. w \in Writes
  BY <1>2 DEF Writes
<1>4. w # Nil /\ w.id = i
  BY <1>3, LoopAssumption
<1> QED
  BY <1>1, <1>3, <1>4 DEF LoopTypeOK

LEMMA SettleKeeps ==
  ASSUME LoopTypeOK, NEW a \in Actors, Settle(a)
  PROVE  /\ cache' = cache /\ clash' = clash
         /\ writing' \in [Actors -> Writes \cup {Nil}] /\ writing'[a] = Nil
         /\ \A b \in Actors : b # a => writing'[b] = writing[b]
  BY DEF Settle, LoopTypeOK

\* A call makes a record of a record.
LEMMA ChangedTyped ==
  ASSUME NEW c \in Clients, NEW r \in Loops \cup {Nil}, op[c] \in Ops, op[c] = "create" \/ r # Nil
  PROVE  /\ Changed(c, r) \in Loops \cup {Nil}
         /\ Changed(c, r) # Nil \/ r # Nil
<1>1. CASE op[c] = "create"
  <2>1. Changed(c, r) = [by |-> c, status |-> "active", next |-> TRUE, ran |-> FALSE]
    BY <1>1 DEF Changed
  <2>2. Changed(c, r) \in Loops
    BY <2>1 DEF Loops
  <2> QED
    BY <2>2, LoopAssumption
<1>2. CASE op[c] # "create"
  <2>1. r \in Loops
    BY <1>2
  <2>2. CASE op[c] = "pause"
    BY <2>1, <2>2 DEF Changed, Loops
  <2>3. CASE op[c] = "resume"
    BY <2>1, <2>3 DEF Changed, Loops
  <2>4. CASE op[c] = "cancel"
    BY <2>1, <2>4 DEF Changed, Loops
  <2>5. CASE op[c] = "delete"
    BY <2>5 DEF Changed
  <2>6. CASE op[c] = "activate"
    BY <2>1, <2>6 DEF Changed, Loops
  <2> QED
    BY <1>2, <2>1, <2>2, <2>3, <2>4, <2>5, <2>6, LoopAssumption DEF Ops
<1> QED
  BY <1>1, <1>2

\* A tick goes on to a loop that is not active, while there is room for one.
LEMMA AdvanceKeeps ==
  ASSUME LoopTypeOK, NEW t \in Ticks, NEW left \in SUBSET LoopIds, Advance(t, left),
         active' \subseteq LoopIds
  PROVE  /\ pc' = [pc EXCEPT ![t] = pc'[t]] /\ pc'[t] \in {"done", "look"}
         /\ target' = [target EXCEPT ![t] = target'[t]] /\ target'[t] \in LoopIds \cup {Nil}
         /\ op' = op /\ due' \in [Ticks -> SUBSET LoopIds]
         /\ pc'[t] = "look" => /\ target'[t] \in LoopIds /\ target'[t] \notin active'
                               /\ ~(Cardinality(active') >= MaxConcurrent)
<1>1. t \notin Clients /\ t \in Clients \cup Ticks
  BY LoopActors
<1>2. CASE pc' = [pc EXCEPT ![t] = "done"] /\ Forget(t) /\ due' = [due EXCEPT ![t] = {}]
  BY <1>1, <1>2 DEF Forget, LoopTypeOK
<1>3. ASSUME NEW i \in NextDue(left, active'), pc' = [pc EXCEPT ![t] = "look"],
             target' = [target EXCEPT ![t] = i], due' = [due EXCEPT ![t] = left \ {i}], op' = op
      PROVE  /\ pc' = [pc EXCEPT ![t] = pc'[t]] /\ pc'[t] \in {"done", "look"}
             /\ target' = [target EXCEPT ![t] = target'[t]] /\ target'[t] \in LoopIds \cup {Nil}
             /\ op' = op /\ due' \in [Ticks -> SUBSET LoopIds]
             /\ pc'[t] = "look" => /\ target'[t] \in LoopIds /\ target'[t] \notin active'
                                   /\ ~(Cardinality(active') >= MaxConcurrent)
  <2>1. i \in LoopIds /\ i \notin active' /\ ~(Cardinality(active') >= MaxConcurrent)
    BY <1>3 DEF NextDue
  <2> QED
    BY <1>1, <1>3, <2>1 DEF LoopTypeOK
<1> QED
  BY <1>2, <1>3 DEF Advance

LoopReach == LoopTypeOK /\ LoopPlaces

LEMMA LoopReachInit == LoopInit => LoopReach
<1> SUFFICES ASSUME LoopInit PROVE LoopReach
  OBVIOUS
<1>1. Cardinality(Clients) \in Nat
  BY LoopAssumption, FS_CardinalityType
<1>2. LoopTypeOK
  <2>1. /\ pc \in [Clients \cup Ticks -> {"idle"}] /\ phase \in [Runs -> {"idle"}] /\ op \in [Clients -> {Nil}]
        /\ target \in [Clients \cup Ticks -> {Nil}] /\ toRead \in [Clients \cup Ticks -> {{}}]
        /\ due \in [Ticks -> {{}}] /\ writing \in [Actors -> {Nil}]
        /\ cache \in [LoopIds -> {Nil}] /\ file \in [LoopIds -> {Nil}]
    BY DEF LoopInit
  <2>2. nextSeq \in 0..Cardinality(Clients) /\ faults \in Nat
    BY <1>1 DEF LoopInit
  <2> QED
    BY <2>1, <2>2 DEF LoopInit, LoopTypeOK
<1>3. LoopPlaces
  BY LoopActors DEF LoopInit, LoopPlaces
<1> QED
  BY <1>2, <1>3 DEF LoopReach

\* What a run does last, and what it does before it.
LEMMA FinallyKeeps ==
  ASSUME LoopReach, NEW r \in Runs, Finally(r),
         UNCHANGED <<pc, op, target, toRead, due, nextSeq, told>>, running' \subseteq Threads,
         loaded' \in BOOLEAN, file' \in [LoopIds -> Loops \cup {Nil, Torn}], faults' \in Nat, overlap' = overlap
  PROVE  LoopReach'
<1>1. /\ phase' = [phase EXCEPT ![r] = "idle"] /\ active' \subseteq LoopIds /\ cache' = cache /\ clash' = clash
      /\ writing' \in [Actors -> Writes \cup {Nil}] /\ writing'[r] = Nil
      /\ \A b \in Actors : b # r => writing'[b] = writing[b]
  BY LoopActors, SettleKeeps DEF LoopReach, Finally, Enter, LoopTypeOK
<1>2. LoopTypeOK'
  BY <1>1 DEF LoopReach, LoopTypeOK, told
<1>3. LoopPlaces'
  BY <1>1, LoopActors DEF LoopReach, LoopTypeOK, LoopPlaces
<1> QED
  BY <1>2, <1>3 DEF LoopReach

LEMMA RunStoreKeeps ==
  ASSUME LoopReach, NEW r \in Runs, NEW record \in Loops, Store(r, r[2], record),
         NEW place \in {"recordWrite", "nextWrite", "expiryWrite"}, Enter(r, place),
         UNCHANGED <<pc, op, target, toRead, due, nextSeq, told, active>>, running' \subseteq Threads,
         loaded' \in BOOLEAN, file' \in [LoopIds -> Loops \cup {Nil, Torn}], faults' \in Nat, overlap' = overlap
  PROVE  LoopReach'
<1>0. record # Nil
  BY LoopAssumption
<1>1. /\ cache' \in [LoopIds -> Loops \cup {Nil}] /\ clash' \in BOOLEAN
      /\ writing' \in [Actors -> Writes \cup {Nil}] /\ writing'[r] # Nil /\ writing'[r].id = r[2]
      /\ \A b \in Actors : b # r => writing'[b] = writing[b]
  BY <1>0, LoopActors, StoreKeeps DEF LoopReach
<1>2. LoopTypeOK'
  BY <1>1 DEF LoopReach, LoopTypeOK, Enter, told
<1>3. LoopPlaces'
  BY <1>1, LoopActors DEF LoopReach, LoopTypeOK, LoopPlaces, Enter
<1> QED
  BY <1>2, <1>3 DEF LoopReach

\* A write ends, or fails: its file holds a record, none, or no record.
LEMMA WrittenTyped ==
  ASSUME LoopTypeOK, NEW a \in Actors, Written(a)
  PROVE  file' \in [LoopIds -> Loops \cup {Nil, Torn}]
  BY DEF Written, LoopTypeOK, Writes

LEMMA EnterStoreKeeps ==
  ASSUME LoopTypeOK, NEW a \in Clients \cup Ticks, EnterStore(a)
  PROVE  /\ pc' = [pc EXCEPT ![a] = pc'[a]] /\ pc'[a] \in {"load", "do"}
         /\ toRead' \in [Clients \cup Ticks -> SUBSET LoopIds] /\ clash' \in BOOLEAN
<1>1. CASE loaded
  BY <1>1 DEF EnterStore, Goto, LoopTypeOK
<1>2. CASE ~loaded
  <2>1. /\ pc' = [pc EXCEPT ![a] = "load"]
        /\ toRead' = [toRead EXCEPT ![a] = {i \in LoopIds : file[i] # Nil}]
        /\ clash' = (clash \/ \E b \in Clients \cup Ticks : pc[b] = "load")
    BY <1>2 DEF EnterStore, Goto
  <2>2. {i \in LoopIds : file[i] # Nil} \in SUBSET LoopIds
    OBVIOUS
  <2> QED
    BY <2>1, <2>2 DEF LoopTypeOK
<1> QED
  BY <1>1, <1>2

\* A call or a tick that ends waits for nothing.
LEMMA DoneKeeps ==
  ASSUME LoopReach, NEW a \in Clients \cup Ticks, Goto(a, "done"), Forget(a), Settle(a),
         UNCHANGED <<phase, toRead, nextSeq, running, active, overlap>>,
         loaded' \in BOOLEAN, file' \in [LoopIds -> Loops \cup {Nil, Torn}], faults' \in Nat,
         due' \in [Ticks -> SUBSET LoopIds],
         ended' \subseteq Clients, stuck' \subseteq Clients, back' \subseteq Clients
  PROVE  LoopReach'
<1>a. a \in Actors
  BY LoopActors
<1>1. /\ cache' = cache /\ clash' = clash
      /\ writing' \in [Actors -> Writes \cup {Nil}] /\ writing'[a] = Nil
      /\ \A b \in Actors : b # a => writing'[b] = writing[b]
  BY <1>a, SettleKeeps DEF LoopReach
<1>2. /\ pc' = [pc EXCEPT ![a] = "done"] /\ target' = [target EXCEPT ![a] = Nil]
      /\ op' \in [Clients -> Ops \cup {Nil}] /\ \A c \in Clients : c # a => op'[c] = op[c]
  BY DEF Goto, Forget, LoopReach, LoopTypeOK
<1>3. LoopTypeOK'
  BY <1>1, <1>2 DEF LoopReach, LoopTypeOK
<1>4. LoopPlaces'
  BY <1>1, <1>2, LoopActors DEF LoopReach, LoopTypeOK, LoopPlaces
<1> QED
  BY <1>3, <1>4 DEF LoopReach

\* A tick goes on.
LEMMA AdvanceReaches ==
  ASSUME LoopReach, NEW t \in Ticks, NEW left \in SUBSET LoopIds, Advance(t, left), Settle(t),
         active' \subseteq LoopIds, phase' \in [Runs -> {"idle", "begin", "recordWrite", "nextWrite", "expiryWrite"}],
         \A r \in Runs : phase[r] # "idle" => phase'[r] = phase[r],
         UNCHANGED <<toRead, nextSeq, running, overlap, loaded, told, faults>>,
         file' \in [LoopIds -> Loops \cup {Nil, Torn}]
  PROVE  LoopReach'
<1>1. /\ cache' = cache /\ clash' = clash
      /\ writing' \in [Actors -> Writes \cup {Nil}] /\ writing'[t] = Nil
      /\ \A b \in Actors : b # t => writing'[b] = writing[b]
  BY LoopActors, SettleKeeps DEF LoopReach
<1>2. /\ pc' = [pc EXCEPT ![t] = pc'[t]] /\ pc'[t] \in {"done", "look"}
      /\ target' = [target EXCEPT ![t] = target'[t]] /\ target'[t] \in LoopIds \cup {Nil}
      /\ op' = op /\ due' \in [Ticks -> SUBSET LoopIds]
      /\ pc'[t] = "look" => target'[t] # Nil
  BY AdvanceKeeps, LoopAssumption DEF LoopReach
<1>3. LoopTypeOK'
  BY <1>1, <1>2 DEF LoopReach, LoopTypeOK, told
<1>4. LoopPlaces'
  <2>1. ASSUME NEW c \in Clients
        PROVE  c # t /\ pc'[c] = pc[c] /\ op'[c] = op[c] /\ target'[c] = target[c] /\ writing'[c] = writing[c]
    BY <1>1, <1>2, LoopActors DEF LoopReach, LoopTypeOK
  <2>2. ASSUME NEW u \in Ticks, u # t
        PROVE  pc'[u] = pc[u] /\ target'[u] = target[u] /\ writing'[u] = writing[u]
    BY <1>1, <1>2, <2>2, LoopActors DEF LoopReach, LoopTypeOK
  <2>3. ASSUME NEW r \in Runs
        PROVE  writing'[r] = writing[r] /\ (phase[r] # "idle" => phase'[r] = phase[r])
    BY <1>1, LoopActors
  <2> QED
    BY <1>1, <1>2, <2>1, <2>2, <2>3 DEF LoopReach, LoopPlaces
<1> QED
  BY <1>3, <1>4 DEF LoopReach

\* A tick records that it skipped a loop, or stores it again.
LEMMA TickStoreKeeps ==
  ASSUME LoopReach, NEW t \in Ticks, target[t] \in LoopIds, NEW record \in Loops, Store(t, target[t], record),
         NEW place \in {"skipRecord", "skipWrite"}, Goto(t, place),
         UNCHANGED <<phase, op, target, toRead, due, nextSeq, told, active, running, loaded, faults, overlap>>,
         file' \in [LoopIds -> Loops \cup {Nil, Torn}]
  PROVE  LoopReach'
<1>0. record # Nil /\ t \in Clients \cup Ticks
  BY LoopAssumption
<1>1. /\ cache' \in [LoopIds -> Loops \cup {Nil}] /\ clash' \in BOOLEAN
      /\ writing' \in [Actors -> Writes \cup {Nil}] /\ writing'[t] # Nil /\ writing'[t].id = target[t]
      /\ \A b \in Actors : b # t => writing'[b] = writing[b]
  BY <1>0, LoopActors, StoreKeeps DEF LoopReach
<1>2. LoopTypeOK'
  BY <1>0, <1>1 DEF LoopReach, LoopTypeOK, Goto, told
<1>3. /\ pc'[t] = place /\ t \notin Clients
      /\ \A a \in Clients \cup Ticks : a # t => pc'[a] = pc[a]
  BY <1>0, LoopActors DEF Goto, LoopReach, LoopTypeOK
<1>4. LoopPlaces'
  <2>1. \A c \in Clients : pc'[c] = pc[c] /\ writing'[c] = writing[c]
    BY <1>1, <1>3, LoopActors
  <2>2. \A u \in Ticks : u # t => pc'[u] = pc[u] /\ writing'[u] = writing[u]
    BY <1>1, <1>3, LoopActors
  <2>3. \A r \in Runs : writing'[r] = writing[r]
    BY <1>1, LoopActors
  <2>4. target[t] # Nil
    BY LoopAssumption
  <2> QED
    BY <1>1, <1>3, <2>1, <2>2, <2>3, <2>4 DEF LoopReach, LoopPlaces
<1> QED
  BY <1>2, <1>4 DEF LoopReach

LEMMA LoopReachStep == LoopReach /\ [LoopNext]_loopVars => LoopReach'
<1> SUFFICES ASSUME LoopReach, [LoopNext]_loopVars PROVE LoopReach'
  OBVIOUS
<1>t. LoopTypeOK /\ LoopPlaces
  BY DEF LoopReach
<1>0. CASE UNCHANGED loopVars
  BY <1>0 DEF loopVars, storeVars, history, told, LoopReach, LoopTypeOK, LoopPlaces
<1>1. ASSUME NEW c \in Clients, Call(c) PROVE LoopReach'
  <2>1. PICK o \in OpsOf[c], i \in LoopIds :
          /\ nextSeq' = IF o = "create" THEN i ELSE nextSeq
          /\ op' = [op EXCEPT ![c] = o] /\ target' = [target EXCEPT ![c] = i]
    BY <1>1 DEF Call
  <2>2. o \in Ops /\ o # Nil /\ i # Nil /\ LoopIds \subseteq 0..Cardinality(Clients)
    BY LoopAssumption, FS_CardinalityType DEF LoopIds
  <2>3. /\ pc' = [pc EXCEPT ![c] = pc'[c]] /\ pc'[c] \in {"load", "do"}
        /\ toRead' \in [Clients \cup Ticks -> SUBSET LoopIds] /\ clash' \in BOOLEAN
    BY <1>1, <1>t, EnterStoreKeeps DEF Call
  <2>4. LoopTypeOK'
    <3>1. /\ op' \in [Clients -> Ops \cup {Nil}]
          /\ target' \in [Clients \cup Ticks -> LoopIds \cup {Nil}]
          /\ nextSeq' \in 0..Cardinality(Clients)
      BY <1>t, <2>1, <2>2 DEF LoopTypeOK
    <3>2. pc' \in [Clients \cup Ticks ->
                     {"idle", "load", "do", "write", "look", "skipRecord", "skipWrite", "done"}]
      BY <1>t, <2>3 DEF LoopTypeOK
    <3>3. UNCHANGED <<phase, due, writing, cache, loaded, file, active, running, told, overlap, faults>>
      BY <1>1 DEF Call
    <3> QED
      BY <1>t, <2>3, <3>1, <3>2, <3>3 DEF LoopTypeOK, told
  <2>5. LoopPlaces'
    BY <1>1, <1>t, <2>1, <2>2, <2>3, LoopActors DEF Call, LoopTypeOK, LoopPlaces
  <2> QED
    BY <2>4, <2>5 DEF LoopReach
<1>2. ASSUME NEW c \in Clients, Do(c) PROVE LoopReach'
  <2> DEFINE i == target[c]
             new == Changed(c, cache[i])
  <2>1. /\ pc[c] = "do" /\ op[c] \in Ops /\ i \in LoopIds /\ cache[i] \in Loops \cup {Nil}
        /\ c \in Clients \cup Ticks /\ c \in Actors
        /\ UNCHANGED <<phase, toRead, due, loaded, file, nextSeq, active, running, overlap, faults>>
    BY <1>2, <1>t, LoopActors DEF Do, LoopTypeOK, LoopPlaces
  <2>2. ended' \subseteq Clients /\ UNCHANGED <<stuck, back>>
    BY <1>2, <1>t DEF Do, LoopTypeOK
  <2>3. CASE Goto(c, "done") /\ Forget(c) /\ Settle(c)
    BY <2>1, <2>2, <2>3, <1>t, DoneKeeps DEF LoopTypeOK
  <2>4. CASE Goto(c, "write") /\ Keep /\ Store(c, i, new) /\ (op[c] = "create" \/ cache[i] # Nil)
    <3>1. new \in Loops \cup {Nil} /\ (new # Nil \/ cache[i] # Nil)
      BY <2>1, <2>4, ChangedTyped
    <3>2. /\ cache' \in [LoopIds -> Loops \cup {Nil}] /\ clash' \in BOOLEAN
          /\ writing' \in [Actors -> Writes \cup {Nil}] /\ writing'[c] # Nil /\ writing'[c].id = i
          /\ \A b \in Actors : b # c => writing'[b] = writing[b]
      BY <2>1, <2>4, <3>1, <1>t, StoreKeeps
    <3>3. LoopTypeOK'
      BY <2>1, <2>2, <2>4, <3>2, <1>t DEF Goto, Keep, LoopTypeOK
    <3>4. LoopPlaces'
      BY <2>1, <2>4, <3>2, <1>t, LoopActors DEF Goto, Keep, LoopTypeOK, LoopPlaces
    <3> QED
      BY <3>3, <3>4 DEF LoopReach
  <2> QED
    BY <1>2, <2>3, <2>4 DEF Do
<1>3. ASSUME NEW c \in Clients, EndCallWrite(c) PROVE LoopReach'
  <2>1. c \in Clients \cup Ticks /\ c \in Actors /\ file' \in [LoopIds -> Loops \cup {Nil, Torn}]
    BY <1>3, <1>t, LoopActors, WrittenTyped DEF EndCallWrite
  <2>2. ended' \subseteq Clients /\ stuck' \subseteq Clients /\ back' \subseteq Clients
    <3>1. writing[c].by \in Clients
      BY <1>3, <1>t, <2>1 DEF EndCallWrite, Written, LoopTypeOK, Writes
    <3> QED
      BY <1>3, <1>t, <3>1 DEF EndCallWrite, LoopTypeOK, told
  <2> QED
    BY <1>3, <1>t, <2>1, <2>2, DoneKeeps DEF EndCallWrite, LoopTypeOK
<1>4. ASSUME NEW t \in Ticks, Tick(t) PROVE LoopReach'
  <2>1. /\ pc' = [pc EXCEPT ![t] = pc'[t]] /\ pc'[t] \in {"load", "do"}
        /\ toRead' \in [Clients \cup Ticks -> SUBSET LoopIds] /\ clash' \in BOOLEAN
    BY <1>4, <1>t, EnterStoreKeeps DEF Tick
  <2>2. LoopTypeOK'
    BY <1>4, <1>t, <2>1 DEF Tick, storeVars, LoopTypeOK, told
  <2>3. LoopPlaces'
    BY <1>4, <1>t, <2>1, LoopActors DEF Tick, LoopTypeOK, LoopPlaces
  <2> QED
    BY <2>2, <2>3 DEF LoopReach
<1>5. ASSUME NEW t \in Ticks, GetDue(t) PROVE LoopReach'
  <2>1. PICK d \in SUBSET LoopIds : Advance(t, d)
    BY <1>5 DEF GetDue
  <2>2. /\ pc' = [pc EXCEPT ![t] = pc'[t]] /\ pc'[t] \in {"done", "look"}
        /\ target' = [target EXCEPT ![t] = target'[t]] /\ target'[t] \in LoopIds \cup {Nil}
        /\ op' = op /\ due' \in [Ticks -> SUBSET LoopIds]
        /\ pc'[t] = "look" => target'[t] # Nil
    BY <1>5, <1>t, <2>1, AdvanceKeeps, LoopAssumption DEF GetDue, LoopTypeOK
  <2>3. LoopTypeOK'
    BY <1>5, <1>t, <2>2 DEF GetDue, storeVars, history, told, LoopTypeOK
  <2>4. LoopPlaces'
    BY <1>5, <1>t, <2>2, LoopActors DEF GetDue, LoopTypeOK, LoopPlaces
  <2> QED
    BY <2>3, <2>4 DEF LoopReach
<1>6. ASSUME NEW t \in Ticks, LookBusy(t) PROVE LoopReach'
  <2>1. target[t] \in LoopIds /\ cache[target[t]] \in Loops \cup {Nil} /\ due[t] \in SUBSET LoopIds
    BY <1>6, <1>t DEF LookBusy, LoopTypeOK, LoopPlaces
  <2>2. CASE /\ cache[target[t]] # Nil /\ Goto(t, "skipRecord") /\ Keep /\ UNCHANGED due
             /\ RecordRun(t, target[t])
    <3>1. [cache[target[t]] EXCEPT !.next = FALSE, !.ran = TRUE] \in Loops
      BY <2>1, <2>2 DEF Loops
    <3> QED
      BY <1>6, <1>t, <2>1, <2>2, <3>1, TickStoreKeeps DEF LookBusy, Keep, RecordRun, LoopTypeOK
  <2>3. CASE Advance(t, due[t]) /\ Settle(t)
    BY <1>6, <1>t, <2>1, <2>3, AdvanceReaches DEF LookBusy, LoopTypeOK
  <2> QED
    BY <1>6, <2>2, <2>3 DEF LookBusy
<1>7. ASSUME NEW t \in Ticks, LookFree(t) PROVE LoopReach'
  <2>1. target[t] \in LoopIds /\ due[t] \in SUBSET LoopIds /\ <<t, target[t]>> \in Runs
    BY <1>7, <1>t DEF LookFree, LoopTypeOK, LoopPlaces, Runs
  <2>2. active' \subseteq LoopIds /\ phase' \in [Runs -> {"idle", "begin", "recordWrite", "nextWrite", "expiryWrite"}]
    BY <1>7, <1>t, <2>1 DEF LookFree, LoopTypeOK
  <2>3. /\ pc' = [pc EXCEPT ![t] = pc'[t]] /\ pc'[t] \in {"done", "look"}
        /\ target' = [target EXCEPT ![t] = target'[t]] /\ target'[t] \in LoopIds \cup {Nil}
        /\ op' = op /\ due' \in [Ticks -> SUBSET LoopIds]
        /\ pc'[t] = "look" => target'[t] # Nil
    BY <1>7, <1>t, <2>1, <2>2, AdvanceKeeps, LoopAssumption DEF LookFree
  <2>4. LoopTypeOK'
    BY <1>7, <1>t, <2>2, <2>3 DEF LookFree, storeVars, history, told, LoopTypeOK
  <2>5. LoopPlaces'
    <3>1. /\ writing' = writing /\ pc[t] = "look"
          /\ \A r \in Runs : phase[r] # "idle" => phase'[r] # "idle"
      BY <1>7, <1>t, <2>1 DEF LookFree, LoopTypeOK
    <3> QED
      BY <1>t, <2>1, <2>3, <3>1, LoopActors DEF LoopTypeOK, LoopPlaces
  <2> QED
    BY <2>4, <2>5 DEF LoopReach
<1>8. ASSUME NEW t \in Ticks, EndTickWrite(t) PROVE LoopReach'
  <2>1. /\ file' \in [LoopIds -> Loops \cup {Nil, Torn}] /\ due[t] \in SUBSET LoopIds
        /\ target[t] \in LoopIds /\ cache[target[t]] \in Loops \cup {Nil}
    <3>1. writing[t] # Nil /\ file' \in [LoopIds -> Loops \cup {Nil, Torn}]
      BY <1>8, <1>t, LoopActors, WrittenTyped DEF EndTickWrite, Written
    <3>2. target[t] \in LoopIds
      BY <3>1, <1>t DEF LoopTypeOK, LoopPlaces
    <3> QED
      BY <3>1, <3>2, <1>t DEF LoopTypeOK
  <2>2. CASE Goto(t, "skipWrite") /\ ComputeNext(t, target[t]) /\ Keep /\ UNCHANGED due
    BY <1>8, <1>t, <2>1, <2>2, TickStoreKeeps DEF EndTickWrite, Keep, ComputeNext, LoopTypeOK
  <2>3. CASE Advance(t, due[t]) /\ Settle(t)
    BY <1>8, <1>t, <2>1, <2>3, AdvanceReaches DEF EndTickWrite, LoopTypeOK
  <2> QED
    BY <1>8, <2>2, <2>3 DEF EndTickWrite, ContinueTick
<1>9. ASSUME NEW r \in Runs, Run(r) PROVE LoopReach'
  <2>1. r[2] \in LoopIds /\ cache[r[2]] \in Loops \cup {Nil} /\ ThreadOf[r[2]] \in Threads
    BY <1>t, LoopActors DEF LoopTypeOK, Threads
  <2>2. running' \subseteq Threads
    BY <1>9, <1>t, <2>1 DEF Run, LoopTypeOK
  <2>3. CASE cache[r[2]] = Nil
    BY <1>9, <1>t, <2>2, <2>3, FinallyKeeps DEF Run, LoopTypeOK
  <2>4. CASE cache[r[2]] # Nil
    <3>1. [cache[r[2]] EXCEPT !.next = FALSE, !.ran = TRUE] \in Loops
      BY <2>1, <2>4 DEF Loops
    <3> QED
      BY <1>9, <1>t, <2>2, <2>4, <3>1, RunStoreKeeps DEF Run, RecordRun, LoopTypeOK
  <2> QED
    BY <2>3, <2>4
<1>10. ASSUME NEW r \in Runs, EndRunWrite(r) PROVE LoopReach'
  <2>1. /\ file' \in [LoopIds -> Loops \cup {Nil, Torn}] /\ r[2] \in LoopIds
        /\ cache[r[2]] \in Loops \cup {Nil} /\ running' \subseteq Threads
    BY <1>10, <1>t, LoopActors, WrittenTyped DEF EndRunWrite, LoopTypeOK
  <2>2. CASE Finally(r)
    BY <1>10, <1>t, <2>1, <2>2, FinallyKeeps DEF EndRunWrite, LoopTypeOK
  <2>3. CASE Enter(r, "nextWrite") /\ ComputeNext(r, r[2]) /\ UNCHANGED active
    BY <1>10, <1>t, <2>1, <2>3, RunStoreKeeps DEF EndRunWrite, ComputeNext, LoopTypeOK
  <2>4. CASE CheckExpiry(r)
    <3>1. CASE /\ cache[r[2]] # Nil /\ Enter(r, "expiryWrite") /\ UNCHANGED active
               /\ Store(r, r[2], [cache[r[2]] EXCEPT !.status = "expired"])
      <4>1. [cache[r[2]] EXCEPT !.status = "expired"] \in Loops
        BY <2>1, <3>1 DEF Loops
      <4> QED
        BY <1>10, <1>t, <2>1, <3>1, <4>1, RunStoreKeeps DEF EndRunWrite, LoopTypeOK
    <3> QED
      BY <2>2, <2>4, <3>1 DEF CheckExpiry
  <2> QED
    BY <1>10, <2>2, <2>3, <2>4 DEF EndRunWrite, Continue
<1>11. ASSUME NEW a \in Clients \cup Ticks, LoadOne(a) \/ EndLoad(a) PROVE LoopReach'
  <2>1. /\ pc[a] = "load" /\ (pc' = pc \/ pc' = [pc EXCEPT ![a] = "do"])
        /\ loaded' \in BOOLEAN /\ toRead' \in [Clients \cup Ticks -> SUBSET LoopIds]
        /\ UNCHANGED <<phase, op, target, due, writing, file, nextSeq, active, running, history>>
    <3>1. CASE LoadOne(a)
      <4>1. PICK i \in toRead[a] : toRead' = [toRead EXCEPT ![a] = @ \ {i}]
        BY <3>1 DEF LoadOne
      <4>2. toRead' \in [Clients \cup Ticks -> SUBSET LoopIds]
        BY <1>t, <4>1 DEF LoopTypeOK
      <4> QED
        BY <3>1, <4>2, <1>t DEF LoadOne, Goto, LoopTypeOK
    <3>2. CASE EndLoad(a)
      BY <3>2, <1>t DEF EndLoad, Goto, LoopTypeOK
    <3> QED
      BY <1>11, <3>1, <3>2
  <2>2. cache' \in [LoopIds -> Loops \cup {Nil}]
    BY <1>11, <1>t DEF LoadOne, EndLoad, LoopTypeOK
  <2>3. LoopTypeOK'
    BY <1>t, <2>1, <2>2 DEF history, told, LoopTypeOK
  <2>4. LoopPlaces'
    BY <1>t, <2>1, LoopActors DEF LoopTypeOK, LoopPlaces
  <2> QED
    BY <2>3, <2>4 DEF LoopReach
<1>12. ASSUME NEW a \in Actors, FailWrite(a) PROVE LoopReach'
  <2>1. file' \in [LoopIds -> Loops \cup {Nil, Torn}] /\ faults' \in Nat
    BY <1>12, <1>t, LoopAssumption DEF FailWrite, LoopTypeOK, Writes
  <2>2. CASE a \in Runs
    BY <1>12, <1>t, <2>1, <2>2, FinallyKeeps DEF FailWrite, Keep, LoopTypeOK
  <2>3. CASE a \notin Runs
    <3>1. a \in Clients \cup Ticks /\ due' \in [Ticks -> SUBSET LoopIds]
      BY <1>12, <1>t, <2>3 DEF FailWrite, LoopTypeOK, Actors
    <3> QED
      BY <1>12, <1>t, <2>1, <2>3, <3>1, DoneKeeps DEF FailWrite, LoopTypeOK, told
  <2> QED
    BY <2>2, <2>3
<1>13. ASSUME NEW th \in Threads, TurnEnds(th) PROVE LoopReach'
  BY <1>13 DEF TurnEnds, storeVars, history, told, LoopReach, LoopTypeOK, LoopPlaces
<1>14. ASSUME Restart PROVE LoopReach'
  <2>1. /\ pc' \in [Clients \cup Ticks -> {"idle", "done"}] /\ phase' \in [Runs -> {"idle"}]
        /\ op' \in [Clients -> {Nil}] /\ target' \in [Clients \cup Ticks -> {Nil}]
        /\ writing' \in [Actors -> {Nil}] /\ toRead' \in [Clients \cup Ticks -> {{}}]
        /\ due' \in [Ticks -> {{}}] /\ cache' \in [LoopIds -> {Nil}]
        /\ loaded' = FALSE /\ nextSeq' = 0 /\ active' = {}
        /\ UNCHANGED <<running, ended, stuck, clash, overlap>> /\ back' = stuck
    BY <1>14 DEF Restart
  <2>2. faults' \in Nat /\ Cardinality(Clients) \in Nat
    BY <1>14, <1>t, LoopAssumption, FS_CardinalityType DEF Restart, LoopTypeOK
  <2>3. file' \in [LoopIds -> Loops \cup {Nil, Torn}]
    <3> DEFINE under == {writing[a] : a \in {b \in Actors : writing[b] # Nil}}
    <3>1. PICK landed \in SUBSET under, broken \in SUBSET {w.id : w \in under} :
            file' = [i \in LoopIds |->
                       IF i \in broken THEN Torn
                       ELSE IF \E w \in landed : w.id = i THEN (CHOOSE w \in landed : w.id = i).record
                       ELSE file[i]]
      BY <1>14 DEF Restart
    <3>2. \A w \in under : w.record \in Loops \cup {Nil}
      BY <1>t DEF LoopTypeOK, Writes
    <3>3. ASSUME NEW i \in LoopIds, \E w \in landed : w.id = i
          PROVE  (CHOOSE w \in landed : w.id = i).record \in Loops \cup {Nil}
      <4>1. (CHOOSE w \in landed : w.id = i) \in landed
        BY <3>3
      <4> QED
        BY <4>1, <3>2
    <3> QED
      BY <3>1, <3>3, <1>t DEF LoopTypeOK
  <2>4. LoopTypeOK'
    <3>1. nextSeq' \in 0..Cardinality(Clients) /\ active' \subseteq LoopIds
      BY <2>1, <2>2
    <3>2. /\ (pc \in [Clients \cup Ticks -> {"idle", "load", "do", "write", "look", "skipRecord", "skipWrite", "done"}])'
          /\ (phase \in [Runs -> {"idle", "begin", "recordWrite", "nextWrite", "expiryWrite"}])'
          /\ (op \in [Clients -> Ops \cup {Nil}])'
          /\ (target \in [Clients \cup Ticks -> LoopIds \cup {Nil}])'
      BY <2>1
    <3>3. /\ (toRead \in [Clients \cup Ticks -> SUBSET LoopIds])'
          /\ (due \in [Ticks -> SUBSET LoopIds])'
      BY <2>1
    <3>4. /\ (writing \in [Actors -> Writes \cup {Nil}])'
          /\ (cache \in [LoopIds -> Loops \cup {Nil}])'
      BY <2>1
    <3> QED
      BY <1>t, <2>1, <2>2, <2>3, <3>1, <3>2, <3>3, <3>4 DEF LoopTypeOK
  <2>5. LoopPlaces'
    BY <2>1, LoopActors DEF LoopPlaces
  <2> QED
    BY <2>4, <2>5 DEF LoopReach
<1>15. ASSUME NEW c \in Clients, FailUnlink(c) PROVE LoopReach'
  <2>1. writing[c].by \in Clients /\ c \in Clients \cup Ticks
    BY <1>15, <1>t, LoopActors DEF FailUnlink, LoopTypeOK, Writes
  <2>2. ended' \subseteq Clients /\ stuck' \subseteq Clients /\ back' \subseteq Clients
    BY <1>15, <1>t, <2>1 DEF FailUnlink, LoopTypeOK
  <2> QED
    BY <1>15, <1>t, <2>1, <2>2, DoneKeeps DEF FailUnlink, LoopTypeOK
<1> QED
  BY <1>0, <1>1, <1>2, <1>3, <1>4, <1>5, <1>6, <1>7, <1>8, <1>9, <1>10, <1>11, <1>12, <1>13, <1>14, <1>15 DEF LoopNext

LEMMA LoopReached == LoopSpec => []LoopReach
  BY LoopReachInit, LoopReachStep, PTL DEF LoopSpec

LEMMA LoopsFinite == IsFiniteSet(LoopIds) /\ IsFiniteSet(Runs)
<1>1. Cardinality(Clients) \in Nat
  BY LoopAssumption, FS_CardinalityType
<1>2. IsFiniteSet(LoopIds)
  BY <1>1, FS_Interval DEF LoopIds
<1>3. IsFiniteSet(Ticks \X LoopIds)
  BY <1>2, LoopAssumption, FS_Product
<1> QED
  BY <1>2, <1>3 DEF Runs

\* A loop that starts is one more, a run that ends one less.
LEMMA ActiveCounts ==
  ASSUME NEW S \in SUBSET LoopIds, NEW i \in LoopIds
  PROVE  /\ Cardinality(S) \in Nat
         /\ i \notin S => Cardinality(S \cup {i}) = Cardinality(S) + 1
         /\ Cardinality(S \ {i}) <= Cardinality(S) /\ Cardinality(S \ {i}) \in Nat
<1>1. IsFiniteSet(S) /\ Cardinality(S) \in Nat
  BY LoopsFinite, FS_Subset, FS_CardinalityType
<1>2. i \notin S => Cardinality(S \cup {i}) = Cardinality(S) + 1
  BY <1>1, FS_AddElement
<1>3. Cardinality(S \ {i}) <= Cardinality(S) /\ Cardinality(S \ {i}) \in Nat
  BY <1>1, FS_Subset, FS_CardinalityType
<1> QED
  BY <1>1, <1>2, <1>3

\* No tick begins or looks at another loop, and no run begins or ends.
LEMMA RunsFrame ==
  ASSUME RunsInv, UNCHANGED <<active, overlap>>,
         \A r \in Runs : phase'[r] = "idle" <=> phase[r] = "idle",
         \A t \in Ticks : /\ pc'[t] \in {"idle", "done"} \/ pc[t] \notin {"idle", "done"}
                          /\ pc'[t] = "look" => pc[t] = "look" /\ target'[t] = target[t]
  PROVE  RunsInv'
<1>1. Under' = Under
  BY DEF Under
<1> QED
  BY <1>1 DEF RunsInv

\* A run ends.
LEMMA RunsEnd ==
  ASSUME LoopTypeOK, RunsInv, NEW r \in Under, Enter(r, "idle"), active' = active \ {r[2]},
         UNCHANGED <<pc, target, overlap>>
  PROVE  RunsInv'
<1>1. Under' = Under \ {r} /\ r \in Runs /\ r[2] \in LoopIds
  BY LoopActors DEF Under, Enter, LoopTypeOK
<1>2. /\ Cardinality(active) \in Nat /\ Cardinality(active') \in Nat
      /\ Cardinality(active') <= Cardinality(active)
  BY <1>1, ActiveCounts DEF LoopTypeOK
<1>3. (active \subseteq {s[2] : s \in Under})'
  BY <1>1 DEF RunsInv
<1> SUFFICES ASSUME ~overlap
    PROVE  /\ \A t, u \in Ticks : pc[t] \notin {"idle", "done"} /\ pc[u] \notin {"idle", "done"} => t = u
           /\ \A s \in Under' : s[2] \in active'
           /\ \A q, s \in Under' : q[2] = s[2] => q = s
           /\ Cardinality(active') <= MaxConcurrent
           /\ \A t \in Ticks : pc[t] = "look" => target[t] \notin active' /\ Cardinality(active') < MaxConcurrent
  BY <1>3 DEF RunsInv
<1>4. /\ \A s \in Under' : s[2] \in active'
      /\ \A q, s \in Under' : q[2] = s[2] => q = s
  BY <1>1 DEF RunsInv
<1>5. /\ Cardinality(active') <= MaxConcurrent
      /\ Cardinality(active) < MaxConcurrent => Cardinality(active') < MaxConcurrent
  BY <1>2, LoopAssumption DEF RunsInv
<1>6. \A t \in Ticks : pc[t] = "look" => target[t] \notin active' /\ Cardinality(active') < MaxConcurrent
  BY <1>5 DEF RunsInv
<1> QED
  BY <1>4, <1>5, <1>6 DEF RunsInv

\* A tick goes on, with no run begun.
LEMMA RunsAdvance ==
  ASSUME LoopTypeOK, RunsInv, NEW t \in Ticks, NEW left \in SUBSET LoopIds, Advance(t, left),
         pc[t] \notin {"idle", "done"}, UNCHANGED <<phase, active, overlap>>
  PROVE  RunsInv'
<1>1. /\ pc' = [pc EXCEPT ![t] = pc'[t]] /\ pc'[t] \in {"done", "look"}
      /\ target' = [target EXCEPT ![t] = target'[t]]
      /\ pc'[t] = "look" => target'[t] \notin active /\ ~(Cardinality(active) >= MaxConcurrent)
  BY AdvanceKeeps DEF LoopTypeOK
<1>2. Cardinality(active) \in Nat
  BY LoopsFinite, FS_Subset, FS_CardinalityType DEF LoopTypeOK
<1>3. Under' = Under
  BY DEF Under
<1>4. \A u \in Ticks : u # t => pc'[u] = pc[u] /\ target'[u] = target[u]
  BY <1>1 DEF LoopTypeOK
<1> QED
  BY <1>1, <1>2, <1>3, <1>4, LoopAssumption DEF RunsInv

\* A tick starts the loop it looked at, and goes on.
LEMMA RunsBegin ==
  ASSUME LoopReach, RunsInv, NEW t \in Ticks, LookFree(t)
  PROVE  RunsInv'
<1> DEFINE i == target[t]
           r == <<t, i>>
<1>1. /\ pc[t] = "look" /\ i \in LoopIds /\ due[t] \in SUBSET LoopIds /\ r \in Runs /\ r[2] = i
      /\ active' = active \cup {i} /\ active' \subseteq LoopIds /\ overlap' = overlap
      /\ Advance(t, due[t])
  BY DEF LookFree, LoopReach, LoopTypeOK, LoopPlaces, Runs, history, told
<1>2. Under' = Under \cup {r}
  BY <1>1 DEF LookFree, Under, LoopReach, LoopTypeOK
<1>3. /\ pc' = [pc EXCEPT ![t] = pc'[t]] /\ pc'[t] \in {"done", "look"}
      /\ target' = [target EXCEPT ![t] = target'[t]]
      /\ pc'[t] = "look" => target'[t] \notin active' /\ ~(Cardinality(active') >= MaxConcurrent)
  BY <1>1, AdvanceKeeps DEF LoopReach
<1>4. \A u \in Ticks : u # t => pc'[u] = pc[u] /\ target'[u] = target[u]
  BY <1>3 DEF LoopReach, LoopTypeOK
<1>5. Cardinality(active) \in Nat /\ Cardinality(active') \in Nat
  BY <1>1, LoopsFinite, FS_Subset, FS_CardinalityType DEF LoopReach, LoopTypeOK
<1>6. (active \subseteq {s[2] : s \in Under})'
  BY <1>1, <1>2 DEF RunsInv
<1>7. ASSUME ~overlap
      PROVE  /\ \A u, v \in Ticks : pc'[u] \notin {"idle", "done"} /\ pc'[v] \notin {"idle", "done"} => u = v
             /\ \A s \in Under' : s[2] \in active'
             /\ \A q, s \in Under' : q[2] = s[2] => q = s
             /\ Cardinality(active') <= MaxConcurrent
             /\ \A u \in Ticks : pc'[u] = "look" => target'[u] \notin active' /\ Cardinality(active') < MaxConcurrent
  <2>1. i \notin active /\ Cardinality(active) < MaxConcurrent
    BY <1>1, <1>7 DEF RunsInv
  <2>2. Cardinality(active') = Cardinality(active) + 1
    BY <1>1, <2>1, ActiveCounts DEF LoopReach, LoopTypeOK
  <2>3. \A u \in Ticks : u # t => pc[u] \in {"idle", "done"}
    BY <1>1, <1>7 DEF RunsInv
  <2>4. \A s \in Under : s[2] \in active /\ s[2] # i
    BY <1>7, <2>1 DEF RunsInv
  <2>5. \A q, s \in Under' : q[2] = s[2] => q = s
    BY <1>1, <1>2, <1>7, <2>4 DEF RunsInv
  <2>6. \A u, v \in Ticks : pc'[u] \notin {"idle", "done"} /\ pc'[v] \notin {"idle", "done"} => u = v
    BY <1>4, <2>3
  <2>7. \A u \in Ticks : pc'[u] = "look" => target'[u] \notin active' /\ Cardinality(active') < MaxConcurrent
    BY <1>3, <1>4, <1>5, <2>3, LoopAssumption
  <2>8. \A s \in Under' : s[2] \in active'
    BY <1>1, <1>2, <2>4
  <2>9. Cardinality(active') <= MaxConcurrent
    BY <1>5, <2>1, <2>2, LoopAssumption
  <2> QED
    BY <2>5, <2>6, <2>7, <2>8, <2>9
<1> QED
  BY <1>1, <1>6, <1>7 DEF RunsInv

LEMMA RunsStep ==
  ASSUME LoopReach, RunsInv, [LoopNext]_loopVars
  PROVE  RunsInv'
<1>t. LoopTypeOK /\ LoopPlaces
  BY DEF LoopReach
<1>0. CASE UNCHANGED loopVars
  BY <1>0, RunsFrame DEF loopVars, history, told
<1>1. ASSUME NEW c \in Clients, Call(c) \/ Do(c) \/ EndCallWrite(c) \/ FailUnlink(c) PROVE RunsInv'
  <2>1. UNCHANGED <<phase, active, overlap>>
    BY <1>1 DEF Call, Do, EndCallWrite, FailUnlink
  <2>2. \A t \in Ticks : pc'[t] = pc[t] /\ target'[t] = target[t]
    BY <1>1, <1>t, LoopActors DEF Call, EnterStore, Do, EndCallWrite, FailUnlink, Goto, Forget, Keep, LoopTypeOK
  <2> QED
    BY <2>1, <2>2, RunsFrame
<1>2. ASSUME NEW t \in Ticks, Tick(t) PROVE RunsInv'
  <2>1. UNCHANGED <<phase, active, target>> /\ overlap' = (overlap \/ \E u \in Ticks : pc[u] \notin {"idle", "done"})
    BY <1>2 DEF Tick, storeVars
  <2>2. pc' = [pc EXCEPT ![t] = pc'[t]] /\ pc'[t] \in {"load", "do"}
    BY <1>2, <1>t, EnterStoreKeeps DEF Tick
  <2>3. Under' = Under /\ \A u \in Ticks : u # t => pc'[u] = pc[u]
    BY <2>1, <2>2, <1>t DEF Under, LoopTypeOK
  <2> QED
    BY <2>1, <2>2, <2>3 DEF RunsInv
<1>3. ASSUME NEW t \in Ticks, GetDue(t) PROVE RunsInv'
  <2>1. PICK d \in SUBSET LoopIds : Advance(t, d)
    BY <1>3 DEF GetDue
  <2> QED
    BY <1>3, <1>t, <2>1, RunsAdvance DEF GetDue, history, told
<1>4. ASSUME NEW t \in Ticks, LookBusy(t) PROVE RunsInv'
  <2>1. pc[t] = "look" /\ UNCHANGED <<phase, active, overlap>> /\ due[t] \in SUBSET LoopIds
    BY <1>4, <1>t DEF LookBusy, LoopTypeOK
  <2>2. CASE Goto(t, "skipRecord") /\ Keep
    BY <2>1, <2>2, <1>t, RunsFrame DEF Goto, Keep, LoopTypeOK
  <2>3. CASE Advance(t, due[t])
    BY <2>1, <2>3, <1>t, RunsAdvance
  <2> QED
    BY <1>4, <2>2, <2>3 DEF LookBusy
<1>5. ASSUME NEW t \in Ticks, LookFree(t) PROVE RunsInv'
  BY <1>5, RunsBegin
<1>6. ASSUME NEW t \in Ticks, EndTickWrite(t) PROVE RunsInv'
  <2>1. pc[t] \in {"skipRecord", "skipWrite"} /\ UNCHANGED <<phase, active, overlap>> /\ due[t] \in SUBSET LoopIds
    BY <1>6, <1>t DEF EndTickWrite, Written, LoopTypeOK, LoopPlaces
  <2>2. CASE Goto(t, "skipWrite") /\ Keep
    BY <2>1, <2>2, <1>t, RunsFrame DEF Goto, Keep, LoopTypeOK
  <2>3. CASE Advance(t, due[t])
    BY <2>1, <2>3, <1>t, RunsAdvance
  <2> QED
    BY <1>6, <2>2, <2>3 DEF EndTickWrite, ContinueTick
<1>7. ASSUME NEW r \in Runs, phase[r] # "idle", Finally(r), UNCHANGED <<pc, target, overlap>> PROVE RunsInv'
  BY <1>7, <1>t, RunsEnd DEF Finally, Under
<1>8. ASSUME NEW r \in Runs, phase[r] # "idle", NEW place \in {"recordWrite", "nextWrite", "expiryWrite"},
             Enter(r, place), UNCHANGED <<pc, target, active, overlap>>
      PROVE  RunsInv'
  BY <1>8, <1>t, RunsFrame DEF Enter, LoopTypeOK
<1>9. ASSUME NEW r \in Runs, Run(r) PROVE RunsInv'
  BY <1>7, <1>8, <1>9 DEF Run
<1>10. ASSUME NEW r \in Runs, EndRunWrite(r) PROVE RunsInv'
  BY <1>7, <1>8, <1>10 DEF EndRunWrite, Continue, CheckExpiry
<1>11. ASSUME NEW a \in Clients \cup Ticks, LoadOne(a) \/ EndLoad(a) PROVE RunsInv'
  <2>1. UNCHANGED <<phase, active, overlap, target>> /\ pc[a] = "load"
    BY <1>11 DEF LoadOne, EndLoad, history, told
  <2>2. pc' = pc \/ pc' = [pc EXCEPT ![a] = "do"]
    BY <1>11 DEF LoadOne, EndLoad, Goto
  <2> QED
    BY <2>1, <2>2, <1>t, RunsFrame DEF LoopTypeOK
<1>12. ASSUME NEW a \in Actors, FailWrite(a) PROVE RunsInv'
  <2>1. CASE a \in Runs
    <3>1. phase[a] # "idle" /\ Finally(a) /\ UNCHANGED <<pc, target, overlap>>
      BY <1>12, <1>t, <2>1 DEF FailWrite, Keep, LoopPlaces
    <3> QED
      BY <2>1, <3>1, <1>7
  <2>2. CASE a \notin Runs
    <3>1. a \in Clients \cup Ticks /\ UNCHANGED <<phase, active, overlap>> /\ Goto(a, "done") /\ Forget(a)
      BY <1>12, <2>2 DEF FailWrite, Actors
    <3> QED
      BY <3>1, <1>t, RunsFrame DEF Goto, Forget, LoopTypeOK
  <2> QED
    BY <2>1, <2>2
<1>13. ASSUME NEW th \in Threads, TurnEnds(th) PROVE RunsInv'
  BY <1>13, RunsFrame DEF TurnEnds, history, told
<1>14. ASSUME Restart PROVE RunsInv'
  <2>1. active' = {} /\ (\A r \in Runs : phase'[r] = "idle") /\ overlap' = overlap
        /\ \A t \in Ticks : pc'[t] \in {"idle", "done"}
    BY <1>14 DEF Restart
  <2>2. Under' = {} /\ Cardinality(active') = 0
    BY <2>1, FS_EmptySet DEF Under
  <2> QED
    BY <2>1, <2>2, LoopAssumption DEF RunsInv
<1> QED
  BY <1>0, <1>1, <1>2, <1>3, <1>4, <1>5, <1>6, <1>9, <1>10, <1>11, <1>12, <1>13, <1>14 DEF LoopNext

\* Distinct runs under way are of distinct loops, and these are the active ones.
LEMMA UnderCounted ==
  ASSUME LoopTypeOK, RunsInv, ~overlap
  PROVE  Cardinality(Under) = Cardinality(active)
<1> DEFINE f == [r \in Under |-> r[2]]
<1>1. f \in Bijection(Under, active)
  <2>1. f \in [Under -> active]
    BY DEF RunsInv
  <2>2. \A r, s \in Under : f[r] = f[s] => r = s
    BY DEF RunsInv
  <2>3. \A i \in active : \E r \in Under : f[r] = i
    BY DEF RunsInv
  <2> QED
    BY <2>1, <2>2, <2>3 DEF Bijection, Injection, Surjection, IsInjective
<1>2. IsFiniteSet(Under)
  BY LoopsFinite, FS_Subset DEF Under
<1>3. ExistsBijection(Under, active)
  BY <1>1 DEF ExistsBijection
<1> QED
  BY <1>2, <1>3, FS_Bijection

LEMMA RunsReached == LoopSpec => []RunsInv
<1>1. LoopInit => RunsInv
  <2> SUFFICES ASSUME LoopInit PROVE RunsInv
    OBVIOUS
  <2>1. active = {} /\ Under = {} /\ \A t \in Ticks : pc[t] = "idle"
    BY DEF LoopInit, Under
  <2>2. Cardinality(active) = 0
    BY <2>1, FS_EmptySet
  <2> QED
    BY <2>1, <2>2, LoopAssumption DEF RunsInv
<1> QED
  BY <1>1, LoopReached, RunsStep, PTL DEF LoopSpec

\* LoopScheduler keeps every variable in the range the code gives it.
THEOREM LoopTypeCorrect == LoopSpec => []LoopTypeOK
<1>1. LoopReach => LoopTypeOK
  BY DEF LoopReach
<1> QED
  BY <1>1, LoopReached, PTL

\* A loop counts as active only while it runs; while ticks do not overlap a loop
\* runs once at a time, and no more of them than the settings allow, whatever
\* clients ask for, writes fail and restarts come between.
THEOREM LoopsCounted == LoopSpec => []RunsCounted
<1>1. LoopTypeOK /\ RunsInv => RunsCounted
  BY UnderCounted DEF RunsInv, RunsCounted, Under
<1> QED
  BY <1>1, LoopTypeCorrect, RunsReached, PTL
-----------------------------------------------------------------------------
(* Which loops have ended *)

\* Call b made what loop i holds: in the cache, in its file, or in a write.
Holds(b, i) ==
  \/ cache[i] \in Loops /\ cache[i].by = b
  \/ file[i] \in Loops /\ file[i].by = b
  \/ \E a \in Actors : /\ writing[a] # Nil /\ writing[a].id = i
                       /\ writing[a].by = b \/ (writing[a].record # Nil /\ writing[a].record.by = b)

\* Call c has yet to make its loop, or anything.
Unmade(c) == pc[c] = "idle" \/ (pc[c] \in {"load", "do"} /\ op[c] = "create")

\* A call makes one loop, and none before its turn.
MadeOnce ==
  /\ \A b \in Clients, i, j \in LoopIds : Holds(b, i) /\ Holds(b, j) => i = j
  /\ \A c \in Clients : Unmade(c) => c \notin ended /\ \A i \in LoopIds : ~Holds(c, i)

\* A cancel writes a cancelled record, a delete none.
AsAsked ==
  \A c \in Clients : writing[c] # Nil =>
    /\ op[c] = "delete" => writing[c].record = Nil
    /\ op[c] = "cancel" => /\ writing[c].record # Nil /\ writing[c].record.status = "cancelled"
                           /\ writing[c].record.by = writing[c].by

Kept(rec, who) == rec \in Loops /\ rec.by \in who => rec.status \in {"cancelled", "expired"}

\* While no two loads or writes of a file meet: one actor loads, with nothing else
\* under way; the cache holds what is written, of each loop once; and an ended loop
\* is over wherever it is.
EndedInv ==
  /\ \A a, b \in Clients \cup Ticks : pc[a] = "load" /\ pc[b] = "load" => a = b
  /\ loaded => \A a \in Clients \cup Ticks : pc[a] # "load"
  /\ ~loaded => /\ \A a \in Clients \cup Ticks : pc[a] \in {"idle", "load", "done"}
                /\ \A r \in Runs : phase[r] = "idle"
                /\ \A a \in Actors : writing[a] = Nil
  /\ \A a \in Actors : writing[a] # Nil =>
       /\ cache[writing[a].id] = writing[a].record
       /\ \A b \in Actors : b # a /\ writing[b] # Nil => writing[b].id # writing[a].id
  /\ back \subseteq stuck /\ (~loaded => back = stuck)
  /\ \A i \in LoopIds : Kept(cache[i], ended \ back) /\ Kept(file[i], ended \ stuck)

EndedSafe == MadeOnce /\ AsAsked /\ (~clash => EndedInv)

\* A file is left as it was, is no record, or is what actor a wrote.
FileFrom(a) ==
  /\ file' \in [LoopIds -> Loops \cup {Nil, Torn}]
  /\ \A j \in LoopIds : \/ file'[j] \in {file[j], Torn}
                        \/ writing[a] # Nil /\ j = writing[a].id /\ file'[j] = writing[a].record

LEMMA FileKept == ASSUME LoopTypeOK, NEW a \in Actors, UNCHANGED file PROVE FileFrom(a)
  BY DEF LoopTypeOK, FileFrom

LEMMA FileWritten == ASSUME LoopTypeOK, NEW a \in Actors, Written(a) PROVE FileFrom(a)
<1>1. PICK new \in {writing[a].record} \cup {Torn} : file' = [file EXCEPT ![writing[a].id] = new]
  BY DEF Written
<1>2. file' \in [LoopIds -> Loops \cup {Nil, Torn}] /\ writing[a] # Nil
  BY WrittenTyped DEF Written
<1> QED
  BY <1>1, <1>2 DEF LoopTypeOK, FileFrom

\* Nothing comes to hold what a call made but what it was made in.
LEMMA HoldsFrame ==
  ASSUME LoopTypeOK,
         \A j \in LoopIds : cache'[j] \in {cache[j], file[j], Nil},
         \A j \in LoopIds : \/ file'[j] \in {file[j], Torn}
                            \/ \E a \in Actors : writing[a] # Nil /\ j = writing[a].id /\ file'[j] = writing[a].record,
         \A a \in Actors : writing'[a] \in {writing[a], Nil},
         NEW b \in Clients, NEW i \in LoopIds, Holds(b, i)'
  PROVE  Holds(b, i)
<1>1. CASE cache'[i] \in Loops /\ cache'[i].by = b
  BY <1>1, LoopAssumption DEF Holds
<1>2. CASE file'[i] \in Loops /\ file'[i].by = b
  BY <1>2, LoopAssumption DEF Holds
<1>3. CASE \E a \in Actors : /\ writing'[a] # Nil /\ writing'[a].id = i
                             /\ writing'[a].by = b \/ (writing'[a].record # Nil /\ writing'[a].record.by = b)
  BY <1>3 DEF Holds
<1> QED
  BY <1>1, <1>2, <1>3 DEF Holds

LEMMA HoldsStore ==
  ASSUME LoopTypeOK, NEW a \in Actors, NEW k \in LoopIds, NEW record \in Loops \cup {Nil},
         cache[k] # Nil \/ record # Nil, Store(a, k, record), FileFrom(a),
         NEW b \in Clients, NEW i \in LoopIds, Holds(b, i)'
  PROVE  Holds(b, i) \/ (i = k /\ record # Nil /\ b = record.by)
<1> DEFINE w == [id |-> k, by |-> IF cache[k] = Nil THEN record.by ELSE cache[k].by, record |-> record]
<1>1. cache' = [cache EXCEPT ![k] = record] /\ writing' = [writing EXCEPT ![a] = w]
  BY DEF Store
<1>2. CASE cache'[i] \in Loops /\ cache'[i].by = b
  BY <1>1, <1>2, LoopAssumption DEF Holds, LoopTypeOK
<1>3. CASE file'[i] \in Loops /\ file'[i].by = b
  BY <1>3, LoopAssumption DEF Holds, FileFrom
<1>4. ASSUME NEW x \in Actors, writing'[x] # Nil, writing'[x].id = i,
             writing'[x].by = b \/ (writing'[x].record # Nil /\ writing'[x].record.by = b)
      PROVE  Holds(b, i) \/ (i = k /\ record # Nil /\ b = record.by)
  <2>1. CASE x # a
    BY <1>1, <1>4, <2>1 DEF Holds, LoopTypeOK
  <2>2. CASE x = a
    <3>1. writing'[x] = w
      BY <1>1, <2>2 DEF LoopTypeOK
    <3>2. i = k /\ (b = (IF cache[k] = Nil THEN record.by ELSE cache[k].by) \/ (record # Nil /\ record.by = b))
      BY <1>4, <3>1
    <3> QED
      BY <3>2 DEF Holds, LoopTypeOK
  <2> QED
    BY <2>1, <2>2
<1> QED
  BY <1>2, <1>3, <1>4 DEF Holds

\* A step by which nothing new is made keeps what was made apart.
LEMMA MadeOnceFrame ==
  ASSUME MadeOnce, \A b \in Clients, i \in LoopIds : Holds(b, i)' => Holds(b, i),
         \A b \in ended' : b \in ended \/ \E i \in LoopIds : Holds(b, i),
         \A c \in Clients : Unmade(c)' => Unmade(c)
  PROVE  MadeOnce'
  BY DEF MadeOnce

\* Nothing is written or read; the store is loaded, or nobody moves.
LEMMA SafeStill ==
  ASSUME LoopReach, EndedSafe, UNCHANGED <<cache, file, writing, told, clash, loaded, op>>,
         \/ UNCHANGED <<pc, phase>>
         \/ /\ ~clash => loaded
            /\ \A a \in Clients \cup Ticks : pc'[a] = "load" => pc[a] = "load"
            /\ \A c \in Clients : pc'[c] = pc[c]
  PROVE  EndedSafe'
<1>1. \A b \in Clients, i \in LoopIds : Holds(b, i)' => Holds(b, i)
  BY DEF Holds
<1>2. \A c \in Clients : Unmade(c)' => Unmade(c)
  BY DEF Unmade
<1>3. MadeOnce'
  BY <1>1, <1>2, MadeOnceFrame DEF EndedSafe, told
<1>4. AsAsked'
  BY DEF EndedSafe, AsAsked
<1>5. ~clash' => EndedInv'
  BY DEF EndedSafe, EndedInv, Kept, told
<1> QED
  BY <1>3, <1>4, <1>5 DEF EndedSafe

\* Actor a, which waited for a write or for nothing, goes on without another.
LEMMA SafeSettle ==
  ASSUME LoopReach, EndedSafe, NEW a \in Actors, Settle(a), FileFrom(a),
         UNCHANGED <<loaded, told>>, ~clash => loaded,
         \A x \in Clients \cup Ticks : pc'[x] = "load" => pc[x] = "load",
         \A c \in Clients : Unmade(c)' => Unmade(c),
         \A c \in Clients : c # a => op'[c] = op[c]
  PROVE  EndedSafe'
<1>1. /\ cache' = cache /\ clash' = clash /\ writing'[a] = Nil
      /\ \A b \in Actors : b # a => writing'[b] = writing[b]
  BY SettleKeeps DEF LoopReach
<1>2. \A b \in Clients, i \in LoopIds : Holds(b, i)' => Holds(b, i)
  BY <1>1, HoldsFrame DEF LoopReach, FileFrom
<1>3. MadeOnce'
  BY <1>2, MadeOnceFrame DEF EndedSafe, told
<1>4. AsAsked'
  BY <1>1, LoopActors DEF EndedSafe, AsAsked
<1>5. ASSUME ~clash PROVE EndedInv'
  <2>1. EndedInv /\ loaded /\ loaded'
    BY <1>5 DEF EndedSafe
  <2>2. \A x \in Actors : writing'[x] # Nil => x # a /\ writing'[x] = writing[x]
    BY <1>1
  <2>3. \A j \in LoopIds : Kept(cache[j], ended \ back)' /\ Kept(file[j], ended \ stuck)'
    <3> SUFFICES ASSUME NEW j \in LoopIds PROVE Kept(cache'[j], ended \ back) /\ Kept(file'[j], ended \ stuck)
      BY DEF Kept, told
    <3>1. Kept(Torn, ended \ stuck)
      BY LoopAssumption DEF Kept
    <3>2. writing[a] # Nil => Kept(writing[a].record, ended \ stuck)
      BY <2>1 DEF EndedInv, Kept, LoopReach, LoopTypeOK, Writes
    <3>3. Kept(cache[j], ended \ back) /\ Kept(file[j], ended \ stuck)
      BY <2>1 DEF EndedInv
    <3> QED
      BY <1>1, <3>1, <3>2, <3>3 DEF FileFrom
  <2>4. (back \subseteq stuck)'
    BY <2>1 DEF EndedInv, told
  <2> QED
    BY <1>1, <2>1, <2>2, <2>3, <2>4 DEF EndedInv
<1> QED
  BY <1>1, <1>3, <1>4, <1>5 DEF EndedSafe

\* Actor a stores another version of a loop, no less over than the one before.
LEMMA SafeStore ==
  ASSUME LoopReach, EndedSafe, NEW a \in Actors, NEW k \in LoopIds, NEW record \in Loops \cup {Nil},
         cache[k] # Nil \/ record # Nil, Store(a, k, record), FileFrom(a), loaded' = loaded, ~clash => loaded,
         ended' \subseteq ended, UNCHANGED <<stuck, back>>,
         ~clash => Kept(record, ended' \ back),
         \A x \in Clients \cup Ticks : pc'[x] = "load" => pc[x] = "load",
         MadeOnce', AsAsked'
  PROVE  EndedSafe'
<1>1. /\ cache' = [cache EXCEPT ![k] = record]
      /\ writing'[a] # Nil /\ writing'[a].id = k /\ writing'[a].record = record
      /\ \A b \in Actors : b # a => writing'[b] = writing[b]
      /\ clash' = (clash \/ \E b \in Actors \ {a} : writing[b] # Nil /\ writing[b].id = k)
  BY StoreKeeps DEF LoopReach, Store, LoopTypeOK
<1>2. ASSUME ~clash' PROVE EndedInv'
  <2>1. /\ ~clash /\ EndedInv /\ loaded /\ loaded'
        /\ \A b \in Actors \ {a} : writing[b] # Nil => writing[b].id # k
    BY <1>1, <1>2 DEF EndedSafe
  <2>2. \A j \in LoopIds : Kept(cache[j], ended \ back)' /\ Kept(file[j], ended \ stuck)'
    <3> SUFFICES ASSUME NEW j \in LoopIds PROVE Kept(cache'[j], ended' \ back) /\ Kept(file'[j], ended' \ stuck)
      BY DEF Kept
    <3>1. back \subseteq stuck /\ ended' \ stuck \subseteq ended' \ back
      BY <2>1 DEF EndedInv
    <3>2. Kept(Torn, ended' \ stuck)
      BY LoopAssumption DEF Kept
    <3>3. writing[a] # Nil => Kept(writing[a].record, ended' \ stuck)
      BY <2>1 DEF EndedInv, Kept, LoopReach, LoopTypeOK, Writes
    <3>4. Kept(record, ended' \ back)
      BY <2>1
    <3>5. Kept(cache[j], ended' \ back) /\ Kept(file[j], ended' \ stuck)
      BY <2>1 DEF EndedInv, Kept
    <3> QED
      BY <1>1, <3>2, <3>3, <3>4, <3>5 DEF FileFrom, LoopReach, LoopTypeOK
  <2>3. ASSUME NEW x \in Actors, writing'[x] # Nil
        PROVE  /\ cache'[writing'[x].id] = writing'[x].record
               /\ \A b \in Actors : b # x /\ writing'[b] # Nil => writing'[b].id # writing'[x].id
    <3>1. CASE x = a
      BY <1>1, <2>1, <3>1 DEF LoopReach, LoopTypeOK
    <3>2. CASE x # a
      <4>1. writing'[x] = writing[x] /\ writing[x] # Nil /\ writing[x].id # k
        BY <1>1, <2>1, <2>3, <3>2
      <4> QED
        BY <1>1, <2>1, <3>2, <4>1 DEF EndedInv, LoopReach, LoopTypeOK
    <3> QED
      BY <3>1, <3>2
  <2> QED
    BY <2>1, <2>2, <2>3 DEF EndedInv
<1> QED
  BY <1>2 DEF EndedSafe

\* A run or a tick stores another version of a loop.
LEMMA SafeRecord ==
  ASSUME LoopReach, EndedSafe, NEW a \in Ticks \cup Runs, NEW k \in LoopIds, NEW record \in Loops,
         cache[k] # Nil, Store(a, k, record), FileFrom(a), UNCHANGED <<loaded, told, op>>, ~clash => loaded,
         record.by = cache[k].by, record.status \in {cache[k].status, "expired"},
         \A x \in Clients \cup Ticks : pc'[x] = "load" => pc[x] = "load",
         \A c \in Clients : pc'[c] = pc[c]
  PROVE  EndedSafe'
<1>1. a \in Actors /\ a \notin Clients /\ record # Nil /\ cache[k] \in Loops
  BY LoopActors, LoopAssumption DEF LoopReach, LoopTypeOK
<1>2. \A b \in Clients, i \in LoopIds : Holds(b, i)' => Holds(b, i)
  <2> SUFFICES ASSUME NEW b \in Clients, NEW i \in LoopIds, Holds(b, i)' PROVE Holds(b, i)
    OBVIOUS
  <2>1. Holds(b, i) \/ (i = k /\ b = record.by)
    BY <1>1, HoldsStore DEF LoopReach
  <2> QED
    BY <1>1, <2>1 DEF Holds
<1>3. MadeOnce'
  BY <1>2, MadeOnceFrame DEF EndedSafe, Unmade, told
<1>4. \A c \in Clients : writing'[c] = writing[c]
  BY <1>1, StoreKeeps, LoopActors DEF LoopReach
<1>5. AsAsked'
  BY <1>4 DEF EndedSafe, AsAsked
<1>6. ended' = ended /\ UNCHANGED <<stuck, back>>
  BY DEF told
<1>7. ~clash => Kept(record, ended' \ back)
  BY <1>1, <1>6 DEF EndedSafe, EndedInv, Kept
<1> QED
  BY <1>1, <1>3, <1>5, <1>6, <1>7, SafeStore

\* A call or a tick enters the store, and loads it if nobody did.
LEMMA SafeEnter ==
  ASSUME LoopReach, EndedSafe, NEW a \in Clients \cup Ticks, pc[a] = "idle", EnterStore(a),
         UNCHANGED <<phase, cache, loaded, file, writing, told>>,
         \A c \in Clients : c # a => op'[c] = op[c]
  PROVE  EndedSafe'
<1>1. /\ pc' = [pc EXCEPT ![a] = pc'[a]]
      /\ pc'[a] = IF loaded THEN "do" ELSE "load"
      /\ clash' = (clash \/ (~loaded /\ \E b \in Clients \cup Ticks : pc[b] = "load"))
  BY DEF EnterStore, Goto, LoopReach, LoopTypeOK
<1>2. \A x \in Clients \cup Ticks : x # a => pc'[x] = pc[x]
  BY <1>1 DEF LoopReach, LoopTypeOK
<1>3. \A b \in Clients, i \in LoopIds : Holds(b, i)' => Holds(b, i)
  BY DEF Holds
<1>4. \A c \in Clients : Unmade(c)' => Unmade(c)
  BY <1>2 DEF Unmade
<1>5. MadeOnce'
  BY <1>3, <1>4, MadeOnceFrame DEF EndedSafe, told
<1>6. AsAsked'
  <2>1. a \in Clients => writing[a] = Nil
    BY DEF LoopReach, LoopPlaces
  <2> QED
    BY <2>1 DEF EndedSafe, AsAsked
<1>7. ASSUME ~clash' PROVE EndedInv'
  <2>1. EndedInv /\ (~loaded => \A b \in Clients \cup Ticks : pc[b] # "load")
    BY <1>1, <1>7 DEF EndedSafe
  <2> QED
    BY <1>1, <1>2, <2>1 DEF EndedInv, Kept, told
<1> QED
  BY <1>5, <1>6, <1>7 DEF EndedSafe

\* A file is read into the cache, or there is none; the last of them ends the load.
LEMMA SafeLoad ==
  ASSUME LoopReach, EndedSafe, NEW a \in Clients \cup Ticks, LoadOne(a) \/ EndLoad(a)
  PROVE  EndedSafe'
<1>1. /\ pc[a] = "load" /\ UNCHANGED <<phase, op, writing, file, told, clash>>
      /\ \/ UNCHANGED <<pc, loaded>>
         \/ pc' = [pc EXCEPT ![a] = "do"] /\ loaded' = TRUE
  BY DEF LoadOne, EndLoad, Goto, history
<1>2. \A j \in LoopIds : cache'[j] \in {cache[j], file[j]}
  BY DEF LoadOne, EndLoad, LoopReach, LoopTypeOK
<1>3. \A b \in Clients, i \in LoopIds : Holds(b, i)' => Holds(b, i)
  BY <1>1, <1>2, HoldsFrame DEF LoopReach
<1>4. \A c \in Clients : Unmade(c)' => Unmade(c)
  BY <1>1 DEF Unmade, LoopReach, LoopTypeOK
<1>5. MadeOnce'
  BY <1>1, <1>3, <1>4, MadeOnceFrame DEF EndedSafe, told
<1>6. AsAsked'
  BY <1>1 DEF EndedSafe, AsAsked
<1>7. ASSUME ~clash PROVE EndedInv'
  <2>1. EndedInv /\ ~loaded /\ \A x \in Actors : writing[x] = Nil
    BY <1>1, <1>7 DEF EndedSafe, EndedInv
  <2>2. \A j \in LoopIds : Kept(cache[j], ended \ back)' /\ Kept(file[j], ended \ stuck)'
    BY <1>1, <1>2, <2>1 DEF EndedInv, Kept, told
  <2>3. \A x \in Clients \cup Ticks : x # a => pc'[x] = pc[x] /\ pc[x] # "load"
    BY <1>1, <2>1 DEF EndedInv, LoopReach, LoopTypeOK
  <2>4. (back \subseteq stuck /\ back = stuck)'
    BY <1>1, <2>1 DEF EndedInv, told
  <2> QED
    BY <1>1, <2>1, <2>2, <2>3, <2>4 DEF EndedInv, LoopReach, LoopTypeOK
<1> QED
  BY <1>1, <1>5, <1>6, <1>7 DEF EndedSafe

\* A call changes its loop, or finds nothing to change.
LEMMA SafeDo ==
  ASSUME LoopReach, EndedSafe, NEW c \in Clients, Do(c)
  PROVE  EndedSafe'
<1> DEFINE i == target[c]
           new == Changed(c, cache[i])
<1>1. /\ pc[c] = "do" /\ op[c] \in Ops /\ i \in LoopIds /\ cache[i] \in Loops \cup {Nil}
      /\ c \in Clients \cup Ticks /\ c \in Actors /\ (~clash => loaded)
      /\ UNCHANGED <<phase, loaded, file>> /\ FileFrom(c)
      /\ ended' = IF op[c] = "activate" /\ cache[i] # Nil THEN ended \ {cache[i].by} ELSE ended
      /\ UNCHANGED <<stuck, back>>
  BY LoopActors, FileKept DEF Do, LoopReach, LoopTypeOK, LoopPlaces, EndedSafe, EndedInv
<1>2. CASE Goto(c, "done") /\ Forget(c) /\ Settle(c) /\ ended' = ended
  <2>1. /\ \A x \in Clients \cup Ticks : pc'[x] = "load" => pc[x] = "load"
        /\ \A d \in Clients : Unmade(d)' => Unmade(d)
        /\ \A d \in Clients : d # c => op'[d] = op[d]
    BY <1>1, <1>2 DEF Goto, Forget, Unmade, LoopReach, LoopTypeOK
  <2>2. c \in Actors /\ FileFrom(c) /\ UNCHANGED <<loaded, told>> /\ (~clash => loaded)
    BY <1>1, <1>2 DEF told
  <2> QED
    BY <1>2, <2>1, <2>2, SafeSettle
<1>3. CASE /\ Goto(c, "write") /\ Keep /\ Store(c, i, new)
           /\ op[c] = "create" \/ (cache[i] # Nil /\ ~LeftAlone(c, cache[i]))
  <2>1. /\ new \in Loops \cup {Nil} /\ (cache[i] # Nil \/ new # Nil)
        /\ op' = op /\ pc' = [pc EXCEPT ![c] = "write"]
    BY <1>1, <1>3, ChangedTyped DEF Goto, Keep
  <2>2. /\ op[c] = "create" => new \in Loops /\ new.by = c /\ new.status = "active"
        /\ op[c] # "create" /\ new # Nil => new.by = cache[i].by
        /\ op[c] = "cancel" => new \in Loops /\ new.status = "cancelled"
        /\ op[c] = "delete" => new = Nil
    <3>1. CASE op[c] = "create"
      <4>1. new = [by |-> c, status |-> "active", next |-> TRUE, ran |-> FALSE]
        BY <3>1 DEF Changed
      <4> QED
        BY <3>1, <4>1 DEF Loops
    <3>2. CASE op[c] = "pause"
      BY <1>1, <1>3, <3>2 DEF Changed, Loops
    <3>3. CASE op[c] = "resume"
      BY <1>1, <1>3, <3>3 DEF Changed, Loops
    <3>4. CASE op[c] = "cancel"
      BY <1>1, <1>3, <3>4 DEF Changed, Loops
    <3>5. CASE op[c] = "delete"
      BY <3>5 DEF Changed
    <3>6. CASE op[c] = "activate"
      BY <1>1, <1>3, <3>6 DEF Changed, Loops
    <3> QED
      BY <1>1, <3>1, <3>2, <3>3, <3>4, <3>5, <3>6 DEF Ops
  <2> HIDE DEF new
  <2>3. /\ cache' = [cache EXCEPT ![i] = new]
        /\ writing'[c] # Nil /\ writing'[c].id = i /\ writing'[c].record = new
        /\ writing'[c].by = IF cache[i] = Nil THEN new.by ELSE cache[i].by
        /\ \A x \in Actors : x # c => writing'[x] = writing[x]
    <3>1. writing'[c] # Nil /\ writing'[c].id = i /\ \A x \in Actors : x # c => writing'[x] = writing[x]
      BY <1>1, <1>3, <2>1, StoreKeeps DEF LoopReach
    <3>2. writing \in [Actors -> Writes \cup {Nil}]
      BY DEF LoopReach, LoopTypeOK
    <3> QED
      BY <1>1, <1>3, <3>1, <3>2 DEF Store
  <2>4. MadeOnce'
    <3>1. \A b \in Clients, j \in LoopIds : Holds(b, j)' => Holds(b, j) \/ (j = i /\ op[c] = "create" /\ b = c)
      <4> SUFFICES ASSUME NEW b \in Clients, NEW j \in LoopIds, Holds(b, j)'
                   PROVE  Holds(b, j) \/ (j = i /\ op[c] = "create" /\ b = c)
        OBVIOUS
      <4>1. Holds(b, j) \/ (j = i /\ new # Nil /\ b = new.by)
        BY <1>1, <1>3, <2>1, HoldsStore DEF LoopReach
      <4> QED
        BY <1>1, <1>3, <2>2, <4>1 DEF Holds
    <3>2. \A d \in Clients : Unmade(d)' => Unmade(d) /\ d # c
      BY <2>1 DEF Unmade, LoopReach, LoopTypeOK
    <3>3. op[c] = "create" => \A j \in LoopIds : ~Holds(c, j)
      BY <1>1 DEF EndedSafe, MadeOnce, Unmade
    <3>4. ended' \subseteq ended
      BY <1>1
    <3>5. \A b \in Clients, j, k \in LoopIds : Holds(b, j)' /\ Holds(b, k)' => j = k
      BY <3>1, <3>3 DEF EndedSafe, MadeOnce
    <3>6. \A d \in Clients : Unmade(d)' => d \notin ended' /\ \A j \in LoopIds : ~Holds(d, j)'
      BY <3>1, <3>2, <3>4 DEF EndedSafe, MadeOnce
    <3> QED
      BY <3>5, <3>6 DEF MadeOnce
  <2>5. AsAsked'
    <3>1. op[c] = "cancel" => new # Nil /\ new.status = "cancelled" /\ new.by = writing'[c].by
      BY <1>1, <1>3, <2>2, <2>3, LoopAssumption
    <3> QED
      BY <1>1, <2>1, <2>2, <2>3, <3>1, LoopActors DEF EndedSafe, AsAsked
  <2>6. ~clash => Kept(new, ended' \ back)
    <3> SUFFICES ASSUME ~clash, new \in Loops, new.by \in ended' \ back PROVE new.status \in {"cancelled", "expired"}
      BY DEF Kept
    <3>1. Kept(cache[i], ended \ back) /\ (op[c] = "create" => c \notin ended)
      BY <1>1 DEF EndedSafe, EndedInv, MadeOnce, Unmade
    <3>2. /\ new.by \in ended \ back
          /\ op[c] # "create" /\ op[c] # "activate" /\ op[c] # "delete"
      BY <1>1, <1>3, <2>2, <3>1, LoopAssumption
    <3>3. cache[i] \in Loops /\ cache[i].status \in {"cancelled", "expired"} /\ ~LeftAlone(c, cache[i])
      BY <1>1, <1>3, <2>2, <3>1, <3>2, LoopAssumption DEF Kept
    <3>4. op[c] # "pause" /\ op[c] # "resume"
      BY <3>3 DEF LeftAlone
    <3> QED
      BY <1>1, <2>2, <3>2, <3>4 DEF Ops
  <2>7. /\ ended' \subseteq ended
        /\ \A x \in Clients \cup Ticks : pc'[x] = "load" => pc[x] = "load"
    BY <1>1, <2>1 DEF LoopReach, LoopTypeOK
  <2> QED
    BY <1>1, <1>3, <2>1, <2>4, <2>5, <2>6, <2>7, SafeStore
<1>4. LeftAlone(c, cache[i]) => op[c] # "activate"
  BY DEF LeftAlone
<1> QED
  BY <1>1, <1>2, <1>3, <1>4 DEF Do

\* A call's write is over; the loop it cancelled or deleted has ended.
LEMMA SafeAnswered ==
  ASSUME LoopReach, EndedSafe, NEW c \in Clients, EndCallWrite(c)
  PROVE  EndedSafe'
<1> DEFINE w == writing[c]
<1>1. /\ c \in Actors /\ c \in Clients \cup Ticks /\ FileFrom(c) /\ Settle(c) /\ loaded' = loaded
      /\ Goto(c, "done") /\ Forget(c) /\ w # Nil /\ w \in Writes /\ phase' = phase
      /\ IF op[c] \in {"cancel", "delete"}
         THEN ended' = ended \cup {w.by} /\ stuck' = stuck \ {w.by} /\ back' = back \ {w.by}
         ELSE UNCHANGED told
  BY LoopActors, FileWritten DEF EndCallWrite, Written, LoopReach, LoopTypeOK
<1>2. ~clash => loaded
  BY <1>1 DEF EndedSafe, EndedInv
<1>3. /\ \A x \in Clients \cup Ticks : pc'[x] = "load" => pc[x] = "load"
      /\ \A d \in Clients : Unmade(d)' => Unmade(d)
      /\ \A d \in Clients : d # c => op'[d] = op[d]
  BY <1>1 DEF Goto, Forget, Unmade, LoopReach, LoopTypeOK
<1>4. CASE op[c] \notin {"cancel", "delete"}
  BY <1>1, <1>2, <1>3, <1>4, SafeSettle
<1>5. CASE op[c] \in {"cancel", "delete"}
  <2>1. /\ cache' = cache /\ clash' = clash /\ writing'[c] = Nil
        /\ \A b \in Actors : b # c => writing'[b] = writing[b]
    BY <1>1, SettleKeeps DEF LoopReach
  <2>2. \A b \in Clients, i \in LoopIds : Holds(b, i)' => Holds(b, i)
    BY <1>1, <2>1, HoldsFrame DEF LoopReach, FileFrom
  <2>3. w.by \in Clients /\ w.id \in LoopIds /\ Holds(w.by, w.id)
    BY <1>1 DEF Writes, Holds
  <2>4. MadeOnce'
    BY <1>1, <1>3, <1>5, <2>2, <2>3, MadeOnceFrame DEF EndedSafe
  <2>5. AsAsked'
    BY <1>3, <2>1, LoopActors DEF EndedSafe, AsAsked
  <2>6. ASSUME ~clash PROVE EndedInv'
    <3>1. EndedInv /\ loaded /\ loaded'
      BY <1>1, <1>2, <2>6 DEF EndedSafe
    <3>2. \A x \in Actors : writing'[x] # Nil => x # c /\ writing'[x] = writing[x]
      BY <2>1
    <3>3. w.record = Nil \/ (w.record # Nil /\ w.record.status = "cancelled")
      BY <1>1, <1>5 DEF EndedSafe, AsAsked
    <3>4. file'[w.id] = w.record
      <4>1. \A b \in Actors \ {c} : writing[b] # Nil => writing[b].id # w.id
        BY <1>1, <3>1 DEF EndedInv
      <4> QED
        BY <2>3, <4>1 DEF EndCallWrite, Written, LoopReach, LoopTypeOK
    <3>5. cache[w.id] = w.record
      BY <1>1, <3>1 DEF EndedInv
    <3>6. ASSUME NEW j \in LoopIds PROVE Kept(cache[j], ended \ back)' /\ Kept(file[j], ended \ stuck)'
      <4>1. CASE j = w.id
        BY <2>1, <3>3, <3>4, <3>5, <4>1, LoopAssumption DEF Kept
      <4>2. CASE j # w.id
        <5> PICK b \in Clients : b = w.by
          BY <2>3
        <5>1. ~Holds(b, j)'
          BY <2>2, <2>3, <4>2 DEF EndedSafe, MadeOnce
        <5>2. /\ cache'[j] \in Loops => cache'[j].by # w.by
              /\ file'[j] \in Loops => file'[j].by # w.by
          BY <5>1 DEF Holds
        <5>3. file'[j] \in {file[j], Torn}
          BY <1>1, <4>2 DEF FileFrom
        <5>4. Kept(cache[j], ended \ back) /\ Kept(file[j], ended \ stuck)
          BY <3>1 DEF EndedInv
        <5> QED
          BY <1>1, <1>5, <2>1, <5>2, <5>3, <5>4, LoopAssumption DEF Kept
      <4> QED
        BY <4>1, <4>2
    <3>7. (back \subseteq stuck)'
      BY <1>1, <1>5, <3>1 DEF EndedInv
    <3> QED
      BY <1>3, <2>1, <3>1, <3>2, <3>6, <3>7 DEF EndedInv
  <2> QED
    BY <2>1, <2>4, <2>5, <2>6 DEF EndedSafe
<1> QED
  BY <1>4, <1>5

\* The file of a deleted loop stays, and the cache does not hold the loop.
LEMMA SafeUnlink ==
  ASSUME LoopReach, EndedSafe, NEW c \in Clients, FailUnlink(c)
  PROVE  EndedSafe'
<1> DEFINE w == writing[c]
<1>1. /\ c \in Actors /\ c \in Clients \cup Ticks /\ FileFrom(c) /\ Settle(c) /\ UNCHANGED <<loaded, file, phase>>
      /\ Goto(c, "done") /\ Forget(c) /\ w # Nil /\ w \in Writes /\ op[c] = "delete"
      /\ ended' = ended \cup {w.by} /\ stuck' = stuck \cup {w.by} /\ back' = back
  BY LoopActors, FileKept DEF FailUnlink, LoopReach, LoopTypeOK
<1>2. /\ \A x \in Clients \cup Ticks : pc'[x] = "load" => pc[x] = "load"
      /\ \A d \in Clients : Unmade(d)' => Unmade(d)
      /\ \A d \in Clients : d # c => op'[d] = op[d]
  BY <1>1 DEF Goto, Forget, Unmade, LoopReach, LoopTypeOK
<1>3. /\ cache' = cache /\ clash' = clash /\ writing'[c] = Nil
      /\ \A b \in Actors : b # c => writing'[b] = writing[b]
  BY <1>1, SettleKeeps DEF LoopReach
<1>4. \A b \in Clients, i \in LoopIds : Holds(b, i)' => Holds(b, i)
  BY <1>1, <1>3, HoldsFrame DEF LoopReach, FileFrom
<1>5. w.by \in Clients /\ w.id \in LoopIds /\ Holds(w.by, w.id)
  BY <1>1 DEF Writes, Holds
<1>6. MadeOnce'
  BY <1>1, <1>2, <1>4, <1>5, MadeOnceFrame DEF EndedSafe
<1>7. AsAsked'
  BY <1>2, <1>3, LoopActors DEF EndedSafe, AsAsked
<1>8. ASSUME ~clash PROVE EndedInv'
  <2>1. EndedInv /\ loaded /\ loaded'
    BY <1>1, <1>8 DEF EndedSafe, EndedInv
  <2>2. \A x \in Actors : writing'[x] # Nil => x # c /\ writing'[x] = writing[x]
    BY <1>3
  <2>3. cache[w.id] = Nil
    BY <1>1, <2>1 DEF EndedSafe, EndedInv, AsAsked
  <2>4. ASSUME NEW j \in LoopIds PROVE Kept(cache[j], ended \ back)' /\ Kept(file[j], ended \ stuck)'
    <3>1. Kept(cache[j], ended \ back) /\ Kept(file[j], ended \ stuck)
      BY <2>1 DEF EndedInv
    <3>2. Kept(file'[j], ended' \ stuck')
      BY <1>1, <3>1 DEF Kept
    <3>3. CASE j = w.id
      BY <1>3, <2>3, <3>2, <3>3, LoopAssumption DEF Kept
    <3>4. CASE j # w.id
      <4>1. cache'[j] \in Loops => cache'[j].by # w.by
        BY <1>4, <1>5, <3>4 DEF EndedSafe, MadeOnce, Holds
      <4> QED
        BY <1>1, <1>3, <3>1, <3>2, <4>1 DEF Kept
    <3> QED
      BY <3>3, <3>4
  <2>5. (back \subseteq stuck)'
    BY <1>1, <2>1 DEF EndedInv
  <2> QED
    BY <1>2, <1>3, <2>1, <2>2, <2>4, <2>5 DEF EndedInv
<1> QED
  BY <1>3, <1>6, <1>7, <1>8 DEF EndedSafe

\* The runtime starts again with the files, and knows nothing else.
LEMMA SafeRestart ==
  ASSUME LoopReach, EndedSafe, Restart
  PROVE  EndedSafe'
<1> DEFINE under == {writing[a] : a \in {b \in Actors : writing[b] # Nil}}
<1>1. /\ \A a \in Clients \cup Ticks : pc'[a] \in {"idle", "done"} /\ (pc'[a] = "idle" => pc[a] = "idle")
      /\ (\A r \in Runs : phase'[r] = "idle") /\ (\A a \in Actors : writing'[a] = Nil)
      /\ (\A j \in LoopIds : cache'[j] = Nil) /\ ~loaded' /\ UNCHANGED <<ended, stuck, clash>> /\ back' = stuck
  BY DEF Restart
<1>2. \A j \in LoopIds : \/ file'[j] \in {file[j], Torn}
                         \/ \E a \in Actors : writing[a] # Nil /\ j = writing[a].id /\ file'[j] = writing[a].record
  <2>1. PICK landed \in SUBSET under, broken \in SUBSET {w.id : w \in under} :
          file' = [i \in LoopIds |->
                     IF i \in broken THEN Torn
                     ELSE IF \E w \in landed : w.id = i THEN (CHOOSE w \in landed : w.id = i).record
                     ELSE file[i]]
    BY DEF Restart
  <2>2. ASSUME NEW j \in LoopIds, \E w \in landed : w.id = j
        PROVE  \E a \in Actors : writing[a] # Nil /\ j = writing[a].id
                                 /\ (CHOOSE w \in landed : w.id = j).record = writing[a].record
    <3>1. /\ (CHOOSE w \in landed : w.id = j) \in under
          /\ (CHOOSE w \in landed : w.id = j).id = j
      BY <2>2
    <3> QED
      BY <3>1
  <2> QED
    BY <2>1, <2>2
<1>3. \A b \in Clients, i \in LoopIds : Holds(b, i)' => Holds(b, i)
  BY <1>1, <1>2, HoldsFrame DEF LoopReach
<1>4. \A c \in Clients : Unmade(c)' => Unmade(c)
  BY <1>1 DEF Unmade
<1>5. MadeOnce'
  BY <1>1, <1>3, <1>4, MadeOnceFrame DEF EndedSafe
<1>6. AsAsked'
  BY <1>1, LoopActors DEF AsAsked
<1>7. ASSUME ~clash PROVE EndedInv'
  <2>1. EndedInv
    BY <1>7 DEF EndedSafe
  <2>2. ASSUME NEW j \in LoopIds PROVE Kept(cache[j], ended \ back)' /\ Kept(file[j], ended \ stuck)'
    <3>1. Kept(file[j], ended \ stuck) /\ Kept(Torn, ended \ stuck) /\ Kept(Nil, ended \ stuck)
      BY <2>1, LoopAssumption DEF EndedInv, Kept
    <3>2. \A a \in Actors : writing[a] # Nil => Kept(writing[a].record, ended \ stuck)
      BY <2>1 DEF EndedInv, Kept, LoopReach, LoopTypeOK, Writes
    <3>3. Kept(file'[j], ended \ stuck) /\ Kept(cache'[j], ended \ stuck)
      BY <1>1, <1>2, <3>1, <3>2
    <3> QED
      BY <1>1, <3>3 DEF Kept
  <2> QED
    BY <1>1, <2>2 DEF EndedInv
<1> QED
  BY <1>1, <1>5, <1>6, <1>7 DEF EndedSafe

LEMMA SafeStep ==
  ASSUME LoopReach, EndedSafe, [LoopNext]_loopVars
  PROVE  EndedSafe'
<1>t. LoopTypeOK /\ LoopPlaces
  BY DEF LoopReach
<1>l. ASSUME ~clash
      PROVE  /\ \A a \in Clients \cup Ticks : pc[a] \notin {"idle", "load", "done"} => loaded
             /\ \A r \in Runs : phase[r] # "idle" => loaded
             /\ \A a \in Actors : writing[a] # Nil => loaded
  BY <1>l DEF EndedSafe, EndedInv
<1>0. CASE UNCHANGED loopVars
  BY <1>0, SafeStill DEF loopVars, storeVars, history, told
<1>1. ASSUME NEW c \in Clients, Call(c) PROVE EndedSafe'
  <2>1. \A d \in Clients : d # c => op'[d] = op[d]
    BY <1>1, <1>t DEF Call, LoopTypeOK
  <2> QED
    BY <1>1, <2>1, SafeEnter DEF Call
<1>2. ASSUME NEW t \in Ticks, Tick(t) PROVE EndedSafe'
  BY <1>2, SafeEnter DEF Tick, storeVars
<1>3. ASSUME NEW t \in Ticks, GetDue(t) PROVE EndedSafe'
  <2>1. PICK d \in SUBSET LoopIds : Advance(t, d)
    BY <1>3 DEF GetDue
  <2>2. pc' = [pc EXCEPT ![t] = pc'[t]] /\ pc'[t] \in {"done", "look"} /\ op' = op
    BY <1>3, <1>t, <2>1, AdvanceKeeps DEF GetDue, LoopTypeOK
  <2>3. /\ \A x \in Clients \cup Ticks : pc'[x] = "load" => pc[x] = "load"
        /\ \A c \in Clients : pc'[c] = pc[c]
    BY <2>2, <1>t, LoopActors DEF LoopTypeOK
  <2> QED
    BY <1>3, <1>l, <2>2, <2>3, SafeStill DEF GetDue, storeVars, history, told
<1>4. ASSUME NEW t \in Ticks, LookFree(t) PROVE EndedSafe'
  <2>1. active' \subseteq LoopIds /\ due[t] \in SUBSET LoopIds
    BY <1>4, <1>t DEF LookFree, LoopTypeOK, LoopPlaces
  <2>2. pc' = [pc EXCEPT ![t] = pc'[t]] /\ pc'[t] \in {"done", "look"} /\ op' = op
    BY <1>4, <1>t, <2>1, AdvanceKeeps DEF LookFree
  <2>3. /\ \A x \in Clients \cup Ticks : pc'[x] = "load" => pc[x] = "load"
        /\ \A c \in Clients : pc'[c] = pc[c]
    BY <2>2, <1>t, LoopActors DEF LoopTypeOK
  <2> QED
    BY <1>4, <1>l, <2>2, <2>3, SafeStill DEF LookFree, storeVars, history, told
\* A tick goes on, and stores nothing.
<1>5. ASSUME NEW t \in Ticks, Advance(t, due[t]), Settle(t), FileFrom(t), UNCHANGED <<loaded, told, active>>,
             ~clash => loaded
      PROVE  EndedSafe'
  <2>1. pc' = [pc EXCEPT ![t] = pc'[t]] /\ pc'[t] \in {"done", "look"} /\ op' = op
    BY <1>5, <1>t, AdvanceKeeps DEF LoopTypeOK
  <2>2. /\ \A x \in Clients \cup Ticks : pc'[x] = "load" => pc[x] = "load"
        /\ \A c \in Clients : pc'[c] = pc[c]
    BY <2>1, <1>t, LoopActors DEF LoopTypeOK
  <2>3. \A c \in Clients : Unmade(c)' => Unmade(c)
    BY <2>1, <2>2 DEF Unmade
  <2> QED
    BY <1>5, <2>1, <2>2, <2>3, LoopActors, SafeSettle
\* A tick stores a version of its loop.
<1>6. ASSUME NEW t \in Ticks, target[t] \in LoopIds, NEW record \in Loops, cache[target[t]] # Nil,
             Store(t, target[t], record), record.by = cache[target[t]].by, record.status = cache[target[t]].status,
             NEW place \in {"skipRecord", "skipWrite"}, Goto(t, place), FileFrom(t),
             UNCHANGED <<loaded, told, op>>, ~clash => loaded
      PROVE  EndedSafe'
  <2>1. /\ \A x \in Clients \cup Ticks : pc'[x] = "load" => pc[x] = "load"
        /\ \A c \in Clients : pc'[c] = pc[c]
    BY <1>6, <1>t, LoopActors DEF Goto, LoopTypeOK
  <2> QED
    BY <1>6, <2>1, SafeRecord
<1>7. ASSUME NEW t \in Ticks, LookBusy(t) PROVE EndedSafe'
  <2>1. /\ target[t] \in LoopIds /\ FileFrom(t) /\ (~clash => loaded) /\ UNCHANGED <<loaded, told, active>>
        /\ cache[target[t]] \in Loops \cup {Nil}
    BY <1>7, <1>t, <1>l, FileKept, LoopActors DEF LookBusy, LoopTypeOK, LoopPlaces
  <2>2. CASE cache[target[t]] # Nil /\ Goto(t, "skipRecord") /\ Keep /\ RecordRun(t, target[t])
    <3> DEFINE rec == [cache[target[t]] EXCEPT !.next = FALSE, !.ran = TRUE]
    <3>1. rec \in Loops /\ rec.by = cache[target[t]].by /\ rec.status = cache[target[t]].status
      BY <2>1, <2>2 DEF Loops
    <3>2. Store(t, target[t], rec)
      BY <2>2 DEF RecordRun
    <3> HIDE DEF rec
    <3> QED
      BY <1>6, <2>1, <2>2, <3>1, <3>2 DEF Keep
  <2>3. CASE Advance(t, due[t]) /\ Settle(t)
    BY <1>5, <2>1, <2>3
  <2> QED
    BY <1>7, <2>2, <2>3 DEF LookBusy
<1>8. ASSUME NEW t \in Ticks, EndTickWrite(t) PROVE EndedSafe'
  <2>1. FileFrom(t) /\ writing[t] # Nil /\ UNCHANGED <<loaded, told, active>>
    BY <1>8, <1>t, FileWritten, LoopActors DEF EndTickWrite, Written
  <2>2. target[t] \in LoopIds /\ (~clash => loaded) /\ cache[target[t]] \in Loops \cup {Nil}
    <3>1. target[t] \in LoopIds
      BY <2>1, <1>t DEF LoopTypeOK, LoopPlaces
    <3> QED
      BY <2>1, <3>1, <1>t, <1>l, LoopActors DEF LoopTypeOK
  <2>3. CASE Goto(t, "skipWrite") /\ ComputeNext(t, target[t]) /\ Keep
    BY <1>6, <2>1, <2>2, <2>3 DEF ComputeNext, Keep
  <2>4. CASE Advance(t, due[t]) /\ Settle(t)
    BY <1>5, <2>1, <2>2, <2>4
  <2> QED
    BY <1>8, <2>3, <2>4 DEF EndTickWrite, ContinueTick
\* A run ends.
<1>9. ASSUME NEW r \in Runs, Finally(r), FileFrom(r), UNCHANGED <<pc, op, loaded, told>>, ~clash => loaded
      PROVE  EndedSafe'
  BY <1>9, LoopActors, SafeSettle DEF Finally, Unmade
\* A run stores a version of its loop.
<1>10. ASSUME NEW r \in Runs, NEW record \in Loops, cache[r[2]] # Nil, Store(r, r[2], record),
              record.by = cache[r[2]].by, record.status \in {cache[r[2]].status, "expired"},
              FileFrom(r), UNCHANGED <<pc, op, loaded, told>>, ~clash => loaded
       PROVE  EndedSafe'
  BY <1>10, LoopActors, SafeRecord
<1>11. ASSUME NEW r \in Runs, Run(r) PROVE EndedSafe'
  <2>1. /\ FileFrom(r) /\ UNCHANGED <<pc, op, loaded, told>> /\ (~clash => loaded)
        /\ cache[r[2]] \in Loops \cup {Nil}
    BY <1>11, <1>t, <1>l, FileKept, LoopActors DEF Run, LoopTypeOK
  <2>2. CASE cache[r[2]] = Nil
    BY <1>9, <1>11, <2>1, <2>2 DEF Run
  <2>3. CASE cache[r[2]] # Nil
    <3> DEFINE rec == [cache[r[2]] EXCEPT !.next = FALSE, !.ran = TRUE]
    <3>1. rec \in Loops /\ rec.by = cache[r[2]].by /\ rec.status = cache[r[2]].status
      BY <2>1, <2>3 DEF Loops
    <3>2. Store(r, r[2], rec)
      BY <1>11, <2>3 DEF Run, RecordRun
    <3> HIDE DEF rec
    <3> QED
      BY <1>10, <2>1, <2>3, <3>1, <3>2
  <2> QED
    BY <2>2, <2>3
<1>12. ASSUME NEW r \in Runs, EndRunWrite(r) PROVE EndedSafe'
  <2>1. FileFrom(r) /\ UNCHANGED <<pc, op, loaded, told>> /\ (~clash => loaded)
    BY <1>12, <1>t, <1>l, FileWritten, LoopActors DEF EndRunWrite, Written
  <2>2. cache[r[2]] \in Loops \cup {Nil}
    BY <1>t, LoopActors DEF LoopTypeOK
  <2>3. CASE Finally(r)
    BY <1>9, <2>1, <2>3
  <2>4. CASE ComputeNext(r, r[2])
    BY <1>10, <2>1, <2>2, <2>4 DEF ComputeNext
  <2>5. CASE CheckExpiry(r)
    <3> DEFINE rec == [cache[r[2]] EXCEPT !.status = "expired"]
    <3>1. CASE cache[r[2]] # Nil /\ Store(r, r[2], rec)
      <4>1. rec \in Loops /\ rec.by = cache[r[2]].by /\ rec.status = "expired"
        BY <2>2, <3>1 DEF Loops
      <4> HIDE DEF rec
      <4> QED
        BY <1>10, <2>1, <3>1, <4>1
    <3> QED
      BY <2>3, <2>5, <3>1 DEF CheckExpiry
  <2> QED
    BY <1>12, <2>3, <2>4, <2>5 DEF EndRunWrite, Continue
<1>13. ASSUME NEW a \in Actors, FailWrite(a) PROVE EndedSafe'
  <2>1. FileFrom(a) /\ UNCHANGED <<loaded, told>> /\ (~clash => loaded)
    BY <1>13, <1>t, <1>l DEF FailWrite, FileFrom, LoopTypeOK, Writes
  <2>2. CASE a \in Runs
    BY <1>9, <1>13, <2>1, <2>2 DEF FailWrite, Keep
  <2>3. CASE a \notin Runs
    <3>1. a \in Clients \cup Ticks /\ Goto(a, "done") /\ Forget(a) /\ Settle(a)
      BY <1>13, <2>3 DEF FailWrite, Actors
    <3>2. /\ \A x \in Clients \cup Ticks : pc'[x] = "load" => pc[x] = "load"
          /\ \A d \in Clients : Unmade(d)' => Unmade(d)
          /\ \A d \in Clients : d # a => op'[d] = op[d]
      BY <3>1, <1>t DEF Goto, Forget, Unmade, LoopTypeOK
    <3> QED
      BY <2>1, <3>1, <3>2, SafeSettle
  <2> QED
    BY <2>2, <2>3
<1>14. ASSUME NEW th \in Threads, TurnEnds(th) PROVE EndedSafe'
  BY <1>14, SafeStill DEF TurnEnds, storeVars, history, told
<1> QED
  BY <1>0, <1>1, <1>2, <1>3, <1>4, <1>7, <1>8, <1>11, <1>12, <1>13, <1>14,
     SafeDo, SafeAnswered, SafeUnlink, SafeLoad, SafeRestart DEF LoopNext

\* A loop that was cancelled or deleted, and whose client was told so, is over in
\* the cache and in the file that a restart loads, whatever runs, ticks, calls,
\* failed writes and restarts come after, until two loads or two writes of one
\* file meet. A deleted loop whose file could not be removed is over until the
\* runtime starts again, and only that.
THEOREM EndedForGood == LoopSpec => []EndedStaysEnded
<1>1. LoopInit => EndedSafe
  <2> SUFFICES ASSUME LoopInit PROVE EndedSafe
    OBVIOUS
  <2>1. /\ \A a \in Clients \cup Ticks : pc[a] = "idle"
        /\ \A r \in Runs : phase[r] = "idle"
        /\ \A a \in Actors : writing[a] = Nil
        /\ \A i \in LoopIds : cache[i] = Nil /\ file[i] = Nil
        /\ ~loaded /\ ended = {} /\ stuck = {} /\ back = {}
    BY DEF LoopInit
  <2>2. \A b, i : ~(i \in LoopIds /\ Holds(b, i))
    BY <2>1, LoopAssumption DEF Holds
  <2> QED
    BY <2>1, <2>2, LoopActors DEF EndedSafe, MadeOnce, AsAsked, EndedInv, Kept
<1>2. LoopReach /\ EndedSafe => EndedStaysEnded
  <2> SUFFICES ASSUME LoopReach, EndedSafe, ~clash, NEW i \in LoopIds
               PROVE  /\ cache[i] # Nil /\ cache[i].by \in ended \ back => Over(cache[i])
                      /\ file[i] \notin {Nil, Torn} /\ file[i].by \in ended \ stuck => Over(file[i])
    BY DEF EndedStaysEnded
  <2>1. Kept(cache[i], ended \ back) /\ Kept(file[i], ended \ stuck)
    BY DEF EndedSafe, EndedInv
  <2> QED
    BY <2>1 DEF Kept, Over, LoopReach, LoopTypeOK
<1> QED
  BY <1>1, <1>2, LoopReached, SafeStep, PTL DEF LoopSpec

-----------------------------------------------------------------------------
(* SessionStore: its lines.                                                *)

\* Induction: every nonempty set of numbers has a least element.
LEMMA LeastNatural ==
  ASSUME NEW T \in SUBSET Nat, T # {} PROVE \E x \in T : \A y \in T : x <= y
<1> DEFINE R == OpToRel(<, Nat)
<1>1. \A x, y \in Nat : x < y => <<x, y>> \in R
  BY Zenon DEF OpToRel
<1>2. IsWellFoundedOn(R, Nat)
  BY NatLessThanWellFounded
<1> HIDE DEF R
<1>3. PICK x \in T : \A y \in T : <<y, x>> \notin R
  BY <1>2, WFMin, Zenon
<1>4. \A y \in T : ~(y < x)
  BY <1>1, <1>3
<1> QED
  BY <1>4

\* The last place of a set of places is one of them: the least of their bounds.
LEMMA LastOfPlaces ==
  ASSUME NEW n \in Nat, NEW T \in SUBSET (1..n), T # {}
  PROVE  LastOf(T) \in T /\ \A k \in T : k <= LastOf(T)
<1> DEFINE bounds == {k \in Nat : \A i \in T : i <= k}
<1>1. n \in bounds /\ bounds \in SUBSET Nat
  OBVIOUS
<1> HIDE DEF bounds
<1>2. PICK k \in bounds : \A j \in bounds : k <= j
  BY <1>1, LeastNatural
<1> USE DEF bounds
<1>3. CASE k \in T
  BY <1>2, <1>3 DEF LastOf
<1>4. CASE k \notin T
  <2>1. \A i \in T : i <= k - 1 /\ i >= 1
    BY <1>2, <1>4
  <2>2. PICK i \in T : TRUE
    OBVIOUS
  <2>3. k - 1 \in Nat
    BY <1>2, <2>1, <2>2
  <2>4. k - 1 \in bounds
    BY <2>1, <2>3
  <2> QED
    BY <1>2, <2>3, <2>4
<1> QED
  BY <1>3, <1>4

\* The lines at some of the first n places, as they are taken one by one.
Takes(f, n, lines, places) ==
  f = [k \in 0..n |-> IF k = 0 THEN <<>>
                      ELSE IF k \in places THEN Append(f[k - 1], lines[k]) ELSE f[k - 1]]

\* By induction on the number of places.
LEMMA TakesExists ==
  ASSUME NEW lines, NEW places PROVE \A n \in Nat : \E f : Takes(f, n, lines, places)
<1> DEFINE Has(n) == \E f : Takes(f, n, lines, places)
           failing == {n \in Nat : ~Has(n)}
<1> SUFFICES ASSUME failing # {} PROVE FALSE
  OBVIOUS
<1>1. PICK n \in failing : \A m \in failing : n <= m
  <2>1. failing \in SUBSET Nat
    OBVIOUS
  <2> HIDE DEF failing
  <2> QED
    BY <2>1, LeastNatural
<1>2. n \in Nat /\ ~Has(n)
  BY <1>1
<1>3. CASE n = 0
  <2> DEFINE f == [k \in 0..n |-> <<>>]
  <2>1. Takes(f, n, lines, places)
    BY <1>3 DEF Takes
  <2> QED
    BY <1>2, <2>1
<1>4. CASE n # 0
  <2>1. n - 1 \in Nat /\ n - 1 < n
    BY <1>2, <1>4
  <2>2. Has(n - 1)
    <3>1. n - 1 \notin failing
      <4> HIDE DEF failing
      <4> QED
        BY <1>1, <1>2, <2>1
    <3> QED
      BY <2>1, <3>1
  <2>3. PICK g : Takes(g, n - 1, lines, places)
    BY <2>2
  <2> DEFINE Step(h, k) == IF k \in places THEN Append(h[k - 1], lines[k]) ELSE h[k - 1]
             f == [k \in 0..n |-> IF k = n THEN Step(g, n) ELSE g[k]]
  <2>4. g = [k \in 0..(n - 1) |-> IF k = 0 THEN <<>> ELSE Step(g, k)]
    BY <2>3 DEF Takes
  <2>5. \A k \in 0..n : k # n => f[k] = IF k = 0 THEN <<>> ELSE Step(g, k)
    <3>1. \A k \in 0..n : k # n => k \in 0..(n - 1)
      BY <1>2, <2>1
    <3> HIDE DEF Step
    <3>2. \A k \in 0..(n - 1) : g[k] = IF k = 0 THEN <<>> ELSE Step(g, k)
      BY <2>4
    <3> QED
      BY <3>1, <3>2
  <2>6. \A k \in 0..n : k # 0 => f[k - 1] = g[k - 1]
    BY <1>2, <2>1
  <2>7. \A k \in 0..n : f[k] = IF k = 0 THEN <<>> ELSE Step(f, k)
    BY <1>2, <1>4, <2>1, <2>5, <2>6
  <2>8. f = [k \in 0..n |-> f[k]]
    OBVIOUS
  <2> HIDE DEF f
  <2>9. f = [k \in 0..n |-> IF k = 0 THEN <<>> ELSE Step(f, k)]
    BY <2>7, <2>8
  <2> QED
    BY <1>2, <2>9 DEF Takes
<1> QED
  BY <1>3, <1>4

\* A sequence with one more element.
LEMMA AppendFacts ==
  ASSUME NEW S, NEW seq \in Seq(S), NEW elt \in S
  PROVE  /\ Append(seq, elt) \in Seq(S)
         /\ DOMAIN Append(seq, elt) = DOMAIN seq \cup {Len(seq) + 1}
         /\ Append(seq, elt)[Len(seq) + 1] = elt
         /\ \A j \in DOMAIN seq : Append(seq, elt)[j] = seq[j]
<1> DEFINE new == Append(seq, elt)
<1>1. /\ new \in Seq(S) /\ Len(new) = Len(seq) + 1 /\ new[Len(seq) + 1] = elt
      /\ \A j \in 1..Len(seq) : new[j] = seq[j]
  BY AppendProperties
<1>2. DOMAIN seq = 1..Len(seq) /\ Len(seq) \in Nat /\ DOMAIN new = 1..Len(new)
  BY <1>1, LenProperties
<1> HIDE DEF new
<1>3. DOMAIN new = DOMAIN seq \cup {Len(seq) + 1}
  BY <1>1, <1>2
<1> QED
  BY <1>1, <1>2, <1>3 DEF new

\* A sequence of the lines at those of the first n places that are in a set, in their order.
Drawn(new, lines, places, n) ==
  \E from \in [DOMAIN new -> (1..n) \cap places] :
    /\ \A j \in DOMAIN new : new[j] = lines[from[j]]
    /\ \A i, j \in DOMAIN new : i < j => from[i] < from[j]
    /\ \A k \in (1..n) \cap places : \E j \in DOMAIN new : from[j] = k

LEMMA DrawnMore ==
  ASSUME NEW S, NEW lines, NEW places, NEW n \in Nat \ {0}, n \in places, lines[n] \in S,
         NEW p \in Seq(S), Drawn(p, lines, places, n - 1)
  PROVE  Drawn(Append(p, lines[n]), lines, places, n)
<1> DEFINE new  == Append(p, lines[n])
           last == Len(p) + 1
<1>1. /\ DOMAIN new = DOMAIN p \cup {last} /\ new[last] = lines[n]
      /\ \A j \in DOMAIN p : new[j] = p[j]
  BY AppendFacts
<1>2. last \in Nat /\ \A j \in DOMAIN p : j \in Nat /\ j < last
  BY LenProperties
<1>3. PICK from \in [DOMAIN p -> (1..(n - 1)) \cap places] :
             /\ \A j \in DOMAIN p : p[j] = lines[from[j]]
             /\ \A i, j \in DOMAIN p : i < j => from[i] < from[j]
             /\ \A k \in (1..(n - 1)) \cap places : \E j \in DOMAIN p : from[j] = k
  BY DEF Drawn
<1>4. /\ (1..n) = (1..(n - 1)) \cup {n}
      /\ \A k \in 1..(n - 1) : k \in Nat /\ k < n
  OBVIOUS
<1> DEFINE more == [j \in DOMAIN new |-> IF j = last THEN n ELSE from[j]]
<1> HIDE DEF new, last
<1>5. /\ more[last] = n /\ \A j \in DOMAIN p : more[j] = from[j]
      /\ \A j \in DOMAIN p : from[j] \in (1..(n - 1)) \cap places
  <2>1. \A j \in DOMAIN p : j \in DOMAIN new /\ j # last
    BY <1>1, <1>2
  <2> QED
    BY <1>1, <1>3, <2>1
<1>6. more \in [DOMAIN new -> (1..n) \cap places]
  <2>1. \A j \in DOMAIN new : more[j] \in (1..n) \cap places
    BY <1>1, <1>4, <1>5
  <2> QED
    BY <2>1
<1> HIDE DEF more
<1>7. \A j \in DOMAIN new : new[j] = lines[more[j]]
  BY <1>1, <1>3, <1>5
<1>8. ASSUME NEW i \in DOMAIN new, NEW j \in DOMAIN new, i < j PROVE more[i] < more[j]
  <2>1. CASE j \in DOMAIN p /\ i \in DOMAIN p
    BY <1>3, <1>5, <1>8, <2>1
  <2>2. CASE j = last /\ i \in DOMAIN p
    BY <1>4, <1>5, <2>2
  <2>3. i # last
    BY <1>1, <1>2, <1>8
  <2> QED
    BY <1>1, <2>1, <2>2, <2>3
<1>9. ASSUME NEW k \in (1..n) \cap places PROVE \E j \in DOMAIN new : more[j] = k
  BY <1>1, <1>3, <1>4, <1>5
<1>10. Drawn(new, lines, places, n)
  BY <1>6, <1>7, <1>8, <1>9 DEF Drawn
<1> QED
  BY <1>10 DEF new

LEMMA DrawnSame ==
  ASSUME NEW lines, NEW places, NEW n \in Nat \ {0}, n \notin places,
         NEW p, Drawn(p, lines, places, n - 1)
  PROVE  Drawn(p, lines, places, n)
<1>1. (1..n) \cap places = (1..(n - 1)) \cap places
  OBVIOUS
<1> QED
  BY <1>1 DEF Drawn

\* What is taken are the lines at those places, in their order.
LEMMA AtInOrder ==
  ASSUME NEW S, NEW lines \in Seq(S), NEW places
  PROVE  At(lines, places) \in Seq(S) /\ Drawn(At(lines, places), lines, places, Len(lines))
<1> DEFINE n == Len(lines)
           kept == CHOOSE f : f = [k \in 0..n |->
                     IF k = 0 THEN <<>>
                     ELSE IF k \in places THEN Append(f[k - 1], lines[k]) ELSE f[k - 1]]
           Taken(k) == kept[k] \in Seq(S) /\ Drawn(kept[k], lines, places, k)
           failing == {k \in 0..n : ~Taken(k)}
<1>1. n \in Nat /\ DOMAIN lines = 1..n
  OBVIOUS
<1>2. At(lines, places) = kept[n]
  BY DEF At
<1> HIDE DEF n
<1>3. Takes(kept, n, lines, places)
  <2>1. \E f : Takes(f, n, lines, places)
    BY <1>1, TakesExists
  <2> QED
    BY <2>1, Zenon DEF Takes
<1>4. /\ kept[0] = <<>>
      /\ \A k \in 1..n : kept[k] = IF k \in places THEN Append(kept[k - 1], lines[k]) ELSE kept[k - 1]
  <2> HIDE DEF kept
  <2>1. kept = [k \in 0..n |-> IF k = 0 THEN <<>>
                               ELSE IF k \in places THEN Append(kept[k - 1], lines[k]) ELSE kept[k - 1]]
    BY <1>3 DEF Takes
  <2>2. \A k \in 0..n : kept[k] = IF k = 0 THEN <<>>
                                 ELSE IF k \in places THEN Append(kept[k - 1], lines[k]) ELSE kept[k - 1]
    BY <2>1
  <2>3. 0 \in 0..n /\ \A k \in 1..n : k \in 0..n /\ k # 0
    BY <1>1
  <2> QED
    BY <2>2, <2>3
<1> HIDE DEF kept
<1>5. failing = {}
  <2> SUFFICES ASSUME failing # {} PROVE FALSE
    OBVIOUS
  <2>1. PICK k \in failing : \A m \in failing : k <= m
    <3>1. failing \in SUBSET Nat
      BY <1>1
    <3> HIDE DEF failing
    <3> QED
      BY <3>1, LeastNatural
  <2>2. k \in 0..n /\ ~Taken(k)
    BY <2>1
  <2>3. CASE k = 0
    <3>1. kept[k] = <<>> /\ <<>> \in Seq(S) /\ (1..k) = {} /\ DOMAIN kept[k] = {}
      BY <1>4, <2>3, EmptySeq
    <3>2. Drawn(kept[k], lines, places, k)
      <4>1. [j \in {} |-> 0] \in [DOMAIN kept[k] -> (1..k) \cap places]
        BY <3>1
      <4> QED
        BY <3>1, <4>1 DEF Drawn
    <3> QED
      BY <2>2, <3>1, <3>2
  <2>4. CASE k # 0
    <3>1. k \in 1..n /\ k \in Nat \ {0} /\ k - 1 \in 0..n /\ k - 1 < k
      BY <1>1, <2>2, <2>4
    <3>2. Taken(k - 1)
      <4>1. k - 1 \notin failing
        <5> HIDE DEF failing
        <5> QED
          BY <2>1, <3>1
      <4> QED
        BY <3>1, <4>1
    <3>3. lines[k] \in S
      BY <1>1, <3>1, ElementOfSeq
    <3> DEFINE p == kept[k - 1]
    <3>4. p \in Seq(S) /\ Drawn(p, lines, places, k - 1)
      BY <3>2
    <3>5. kept[k] = IF k \in places THEN Append(p, lines[k]) ELSE p
      BY <1>4, <3>1
    <3> HIDE DEF p
    <3>6. CASE k \notin places
      <4>1. Drawn(p, lines, places, k)
        BY <3>1, <3>4, <3>6, DrawnSame
      <4> QED
        BY <2>2, <3>4, <3>5, <3>6, <4>1
    <3>7. CASE k \in places
      <4>1. Drawn(Append(p, lines[k]), lines, places, k)
        BY <3>1, <3>3, <3>4, <3>7, DrawnMore
      <4>2. Append(p, lines[k]) \in Seq(S)
        BY <3>3, <3>4, AppendFacts
      <4> QED
        BY <2>2, <3>5, <3>7, <4>1, <4>2
    <3> QED
      BY <3>6, <3>7
  <2> QED
    BY <2>3, <2>4
<1>6. Taken(n)
  BY <1>1, <1>5
<1> HIDE DEF failing
<1> QED
  BY <1>1, <1>2, <1>6 DEF n

\* What is taken are the lines at those places.
LEMMA LinesAt ==
  ASSUME NEW S, NEW lines \in Seq(S), NEW places
  PROVE  /\ At(lines, places) \in Seq(S)
         /\ \A j \in DOMAIN At(lines, places) : \E k \in DOMAIN lines \cap places :
              At(lines, places)[j] = lines[k]
         /\ \A k \in DOMAIN lines \cap places : \E j \in DOMAIN At(lines, places) :
              At(lines, places)[j] = lines[k]
<1>1. DOMAIN lines = 1..Len(lines)
  BY LenProperties
<1> DEFINE new == At(lines, places)
<1>2. new \in Seq(S) /\ Drawn(new, lines, places, Len(lines))
  BY AtInOrder
<1> HIDE DEF new
<1>3. PICK from \in [DOMAIN new -> DOMAIN lines \cap places] :
             /\ \A j \in DOMAIN new : new[j] = lines[from[j]]
             /\ \A k \in DOMAIN lines \cap places : \E j \in DOMAIN new : from[j] = k
  BY <1>1, <1>2 DEF Drawn
<1>4. /\ \A j \in DOMAIN new : \E k \in DOMAIN lines \cap places : new[j] = lines[k]
      /\ \A k \in DOMAIN lines \cap places : \E j \in DOMAIN new : new[j] = lines[k]
  BY <1>3
<1> QED
  BY <1>2, <1>4 DEF new

-----------------------------------------------------------------------------
(* SessionStore: what its files and calls show.                            *)

\* Every line of the item shows these calls, and there is one if they are any.
Shows(lines, i, calls) ==
  calls # {} => /\ \E k \in DOMAIN lines : lines[k].id = i
                /\ \A k \in DOMAIN lines : lines[k].id = i => calls \subseteq lines[k].has

\* The events of these calls are among the lines.
Records(lines, calls) ==
  \A c \in calls : \E k \in DOMAIN lines : lines[k].by = c /\ ~IsUsage(lines[k])

\* A line of messages.jsonl hides those before it.
ShowsLast(lines, i, calls) ==
  calls # {} => \E k \in DOMAIN lines :
                  /\ lines[k].id = i /\ calls \subseteq lines[k].has
                  /\ \A j \in DOMAIN lines : lines[j].id = i => j <= k

LEMMA ItemLast ==
  ASSUME NEW S, NEW lines \in Seq(S), NEW i, NEW k \in DOMAIN lines, lines[k].id = i,
         \A j \in DOMAIN lines : lines[j].id = i => j <= k
  PROVE  ItemIn(lines, i) = lines[k]
<1> DEFINE at == {j \in DOMAIN lines : lines[j].id = i}
<1>1. at \in SUBSET (1..Len(lines)) /\ k \in at /\ Len(lines) \in Nat
  OBVIOUS
<1>2. LastOf(at) \in at /\ \A j \in at : j <= LastOf(at)
  <2> HIDE DEF at
  <2> QED
    BY <1>1, LastOfPlaces
<1>3. LastOf(at) = k
  <2>1. k <= LastOf(at) /\ LastOf(at) <= k
    BY <1>1, <1>2
  <2>2. LastOf(at) \in Nat /\ k \in Nat
    BY <1>1, <1>2
  <2> HIDE DEF at
  <2> QED
    BY <2>1, <2>2
<1>4. ItemIn(lines, i) = IF at = {} THEN Missing ELSE lines[LastOf(at)]
  BY DEF ItemIn
<1> HIDE DEF at
<1> QED
  BY <1>1, <1>3, <1>4

\* If an item is there, it is the last line with its id.
LEMMA ItemThere ==
  ASSUME NEW S, NEW lines \in Seq(S), NEW i, NEW k \in DOMAIN lines, lines[k].id = i
  PROVE  \E j \in DOMAIN lines : /\ lines[j].id = i /\ ItemIn(lines, i) = lines[j]
                                 /\ \A l \in DOMAIN lines : lines[l].id = i => l <= j
<1> DEFINE at == {j \in DOMAIN lines : lines[j].id = i}
<1>1. at \in SUBSET (1..Len(lines)) /\ k \in at /\ Len(lines) \in Nat
  OBVIOUS
<1>2. LastOf(at) \in at /\ \A j \in at : j <= LastOf(at)
  <2> HIDE DEF at
  <2> QED
    BY <1>1, LastOfPlaces
<1>3. ItemIn(lines, i) = IF at = {} THEN Missing ELSE lines[LastOf(at)]
  BY DEF ItemIn
<1>4. LastOf(at) \in DOMAIN lines /\ lines[LastOf(at)].id = i
      /\ \A l \in DOMAIN lines : lines[l].id = i => l <= LastOf(at)
  BY <1>2
<1>5. ItemIn(lines, i) = lines[LastOf(at)]
  BY <1>1, <1>3
<1> HIDE DEF at
<1> QED
  BY <1>4, <1>5

\* What a call reads shows what the file shows.
LEMMA LatestShows ==
  ASSUME NEW lines \in Seq(Lines), NEW i, NEW calls, ShowsLast(lines, i, calls)
  PROVE  Shows(Latest(lines), i, calls)
<1> DEFINE last == {k \in DOMAIN lines : \A j \in DOMAIN lines : j > k => lines[j].id # lines[k].id}
           read == Latest(lines)
<1> SUFFICES ASSUME calls # {} PROVE /\ \E k \in DOMAIN read : read[k].id = i
                                     /\ \A k \in DOMAIN read : read[k].id = i => calls \subseteq read[k].has
  BY DEF Shows
<1>1. PICK k \in DOMAIN lines : /\ lines[k].id = i /\ calls \subseteq lines[k].has
                                /\ \A j \in DOMAIN lines : lines[j].id = i => j <= k
  BY DEF ShowsLast
<1>2. k \in last
  BY <1>1
<1>3. \A j \in last : lines[j].id = i => j = k
  BY <1>1
<1>4. read = At(lines, last)
  BY DEF Latest
<1> HIDE DEF last, read
<1>5. /\ \A j \in DOMAIN read : \E l \in DOMAIN lines \cap last : read[j] = lines[l]
      /\ \A l \in DOMAIN lines \cap last : \E j \in DOMAIN read : read[j] = lines[l]
  BY <1>4, LinesAt
<1>6. \E j \in DOMAIN read : read[j].id = i
  BY <1>1, <1>2, <1>5
<1>7. ASSUME NEW j \in DOMAIN read, read[j].id = i PROVE calls \subseteq read[j].has
  <2>1. PICK l \in DOMAIN lines \cap last : read[j] = lines[l]
    BY <1>5
  <2> QED
    BY <1>1, <1>3, <1>7, <2>1
<1> QED
  BY <1>6, <1>7

LEMMA LatestLines ==
  ASSUME NEW lines \in Seq(Lines) PROVE Latest(lines) \in Seq(Lines)
  BY LinesAt DEF Latest

\* The same the other way: what shows the calls in every line shows them in the last.
LEMMA ShowsAll ==
  ASSUME NEW lines \in Seq(Lines), NEW i, NEW calls, Shows(lines, i, calls)
  PROVE  ShowsLast(lines, i, calls)
<1> SUFFICES ASSUME calls # {} PROVE ShowsLast(lines, i, calls)
  BY DEF ShowsLast
<1>1. PICK k \in DOMAIN lines : lines[k].id = i
  BY DEF Shows
<1>2. PICK j \in DOMAIN lines : /\ lines[j].id = i
                                /\ \A l \in DOMAIN lines : lines[l].id = i => l <= j
  BY <1>1, ItemThere
<1> QED
  BY <1>2 DEF Shows, ShowsLast

\* Compaction drops no event but of usage.
LEMMA CompactRecords ==
  ASSUME NEW lines \in Seq(EventLines), NEW cutoff, NEW calls, Records(lines, calls)
  PROVE  Compact(lines, cutoff) \in Seq(EventLines) /\ Records(Compact(lines, cutoff), calls)
<1> DEFINE usage == {k \in DOMAIN lines : IsUsage(lines[k])}
           new == Compact(lines, cutoff)
<1>1. PICK places : DOMAIN lines \ usage \subseteq places /\ new = At(lines, places)
  BY DEF Compact
<1> HIDE DEF new
<1>2. /\ new \in Seq(EventLines)
      /\ \A k \in DOMAIN lines \cap places : \E j \in DOMAIN new : new[j] = lines[k]
  BY <1>1, LinesAt
<1>3. ASSUME NEW c \in calls PROVE \E j \in DOMAIN new : new[j].by = c /\ ~IsUsage(new[j])
  <2>1. PICK k \in DOMAIN lines : lines[k].by = c /\ ~IsUsage(lines[k])
    BY DEF Records
  <2>2. k \in DOMAIN lines \cap places
    BY <1>1, <2>1
  <2> QED
    BY <1>2, <2>1, <2>2
<1> QED
  BY <1>2, <1>3 DEF Records, new

-----------------------------------------------------------------------------
(* SessionStore: its invariant.                                            *)

SessionTypeOK ==
  /\ progress \in [StoreCalls -> {"idle", "read", "append", "stat", "replace", "rewrite", "done"}]
  /\ asked \in [StoreCalls -> EventOps \cup ItemOps \cup {Missing}]
  /\ item \in [StoreCalls -> Items \cup {Missing}]
  /\ seen \in [StoreCalls -> Seq(Lines) \cup Seq(EventLines)]
  /\ messages \in Seq(Lines) /\ events \in Seq(EventLines) /\ torn \in SUBSET {"messages", "events"}
  /\ now \in Nat /\ spent \in Nat /\ failures \in Nat /\ met \in BOOLEAN
  /\ owed \in [Items -> SUBSET StoreCalls] /\ owedEvents \in SUBSET StoreCalls
  /\ recorded \in Seq(EventLines)

\* A patch on its way to the file.
Patching(c) == progress[c] = "append" /\ asked[c] = "patch"

\* What a call holds of the file it read, before it writes.
ReadRight(c) ==
  /\ progress[c] \in {"read", "append", "rewrite"} /\ asked[c] \in ItemOps => item[c] \in Items
  /\ progress[c] \in {"read", "rewrite"} => asked[c] \in {"patch", "discard"}
  /\ progress[c] = "rewrite" => seen[c] \in Seq(Lines)
  /\ Patching(c) => seen[c] \in Seq(Lines) /\ \E k \in DOMAIN seen[c] : seen[c][k].id = item[c]
  /\ progress[c] = "replace" => seen[c] \in Seq(EventLines)

\* And what it will write, in the place of the file or after it, shows what is owed.
WillShow(c) ==
  /\ progress[c] = "rewrite" => \A i \in Items : Shows(seen[c], i, owed[i])
  /\ Patching(c) => Shows(seen[c], item[c], owed[item[c]])
  /\ progress[c] = "replace" => Records(seen[c], owedEvents)

SessionInv ==
  /\ SessionTypeOK
  /\ \A c \in StoreCalls : ReadRight(c) /\ WillShow(c)
  /\ \A i \in Items : ShowsLast(messages, i, owed[i])
  /\ Records(events, owedEvents)

LEMMA ShowsLess ==
  ASSUME NEW lines, NEW i, NEW more, NEW fewer \in SUBSET more, Shows(lines, i, more)
  PROVE  Shows(lines, i, fewer)
  BY DEF Shows

\* A call that a step leaves alone, while nothing new is owed that it would not write.
LEMMA CallKeeps ==
  ASSUME NEW d \in StoreCalls, ReadRight(d), WillShow(d),
         progress'[d] = progress[d], asked'[d] = asked[d], item'[d] = item[d], seen'[d] = seen[d],
         progress[d] = "rewrite" => \A i \in Items : owed'[i] \subseteq owed[i],
         Patching(d) => owed'[item[d]] \subseteq owed[item[d]],
         progress[d] = "replace" => owedEvents' \subseteq owedEvents
  PROVE  ReadRight(d)' /\ WillShow(d)'
<1>1. ReadRight(d)'
  BY DEF ReadRight, Patching
<1>2. progress'[d] = "rewrite" => \A i \in Items : Shows(seen'[d], i, owed'[i])
  BY ShowsLess DEF WillShow
<1>3. Patching(d)' => Shows(seen'[d], item'[d], owed'[item'[d]])
  BY ShowsLess DEF WillShow, Patching
<1>4. progress'[d] = "replace" => Records(seen'[d], owedEvents')
  BY DEF WillShow, Records
<1> QED
  BY <1>1, <1>2, <1>3, <1>4 DEF WillShow

\* One that is through, or has not read yet, holds nothing.
LEMMA CallIdle ==
  ASSUME NEW c \in StoreCalls, progress'[c] \in {"idle", "stat", "done"}
  PROVE  ReadRight(c)' /\ WillShow(c)'
  BY DEF ReadRight, WillShow, Patching

LEMMA SessionInvInit == SessionInit => SessionInv
<1> SUFFICES ASSUME SessionInit PROVE SessionInv
  OBVIOUS
<1>1. SessionTypeOK
  BY EmptySeq DEF SessionInit, SessionTypeOK
<1>2. \A c \in StoreCalls : ReadRight(c) /\ WillShow(c)
  BY DEF SessionInit, ReadRight, WillShow, Patching
<1>3. \A i \in Items : ShowsLast(messages, i, owed[i])
  BY DEF SessionInit, ShowsLast
<1>4. Records(events, owedEvents)
  BY DEF SessionInit, Records
<1> QED
  BY <1>1, <1>2, <1>3, <1>4 DEF SessionInv

\* A step that changes neither the files nor what is owed.
LEMMA FilesStay ==
  ASSUME SessionInv, UNCHANGED <<messages, events, owed, owedEvents>>, SessionTypeOK',
         \A c \in StoreCalls : ReadRight(c)' /\ WillShow(c)'
  PROVE  SessionInv'
  BY DEF SessionInv

LEMMA AskStep == ASSUME SessionInv, NEW c \in StoreCalls, AskStore(c) PROVE SessionInv'
<1>1. PICK o \in MayAsk[c] :
        /\ progress[c] = "idle" /\ asked' = [asked EXCEPT ![c] = o]
        /\ \E i \in IF o \in EventOps THEN {Missing} ELSE Items : item' = [item EXCEPT ![c] = i]
        /\ MoveTo(c, IF o \in {"patch", "discard"} THEN "read" ELSE "append")
        /\ met' \in BOOLEAN /\ recorded' = IF met' THEN <<>> ELSE recorded
        /\ UNCHANGED <<seen, messages, events, torn, now, spent, owed, owedEvents, failures>>
  BY DEF AskStore, files, SessionInv, SessionTypeOK
<1>2. PICK i \in IF o \in EventOps THEN {Missing} ELSE Items : item' = [item EXCEPT ![c] = i]
  BY <1>1
<1>3. o \in EventOps \cup ItemOps
  BY SessionAssumption
<1>4. SessionTypeOK
  BY DEF SessionInv
<1>5. SessionTypeOK'
  <2>1. /\ progress' \in [StoreCalls -> {"idle", "read", "append", "stat", "replace", "rewrite", "done"}]
        /\ asked' \in [StoreCalls -> EventOps \cup ItemOps \cup {Missing}]
        /\ item' \in [StoreCalls -> Items \cup {Missing}]
    BY <1>1, <1>2, <1>3, <1>4 DEF SessionTypeOK, MoveTo
  <2>2. recorded' \in Seq(EventLines)
    BY <1>1, <1>4, EmptySeq DEF SessionTypeOK
  <2> QED
    BY <1>1, <1>4, <2>1, <2>2 DEF SessionTypeOK
<1>6. ReadRight(c)' /\ WillShow(c)'
  <2>1. /\ asked'[c] = o /\ item'[c] = i
        /\ progress'[c] = IF o \in {"patch", "discard"} THEN "read" ELSE "append"
    BY <1>1, <1>2, <1>4 DEF SessionTypeOK, MoveTo
  <2>2. o \in ItemOps => o \notin EventOps
    BY DEF ItemOps, EventOps
  <2> QED
    BY <1>2, <2>1, <2>2 DEF ReadRight, WillShow, Patching
<1>7. ASSUME NEW d \in StoreCalls \ {c} PROVE ReadRight(d)' /\ WillShow(d)'
  <2>1. /\ progress'[d] = progress[d] /\ asked'[d] = asked[d] /\ item'[d] = item[d] /\ seen'[d] = seen[d]
        /\ owed' = owed /\ owedEvents' = owedEvents
    BY <1>1, <1>2, <1>4 DEF SessionTypeOK, MoveTo
  <2> QED
    BY <2>1, CallKeeps DEF SessionInv
<1> QED
  BY <1>1, <1>5, <1>6, <1>7, FilesStay

LEMMA ReadStep == ASSUME SessionInv, NEW c \in StoreCalls, ReadItems(c) PROVE SessionInv'
<1>1. /\ progress[c] = "read"
      /\ UNCHANGED <<asked, item, messages, events, torn, now, spent, owed, owedEvents, recorded, met, failures>>
  BY DEF ReadItems, files, sessionHistory
<1>2. SessionTypeOK /\ messages \in Seq(Lines)
  BY DEF SessionInv, SessionTypeOK
<1>3. asked[c] \in {"patch", "discard"} /\ item[c] \in Items
  BY <1>1 DEF SessionInv, ReadRight, ItemOps
<1>4. CASE asked[c] = "patch" /\ ItemIn(messages, item[c]) = Missing
  <2>1. MoveTo(c, "done") /\ seen' = seen
    BY <1>4 DEF ReadItems
  <2>2. SessionTypeOK'
    BY <1>1, <1>2, <2>1 DEF SessionTypeOK, MoveTo
  <2>3. ReadRight(c)' /\ WillShow(c)'
    <3>1. progress'[c] = "done"
      BY <1>2, <2>1 DEF MoveTo, SessionTypeOK
    <3> QED
      BY <3>1, CallIdle
  <2>4. ASSUME NEW d \in StoreCalls \ {c} PROVE ReadRight(d)' /\ WillShow(d)'
    <3>1. progress'[d] = progress[d]
      BY <1>2, <2>1 DEF MoveTo, SessionTypeOK
    <3> QED
      BY <1>1, <2>1, <3>1, CallKeeps DEF SessionInv
  <2> QED
    BY <1>1, <2>2, <2>3, <2>4, FilesStay
<1>5. CASE ~(asked[c] = "patch" /\ ItemIn(messages, item[c]) = Missing)
  <2> DEFINE read == Latest(messages)
  <2>1. /\ MoveTo(c, IF asked[c] = "patch" THEN "append" ELSE "rewrite")
        /\ seen' = [seen EXCEPT ![c] = read]
    BY <1>5 DEF ReadItems
  <2>2. read \in Seq(Lines)
    BY <1>2, LatestLines
  <2>3. SessionTypeOK'
    <3> HIDE DEF read
    <3> QED
      BY <1>1, <1>2, <2>1, <2>2 DEF SessionTypeOK, MoveTo
  <2>4. ReadRight(c)' /\ WillShow(c)'
    <3>1. seen'[c] = read /\ progress'[c] = IF asked[c] = "patch" THEN "append" ELSE "rewrite"
      BY <1>2, <2>1 DEF SessionTypeOK, MoveTo
    <3>2. \A i \in Items : Shows(read, i, owed[i])
      BY <1>2, LatestShows DEF SessionInv
    <3>3. asked[c] = "patch" => \E k \in DOMAIN read : read[k].id = item[c]
      <4> SUFFICES ASSUME asked[c] = "patch" PROVE \E k \in DOMAIN read : read[k].id = item[c]
        OBVIOUS
      <4>1. PICK k \in DOMAIN messages : messages[k].id = item[c]
        BY <1>5 DEF ItemIn
      <4>2. PICK j \in DOMAIN messages : /\ messages[j].id = item[c]
                                         /\ \A l \in DOMAIN messages : messages[l].id = item[c] => l <= j
        BY <1>2, <4>1, ItemThere
      <4> DEFINE last == {k1 \in DOMAIN messages :
                            \A j1 \in DOMAIN messages : j1 > k1 => messages[j1].id # messages[k1].id}
      <4>3. j \in last
        <5>1. DOMAIN messages \in SUBSET Nat
          BY <1>2
        <5> QED
          BY <4>2, <5>1
      <4>4. read = At(messages, last)
        BY DEF Latest
      <4> HIDE DEF last, read
      <4> QED
        BY <1>2, <4>2, <4>3, <4>4, LinesAt
    <3> HIDE DEF read
    <3> QED
      BY <1>1, <1>3, <2>2, <3>1, <3>2, <3>3 DEF ReadRight, WillShow, Patching
  <2>5. ASSUME NEW d \in StoreCalls \ {c} PROVE ReadRight(d)' /\ WillShow(d)'
    <3>1. progress'[d] = progress[d] /\ seen'[d] = seen[d]
      BY <1>2, <2>1 DEF MoveTo, SessionTypeOK
    <3> QED
      BY <1>1, <3>1, CallKeeps DEF SessionInv
  <2> QED
    BY <1>1, <2>3, <2>4, <2>5, FilesStay
<1> QED
  BY <1>4, <1>5

\* The file with one more line of the item, of a call that is not owed what it read.
LEMMA LandItemStep ==
  ASSUME SessionInv, NEW c \in StoreCalls, progress[c] = "append", LandItem(c),
         UNCHANGED <<asked, item, torn, now, met, failures>>
  PROVE  SessionInv'
<1> DEFINE i == item[c]
           line == ItemLine(c)
           base == IF asked[c] = "patch" THEN owed[i] ELSE {}
<1>1. /\ asked[c] \in {"item", "patch"} /\ MoveTo(c, "done")
      /\ messages' = Append(messages, line) /\ seen' = [seen EXCEPT ![c] = <<>>]
      /\ owed' = [owed EXCEPT ![i] = base \cup (IF Held(c, i) THEN {} ELSE {c})]
      /\ UNCHANGED <<events, spent, owedEvents, recorded>>
  BY DEF LandItem
<1>2. SessionTypeOK /\ messages \in Seq(Lines) /\ owed \in [Items -> SUBSET StoreCalls]
  BY DEF SessionInv, SessionTypeOK
<1>3. i \in Items /\ owed[i] \in SUBSET StoreCalls
  BY <1>1, <1>2 DEF SessionInv, ReadRight, ItemOps
<1>4. line \in Lines /\ line.id = i /\ base \cup {c} \subseteq line.has
  <2>1. CASE asked[c] = "patch"
    <3>1. /\ seen[c] \in Seq(Lines) /\ Shows(seen[c], i, owed[i])
          /\ \E k \in DOMAIN seen[c] : seen[c][k].id = i
      BY <2>1 DEF SessionInv, ReadRight, WillShow, Patching
    <3>2. PICK k \in DOMAIN seen[c] : seen[c][k].id = i /\ ItemIn(seen[c], i) = seen[c][k]
      BY <3>1, ItemThere
    <3>3. seen[c][k] \in Lines
      BY <3>1, <3>2, ElementOfSeq
    <3>4. owed[i] \subseteq seen[c][k].has
      BY <3>1, <3>2 DEF Shows
    <3>5. line = [id |-> i, has |-> {c} \cup seen[c][k].has]
      BY <2>1, <3>2 DEF ItemLine
    <3> HIDE DEF line, i
    <3> QED
      BY <1>3, <2>1, <3>3, <3>4, <3>5 DEF Lines
  <2>2. CASE asked[c] = "item"
    <3>1. line = [id |-> i, has |-> {c}]
      BY <2>2 DEF ItemLine
    <3> HIDE DEF line, i
    <3> QED
      BY <1>3, <2>2, <3>1 DEF Lines
  <2> QED
    BY <1>1, <2>1, <2>2
<1> HIDE DEF line
<1>5. owed'[i] \subseteq base \cup {c} /\ \A j \in Items \ {i} : owed'[j] = owed[j]
  BY <1>1, <1>2, <1>3
\* Nobody who will write the item is owed more than before.
<1>6. Held(c, i) => owed'[i] \subseteq owed[i]
  BY <1>1, <1>2, <1>3
<1>7. owed' \in [Items -> SUBSET StoreCalls]
  <2>1. base \cup (IF Held(c, i) THEN {} ELSE {c}) \in SUBSET StoreCalls
    BY <1>3
  <2> HIDE DEF base
  <2> QED
    BY <1>1, <1>2, <2>1
<1> HIDE DEF base
<1>8. /\ messages' \in Seq(Lines) /\ DOMAIN messages' = 1..(Len(messages) + 1)
      /\ DOMAIN messages = 1..Len(messages) /\ Len(messages) \in Nat
      /\ messages'[Len(messages) + 1] = line /\ \A k \in DOMAIN messages : messages'[k] = messages[k]
  <2>1. messages' \in Seq(Lines) /\ Len(messages') = Len(messages) + 1
        /\ messages'[Len(messages) + 1] = line /\ \A k \in 1..Len(messages) : messages'[k] = messages[k]
    BY <1>1, <1>2, <1>4, AppendProperties
  <2> QED
    BY <1>2, <2>1
<1>9. SessionTypeOK'
  <2>1. seen' \in [StoreCalls -> Seq(Lines) \cup Seq(EventLines)]
    BY <1>1, <1>2, EmptySeq DEF SessionTypeOK
  <2>2. progress' \in [StoreCalls -> {"idle", "read", "append", "stat", "replace", "rewrite", "done"}]
    BY <1>1, <1>2 DEF SessionTypeOK, MoveTo
  <2> QED
    BY <1>1, <1>2, <1>7, <1>8, <2>1, <2>2 DEF SessionTypeOK
<1>10. ReadRight(c)' /\ WillShow(c)'
  <2>1. progress'[c] = "done"
    BY <1>1, <1>2 DEF MoveTo, SessionTypeOK
  <2> QED
    BY <2>1, CallIdle
<1>11. ASSUME NEW d \in StoreCalls \ {c} PROVE ReadRight(d)' /\ WillShow(d)'
  <2>1. progress'[d] = progress[d] /\ seen'[d] = seen[d] /\ asked'[d] = asked[d] /\ item'[d] = item[d]
    BY <1>1, <1>2 DEF MoveTo, SessionTypeOK
  <2>2. progress[d] = "rewrite" => \A j \in Items : owed'[j] \subseteq owed[j]
    <3>1. progress[d] = "rewrite" => Held(c, i)
      BY DEF Held
    <3> QED
      BY <1>5, <1>6, <3>1
  <2>3. Patching(d) => owed'[item[d]] \subseteq owed[item[d]]
    <3>1. Patching(d) => item[d] \in Items
      BY DEF SessionInv, ReadRight, Patching, ItemOps
    <3>2. Patching(d) /\ item[d] = i => Held(c, i)
      BY DEF Held, Patching
    <3> QED
      BY <1>5, <1>6, <3>1, <3>2
  <2> QED
    BY <1>1, <2>1, <2>2, <2>3, CallKeeps DEF SessionInv
<1>12. ASSUME NEW j \in Items PROVE ShowsLast(messages', j, owed'[j])
  <2>1. CASE j = i
    <3>1. \A k \in DOMAIN messages' : k <= Len(messages) + 1
      BY <1>8
    <3>2. Len(messages) + 1 \in DOMAIN messages'
      BY <1>8
    <3> QED
      BY <1>4, <1>5, <1>8, <2>1, <3>1, <3>2 DEF ShowsLast
  <2>2. CASE j # i
    <3> SUFFICES ASSUME owed[j] # {}
                 PROVE  \E k \in DOMAIN messages' :
                          /\ messages'[k].id = j /\ owed[j] \subseteq messages'[k].has
                          /\ \A l \in DOMAIN messages' : messages'[l].id = j => l <= k
      BY <1>5, <2>2 DEF ShowsLast
    <3>1. PICK k \in DOMAIN messages : /\ messages[k].id = j /\ owed[j] \subseteq messages[k].has
                                       /\ \A l \in DOMAIN messages : messages[l].id = j => l <= k
      BY DEF SessionInv, ShowsLast
    <3>2. \A l \in DOMAIN messages' : l \in DOMAIN messages \/ l = Len(messages) + 1
      BY <1>8
    <3>3. k \in DOMAIN messages'
      BY <1>8, <3>1
    <3> QED
      BY <1>4, <1>8, <2>2, <3>1, <3>2, <3>3
  <2> QED
    BY <2>1, <2>2
<1> QED
  BY <1>1, <1>9, <1>10, <1>11, <1>12 DEF SessionInv

LEMMA RecordsMore ==
  ASSUME NEW lines \in Seq(EventLines), NEW e \in EventLines, NEW calls, Records(lines, calls)
  PROVE  /\ Append(lines, e) \in Seq(EventLines) /\ Records(Append(lines, e), calls)
         /\ \E k \in DOMAIN Append(lines, e) : Append(lines, e)[k] = e
<1> DEFINE more == Append(lines, e)
<1>1. /\ more \in Seq(EventLines) /\ Len(more) = Len(lines) + 1 /\ Len(lines) \in Nat
      /\ \A k \in 1..Len(lines) : more[k] = lines[k]
      /\ more[Len(lines) + 1] = e
  BY AppendProperties
<1> HIDE DEF more
<1>2. DOMAIN lines = 1..Len(lines) /\ DOMAIN more = 1..(Len(lines) + 1)
  BY <1>1
<1>3. (\A k \in DOMAIN lines : k \in DOMAIN more /\ more[k] = lines[k]) /\ Len(lines) + 1 \in DOMAIN more
  BY <1>1, <1>2
<1>4. Records(more, calls)
  BY <1>3 DEF Records
<1> QED
  BY <1>1, <1>3, <1>4 DEF more

LEMMA LandEventStep ==
  ASSUME SessionInv, NEW c \in StoreCalls, progress[c] = "append", LandEvent(c) \/ LandUsage(c),
         UNCHANGED <<asked, item, torn, now, met, failures>>
  PROVE  SessionInv'
<1>1. SessionTypeOK /\ events \in Seq(EventLines) /\ owedEvents \in SUBSET StoreCalls
  BY DEF SessionInv, SessionTypeOK
<1>2. UNCHANGED <<seen, messages, owed>> /\ (MoveTo(c, "done") \/ MoveTo(c, "stat"))
  BY DEF LandEvent, LandUsage
<1>3. /\ events' \in Seq(EventLines) /\ Records(events', owedEvents') /\ owedEvents' \in SUBSET StoreCalls
      /\ (\E d \in StoreCalls : progress[d] = "replace") => owedEvents' = owedEvents
      /\ spent' \in Nat /\ recorded' \in Seq(EventLines)
  <2>1. CASE LandEvent(c)
    <3> DEFINE event == [by |-> c, time |-> now, total |-> 0, model |-> Missing]
    <3>1. /\ events' = Append(events, event) /\ spent' = spent /\ recorded' = recorded
          /\ owedEvents' = owedEvents \cup (IF \E d \in StoreCalls : progress[d] = "replace" THEN {} ELSE {c})
      BY <2>1 DEF LandEvent
    <3>2. event \in EventLines /\ event.by = c /\ ~IsUsage(event)
      BY <1>1 DEF EventLines, SessionTypeOK, IsUsage
    <3> HIDE DEF event
    <3>3. /\ events' \in Seq(EventLines) /\ Records(events', owedEvents)
          /\ \E k \in DOMAIN events' : events'[k] = event
      BY <1>1, <3>1, <3>2, RecordsMore DEF SessionInv
    <3>4. Records(events', owedEvents')
      BY <3>1, <3>2, <3>3 DEF Records
    <3> QED
      BY <1>1, <3>1, <3>3, <3>4 DEF SessionTypeOK
  <2>2. CASE LandUsage(c)
    <3>1. PICK m \in Models :
            /\ events' = Append(events, [by |-> Missing, time |-> now, total |-> spent', model |-> m])
            /\ recorded' = IF met THEN recorded
                           ELSE Append(recorded, [by |-> Missing, time |-> now, total |-> spent', model |-> m])
      BY <2>2 DEF LandUsage
    <3> DEFINE event == [by |-> Missing, time |-> now, total |-> spent', model |-> m]
    <3>2. spent' \in Nat /\ owedEvents' = owedEvents
      BY <1>1, <2>2 DEF LandUsage, SessionTypeOK
    <3>3. event \in EventLines
      BY <1>1, <3>2 DEF EventLines, SessionTypeOK
    <3>4. events' = Append(events, event) /\ recorded' = IF met THEN recorded ELSE Append(recorded, event)
      BY <3>1
    <3> HIDE DEF event
    <3>5. events' \in Seq(EventLines) /\ Records(events', owedEvents)
      BY <1>1, <3>3, <3>4, RecordsMore DEF SessionInv
    <3>6. recorded' \in Seq(EventLines)
      BY <1>1, <3>3, <3>4, AppendProperties DEF SessionTypeOK
    <3> QED
      BY <1>1, <3>2, <3>5, <3>6
  <2> QED
    BY <2>1, <2>2
<1>4. SessionTypeOK'
  BY <1>1, <1>2, <1>3 DEF SessionTypeOK, MoveTo
<1>5. ReadRight(c)' /\ WillShow(c)'
  <2>1. progress'[c] \in {"done", "stat"}
    BY <1>1, <1>2 DEF SessionTypeOK, MoveTo
  <2> QED
    BY <2>1, CallIdle
<1>6. ASSUME NEW d \in StoreCalls \ {c} PROVE ReadRight(d)' /\ WillShow(d)'
  <2>1. progress'[d] = progress[d]
    BY <1>1, <1>2 DEF SessionTypeOK, MoveTo
  <2> QED
    BY <1>2, <1>3, <2>1, CallKeeps DEF SessionInv
<1> QED
  BY <1>2, <1>3, <1>4, <1>5, <1>6 DEF SessionInv

\* A call that comes to an end, or to its look at the size, without a line that is read.
LEMMA NothingLandsStep ==
  ASSUME SessionInv, NEW c \in StoreCalls, LandTorn(c) \/ FailAppend(c) PROVE SessionInv'
<1>1. SessionTypeOK
  BY DEF SessionInv
<1>2. /\ UNCHANGED <<asked, item, seen, messages, events, now, owed, owedEvents, recorded, met>>
      /\ MoveTo(c, "done") \/ MoveTo(c, "stat")
      /\ torn' \in SUBSET {"messages", "events"} /\ spent' \in Nat /\ failures' \in Nat
  <2>1. torn \in SUBSET {"messages", "events"} /\ spent \in Nat /\ failures \in Nat
    BY <1>1 DEF SessionTypeOK
  <2>2. CASE LandTorn(c)
    <3>1. /\ UNCHANGED <<asked, item, seen, messages, events, now, owed, owedEvents, recorded, met, failures>>
          /\ torn' = torn \ {File(c)}
          /\ asked[c] = "usage" => MoveTo(c, "stat") /\ spent' = spent + 1
          /\ asked[c] # "usage" => MoveTo(c, "done") /\ spent' = spent
      BY <2>2 DEF LandTorn, sessionHistory
    <3>2. torn \ {File(c)} \in SUBSET {"messages", "events"}
      BY <2>1
    <3> QED
      BY <2>1, <3>1, <3>2
  <2>3. CASE FailAppend(c)
    <3>1. File(c) \in {"messages", "events"}
      BY DEF File
    <3>2. torn \cup {File(c)} \in SUBSET {"messages", "events"}
      BY <2>1, <3>1
    <3> QED
      BY <2>1, <2>3, <3>2 DEF FailAppend, sessionHistory
  <2> QED
    BY <2>2, <2>3
<1>3. SessionTypeOK'
  BY <1>1, <1>2 DEF SessionTypeOK, MoveTo
<1>4. ASSUME NEW d \in StoreCalls PROVE ReadRight(d)' /\ WillShow(d)'
  <2>1. progress'[c] \in {"done", "stat"} /\ (d # c => progress'[d] = progress[d])
    BY <1>1, <1>2 DEF SessionTypeOK, MoveTo
  <2>2. CASE d = c
    BY <2>1, <2>2, CallIdle
  <2>3. CASE d # c
    BY <1>2, <2>1, <2>3, CallKeeps DEF SessionInv
  <2> QED
    BY <2>2, <2>3
<1> QED
  BY <1>2, <1>3, <1>4, FilesStay

LEMMA LookStep == ASSUME SessionInv, NEW c \in StoreCalls, Look(c) PROVE SessionInv'
<1> DEFINE new == Compact(events, Cutoff)
<1>1. SessionTypeOK /\ events \in Seq(EventLines)
  BY DEF SessionInv, SessionTypeOK
<1>2. /\ UNCHANGED <<asked, item, messages, events, torn, now, spent, owed, owedEvents, recorded, met, failures>>
      /\ \/ MoveTo(c, "replace") /\ seen' = [seen EXCEPT ![c] = new]
         \/ MoveTo(c, "done") /\ seen' = seen
  BY DEF Look, files, sessionHistory
<1>3. new \in Seq(EventLines) /\ Records(new, owedEvents)
  BY <1>1, CompactRecords DEF SessionInv
<1> HIDE DEF new
<1>4. SessionTypeOK'
  <2>1. progress' \in [StoreCalls -> {"idle", "read", "append", "stat", "replace", "rewrite", "done"}]
    BY <1>1, <1>2 DEF SessionTypeOK, MoveTo
  <2>2. seen' \in [StoreCalls -> Seq(Lines) \cup Seq(EventLines)]
    BY <1>1, <1>2, <1>3 DEF SessionTypeOK
  <2> QED
    BY <1>1, <1>2, <2>1, <2>2 DEF SessionTypeOK
<1>5. ASSUME NEW d \in StoreCalls PROVE ReadRight(d)' /\ WillShow(d)'
  <2>1. CASE d # c
    <3>1. progress'[d] = progress[d] /\ seen'[d] = seen[d]
      BY <1>1, <1>2, <2>1 DEF SessionTypeOK, MoveTo
    <3> QED
      BY <1>2, <3>1, CallKeeps DEF SessionInv
  <2>2. CASE d = c /\ MoveTo(c, "done")
    <3>1. progress'[d] = "done"
      BY <1>1, <2>2 DEF SessionTypeOK, MoveTo
    <3> QED
      BY <3>1, CallIdle
  <2>3. CASE d = c /\ MoveTo(c, "replace") /\ seen' = [seen EXCEPT ![c] = new]
    <3>1. progress'[d] = "replace" /\ seen'[d] = new
      BY <1>1, <2>3 DEF SessionTypeOK, MoveTo
    <3> QED
      BY <1>2, <1>3, <3>1 DEF ReadRight, WillShow, Patching
  <2> QED
    BY <1>2, <2>1, <2>2, <2>3
<1> QED
  BY <1>2, <1>4, <1>5, FilesStay

LEMMA ReplaceStep == ASSUME SessionInv, NEW c \in StoreCalls, Replace(c) PROVE SessionInv'
<1>1. SessionTypeOK
  BY DEF SessionInv
<1>2. /\ progress[c] = "replace" /\ MoveTo(c, "done") /\ seen' = [seen EXCEPT ![c] = <<>>]
      /\ UNCHANGED <<asked, item, messages, now, spent, owed, owedEvents, recorded, met>>
  BY DEF Replace, sessionHistory
<1>3. /\ events' = seen[c] \/ events' = events
      /\ torn' \in SUBSET {"messages", "events"} /\ failures' \in Nat
  <2>1. torn \in SUBSET {"messages", "events"} /\ failures \in Nat
    BY <1>1 DEF SessionTypeOK
  <2>2. /\ events' = seen[c] \/ events' = events
        /\ torn' = torn \ {"events"} \/ torn' = torn
        /\ failures' = failures \/ failures' = failures + 1
    BY DEF Replace
  <2>3. torn \ {"events"} \in SUBSET {"messages", "events"}
    BY <2>1
  <2>4. torn' \in SUBSET {"messages", "events"}
    BY <2>1, <2>2, <2>3, Zenon
  <2>5. failures' \in Nat
    BY <2>1, <2>2
  <2> QED
    BY <2>2, <2>4, <2>5
<1>4. events' \in Seq(EventLines) /\ Records(events', owedEvents)
  BY <1>1, <1>2, <1>3 DEF SessionInv, SessionTypeOK, ReadRight, WillShow
<1>5. SessionTypeOK'
  <2>1. seen' \in [StoreCalls -> Seq(Lines) \cup Seq(EventLines)]
    BY <1>1, <1>2, EmptySeq DEF SessionTypeOK
  <2> QED
    BY <1>1, <1>2, <1>3, <1>4, <2>1 DEF SessionTypeOK, MoveTo
<1>6. ASSUME NEW d \in StoreCalls PROVE ReadRight(d)' /\ WillShow(d)'
  <2>1. progress'[c] = "done" /\ (d # c => progress'[d] = progress[d] /\ seen'[d] = seen[d])
    BY <1>1, <1>2 DEF SessionTypeOK, MoveTo
  <2>2. CASE d = c
    BY <2>1, <2>2, CallIdle
  <2>3. CASE d # c
    BY <1>2, <2>1, <2>3, CallKeeps DEF SessionInv
  <2> QED
    BY <2>2, <2>3
<1> QED
  BY <1>2, <1>4, <1>5, <1>6 DEF SessionInv

\* The file without one item: the others show what they showed.
LEMMA WithoutItem ==
  ASSUME NEW lines \in Seq(Lines), NEW i, NEW j, j # i, NEW calls, Shows(lines, j, calls)
  PROVE  Shows(At(lines, {k \in DOMAIN lines : lines[k].id # i}), j, calls)
<1> DEFINE others == {k \in DOMAIN lines : lines[k].id # i}
           rest == At(lines, others)
<1>0. rest = At(lines, others)
  OBVIOUS
<1> HIDE DEF rest, others
<1>1. /\ \A l \in DOMAIN rest : \E k \in DOMAIN lines \cap others : rest[l] = lines[k]
      /\ \A k \in DOMAIN lines \cap others : \E l \in DOMAIN rest : rest[l] = lines[k]
  BY <1>0, LinesAt
<1> SUFFICES ASSUME calls # {} PROVE /\ \E l \in DOMAIN rest : rest[l].id = j
                                     /\ \A l \in DOMAIN rest : rest[l].id = j => calls \subseteq rest[l].has
  BY DEF Shows, rest, others
<1>2. PICK k \in DOMAIN lines : lines[k].id = j
  BY DEF Shows
<1>3. k \in DOMAIN lines \cap others
  BY <1>2 DEF others
<1>4. \A l \in DOMAIN lines : lines[l].id = j => calls \subseteq lines[l].has
  BY DEF Shows
<1> QED
  BY <1>1, <1>2, <1>3, <1>4

LEMMA RewriteStep == ASSUME SessionInv, NEW c \in StoreCalls, Rewrite(c) PROVE SessionInv'
<1> DEFINE i == item[c]
           rest == At(seen[c], {k \in DOMAIN seen[c] : seen[c][k].id # i})
<1>1. SessionTypeOK /\ owed \in [Items -> SUBSET StoreCalls] /\ messages \in Seq(Lines)
  BY DEF SessionInv, SessionTypeOK
<1>2. /\ progress[c] = "rewrite" /\ MoveTo(c, "done") /\ seen' = [seen EXCEPT ![c] = <<>>]
      /\ UNCHANGED <<asked, item, events, now, spent, owedEvents, recorded, met>>
      /\ torn' \in SUBSET {"messages", "events"} /\ failures' \in Nat
  <2>1. torn \in SUBSET {"messages", "events"} /\ failures \in Nat
    BY <1>1 DEF SessionTypeOK
  <2>2. /\ progress[c] = "rewrite" /\ MoveTo(c, "done") /\ seen' = [seen EXCEPT ![c] = <<>>]
        /\ UNCHANGED <<asked, item, events, now, spent, owedEvents, recorded, met>>
        /\ torn' = torn \ {"messages"} \/ torn' = torn
        /\ failures' = failures \/ failures' = failures + 1
    BY DEF Rewrite
  <2>3. torn \ {"messages"} \in SUBSET {"messages", "events"}
    BY <2>1
  <2>4. torn' \in SUBSET {"messages", "events"}
    BY <2>1, <2>2, <2>3, Zenon
  <2>5. failures' \in Nat
    BY <2>1, <2>2
  <2> QED
    BY <2>2, <2>4, <2>5
<1>3. \/ messages' = rest /\ owed' = [owed EXCEPT ![i] = {}]
      \/ messages' = messages /\ owed' = owed
  BY DEF Rewrite
<1>4. i \in Items /\ seen[c] \in Seq(Lines) /\ \A j \in Items : Shows(seen[c], j, owed[j])
  <2>1. asked[c] \in ItemOps
    BY <1>2 DEF SessionInv, ReadRight, ItemOps
  <2> QED
    BY <1>2, <2>1 DEF SessionInv, ReadRight, WillShow
<1>5. /\ rest \in Seq(Lines) /\ \A j \in Items \ {i} : Shows(rest, j, owed[j])
  <2>1. rest \in Seq(Lines)
    BY <1>4, LinesAt
  <2>2. ASSUME NEW j \in Items \ {i} PROVE Shows(rest, j, owed[j])
    BY <1>4, WithoutItem
  <2> QED
    BY <2>1, <2>2
<1> HIDE DEF rest, i
<1>6. owed' \in [Items -> SUBSET StoreCalls] /\ \A j \in Items : owed'[j] \subseteq owed[j]
  BY <1>1, <1>3
<1>7. messages' \in Seq(Lines) /\ \A j \in Items : ShowsLast(messages', j, owed'[j])
  <2>1. CASE messages' = rest /\ owed' = [owed EXCEPT ![i] = {}]
    <3>1. ASSUME NEW j \in Items \ {i} PROVE ShowsLast(messages', j, owed'[j])
      <4>1. owed'[j] = owed[j]
        BY <1>1, <2>1
      <4> QED
        BY <1>5, <2>1, <4>1, ShowsAll
    <3>2. owed'[i] = {}
      BY <1>1, <1>4, <2>1
    <3> QED
      BY <1>5, <2>1, <3>1, <3>2 DEF ShowsLast
  <2>2. CASE messages' = messages /\ owed' = owed
    BY <1>1, <2>2 DEF SessionInv
  <2> QED
    BY <1>3, <2>1, <2>2
<1>8. SessionTypeOK'
  <2>1. seen' \in [StoreCalls -> Seq(Lines) \cup Seq(EventLines)]
    BY <1>1, <1>2, EmptySeq DEF SessionTypeOK
  <2> QED
    BY <1>1, <1>2, <1>6, <1>7, <2>1 DEF SessionTypeOK, MoveTo
<1>9. ASSUME NEW d \in StoreCalls PROVE ReadRight(d)' /\ WillShow(d)'
  <2>1. progress'[c] = "done" /\ (d # c => progress'[d] = progress[d] /\ seen'[d] = seen[d])
    BY <1>1, <1>2 DEF SessionTypeOK, MoveTo
  <2>2. CASE d = c
    BY <2>1, <2>2, CallIdle
  <2>3. CASE d # c
    <3>1. Patching(d) => item[d] \in Items
      BY DEF SessionInv, ReadRight, Patching, ItemOps
    <3> QED
      BY <1>2, <1>6, <2>1, <2>3, <3>1, CallKeeps DEF SessionInv
  <2> QED
    BY <2>2, <2>3
<1> QED
  BY <1>2, <1>7, <1>8, <1>9 DEF SessionInv

LEMMA CrashStep == ASSUME SessionInv, Crash \/ TimePasses PROVE SessionInv'
<1>1. SessionTypeOK /\ events \in Seq(EventLines)
  BY DEF SessionInv, SessionTypeOK
<1>2. CASE Crash
  <2>1. /\ progress' = [c \in StoreCalls |-> IF progress[c] = "idle" THEN "idle" ELSE "done"]
        /\ UNCHANGED <<asked, item, seen, messages, events, now, owed, owedEvents, recorded, met>>
        /\ failures' \in Nat
    BY <1>1, <1>2 DEF Crash, sessionHistory, SessionTypeOK
  <2>2. torn' \in SUBSET {"messages", "events"}
    BY <1>1, <1>2 DEF Crash, SessionTypeOK, File
  <2>3. spent' \in Nat
    <3> DEFINE usage == {k \in DOMAIN events : IsUsage(events[k])}
    <3>1. spent' = IF usage = {} THEN 0 ELSE events[LastOf(usage)].total
      BY <1>2 DEF Crash
    <3>2. usage \in SUBSET (1..Len(events)) /\ Len(events) \in Nat
      BY <1>1
    <3> HIDE DEF usage
    <3>3. CASE usage # {}
      <4>1. LastOf(usage) \in 1..Len(events)
        BY <3>2, <3>3, LastOfPlaces
      <4>2. events[LastOf(usage)] \in EventLines
        BY <1>1, <4>1, ElementOfSeq
      <4> QED
        BY <3>1, <3>3, <4>2 DEF EventLines
    <3> QED
      BY <3>1, <3>3
  <2>4. SessionTypeOK'
    BY <1>1, <2>1, <2>2, <2>3 DEF SessionTypeOK
  <2>5. ASSUME NEW d \in StoreCalls PROVE ReadRight(d)' /\ WillShow(d)'
    <3>1. progress'[d] \in {"idle", "done"}
      BY <2>1
    <3> QED
      BY <3>1, CallIdle
  <2> QED
    BY <2>1, <2>4, <2>5, FilesStay
<1>3. CASE TimePasses
  <2>1. /\ UNCHANGED <<progress, asked, item, seen, messages, events, torn, spent, owed, owedEvents,
                       recorded, met, failures>>
        /\ now' \in Nat
    BY <1>1, <1>3 DEF TimePasses, files, sessionHistory, SessionTypeOK
  <2>2. SessionTypeOK'
    BY <1>1, <2>1 DEF SessionTypeOK
  <2>3. ASSUME NEW d \in StoreCalls PROVE ReadRight(d)' /\ WillShow(d)'
    BY <2>1, CallKeeps DEF SessionInv
  <2> QED
    BY <2>1, <2>2, <2>3, FilesStay
<1> QED
  BY <1>2, <1>3

LEMMA SessionInvStep == SessionInv /\ [SessionNext]_sessionVars => SessionInv'
<1> SUFFICES ASSUME SessionInv, [SessionNext]_sessionVars PROVE SessionInv'
  OBVIOUS
<1>1. CASE UNCHANGED sessionVars
  <2>1. UNCHANGED <<progress, asked, item, seen, messages, events, torn, now, spent, owed, owedEvents,
                    recorded, met, failures>>
    BY <1>1 DEF sessionVars, files, sessionHistory
  <2>2. SessionTypeOK'
    BY <2>1 DEF SessionInv, SessionTypeOK
  <2>3. ASSUME NEW d \in StoreCalls PROVE ReadRight(d)' /\ WillShow(d)'
    BY <2>1, CallKeeps DEF SessionInv
  <2> QED
    BY <2>1, <2>2, <2>3, FilesStay
<1>2. ASSUME NEW c \in StoreCalls, Land(c) PROVE SessionInv'
  BY <1>2, LandItemStep, LandEventStep DEF Land
<1> QED
  BY <1>1, <1>2, AskStep, ReadStep, NothingLandsStep, LookStep, ReplaceStep, RewriteStep, CrashStep
     DEF SessionNext

\* The files of a session, and what calls have read of them, keep their types.
THEOREM SessionTypeCorrect == SessionSpec => []SessionTypeOK
<1>1. SessionInv => SessionTypeOK
  BY DEF SessionInv
<1> QED
  BY <1>1, SessionInvInit, SessionInvStep, PTL DEF SessionSpec

\* For any calls, items and models, and any failed writes, crashes and compactions:
\* what a call was told was written is found in the file, with the exceptions that
\* NothingOwedIsLost names.
THEOREM OwedIsFound == SessionSpec => []NothingOwedIsLost
<1>1. SessionInv => NothingOwedIsLost
  <2> SUFFICES ASSUME SessionInv PROVE NothingOwedIsLost
    OBVIOUS
  <2>1. messages \in Seq(Lines)
    BY DEF SessionInv, SessionTypeOK
  <2>2. ASSUME NEW i \in Items, owed[i] # {}
        PROVE  ItemIn(messages, i) # Missing /\ owed[i] \subseteq ItemIn(messages, i).has
    <3>1. PICK k \in DOMAIN messages : /\ messages[k].id = i /\ owed[i] \subseteq messages[k].has
                                       /\ \A j \in DOMAIN messages : messages[j].id = i => j <= k
      BY <2>2 DEF SessionInv, ShowsLast
    <3>2. ItemIn(messages, i) = messages[k] /\ messages[k] \in Lines
      BY <2>1, <3>1, ItemLast, ElementOfSeq
    <3> QED
      BY <3>1, <3>2, SessionAssumption
  <2>3. owedEvents \subseteq {events[k].by : k \in DOMAIN events}
    BY DEF SessionInv, Records
  <2> QED
    BY <2>2, <2>3 DEF NothingOwedIsLost
<1> QED
  BY <1>1, SessionInvInit, SessionInvStep, PTL DEF SessionSpec

-----------------------------------------------------------------------------
(* SessionStore: the usage that its lines show.                            *)

UsagePlaces(lines) == {k \in DOMAIN lines : IsUsage(lines[k])}

\* The total of the last usage event before a time, among the first n lines.
Level(lines, n, time) ==
  LET before == {k \in UsagePlaces(lines) : k <= n /\ lines[k].time < time}
  IN  IF before = {} THEN 0 ELSE lines[LastOf(before)].total

\* Later usage events have later times and greater totals.
Grown(lines) ==
  \A j, k \in UsagePlaces(lines) : j < k => lines[j].time <= lines[k].time /\ lines[j].total <= lines[k].total

LEMMA LineTyped ==
  ASSUME NEW lines \in Seq(EventLines), NEW k \in DOMAIN lines
  PROVE  /\ lines[k] \in EventLines /\ lines[k].time \in Nat /\ lines[k].total \in Nat
         /\ k \in Nat /\ k >= 1 /\ k <= Len(lines) /\ Len(lines) \in Nat
<1>1. DOMAIN lines = 1..Len(lines) /\ Len(lines) \in Nat
  BY LenProperties
<1>2. lines[k] \in EventLines
  BY <1>1, ElementOfSeq
<1>3. lines[k].time \in Nat /\ lines[k].total \in Nat
  BY <1>2 DEF EventLines
<1> QED
  BY <1>1, <1>2, <1>3

LEMMA LevelIs ==
  ASSUME NEW lines \in Seq(EventLines), NEW n \in Nat, NEW time,
         NEW k \in UsagePlaces(lines), k <= n, lines[k].time < time,
         \A j \in UsagePlaces(lines) : j <= n /\ lines[j].time < time => j <= k
  PROVE  Level(lines, n, time) = lines[k].total
<1> DEFINE before == {j \in UsagePlaces(lines) : j <= n /\ lines[j].time < time}
<1>1. before \in SUBSET (1..Len(lines)) /\ k \in before /\ Len(lines) \in Nat
  BY LenProperties DEF UsagePlaces
<1>2. \A j \in before : j <= k
  OBVIOUS
<1>3. Level(lines, n, time) = IF before = {} THEN 0 ELSE lines[LastOf(before)].total
  BY DEF Level
<1> HIDE DEF before
<1>4. LastOf(before) \in before /\ k <= LastOf(before)
  BY <1>1, LastOfPlaces
<1>5. LastOf(before) = k
  <2>1. LastOf(before) <= k
    BY <1>2, <1>4
  <2>2. k \in 1..Len(lines) /\ LastOf(before) \in 1..Len(lines)
    BY <1>1, <1>4
  <2> QED
    BY <1>1, <1>4, <2>1, <2>2
<1> QED
  BY <1>1, <1>3, <1>5

LEMMA LevelNone ==
  ASSUME NEW lines, NEW n, NEW time,
         \A j \in UsagePlaces(lines) : j <= n => ~(lines[j].time < time)
  PROVE  Level(lines, n, time) = 0
  BY DEF Level

\* The level is 0, or that of a line.
LEMMA LevelThere ==
  ASSUME NEW lines \in Seq(EventLines), NEW n \in Nat, NEW time,
         NEW i \in UsagePlaces(lines), i <= n, lines[i].time < time
  PROVE  \E k \in UsagePlaces(lines) :
           /\ k <= n /\ lines[k].time < time /\ Level(lines, n, time) = lines[k].total
           /\ \A j \in UsagePlaces(lines) : j <= n /\ lines[j].time < time => j <= k
<1> DEFINE before == {j \in UsagePlaces(lines) : j <= n /\ lines[j].time < time}
<1>1. before \in SUBSET (1..Len(lines)) /\ i \in before /\ Len(lines) \in Nat
  BY LenProperties DEF UsagePlaces
<1>2. PICK k \in before : \A j \in before : j <= k
  <2> HIDE DEF before
  <2>1. LastOf(before) \in before /\ \A j \in before : j <= LastOf(before)
    BY <1>1, LastOfPlaces
  <2> QED
    BY <2>1
<1>3. Level(lines, n, time) = lines[k].total
  BY <1>2, LevelIs
<1> QED
  BY <1>2, <1>3

LEMMA LevelNatural ==
  ASSUME NEW lines \in Seq(EventLines), NEW n \in Nat, NEW time
  PROVE  Level(lines, n, time) \in Nat
<1>1. CASE \E i \in UsagePlaces(lines) : i <= n /\ lines[i].time < time
  <2>1. PICK i \in UsagePlaces(lines) : i <= n /\ lines[i].time < time
    BY <1>1
  <2>2. \E k \in UsagePlaces(lines) :
          /\ k <= n /\ lines[k].time < time /\ Level(lines, n, time) = lines[k].total
          /\ \A j \in UsagePlaces(lines) : j <= n /\ lines[j].time < time => j <= k
    BY <2>1, LevelThere
  <2>3. PICK k \in UsagePlaces(lines) : Level(lines, n, time) = lines[k].total
    BY <2>2
  <2> QED
    BY <2>3, LineTyped DEF UsagePlaces
<1>2. CASE ~\E i \in UsagePlaces(lines) : i <= n /\ lines[i].time < time
  BY <1>2, LevelNone
<1> QED
  BY <1>1, <1>2

\* One line more.
LEMMA LevelStep ==
  ASSUME NEW lines \in Seq(EventLines), NEW n \in DOMAIN lines, NEW time
  PROVE  Level(lines, n, time) = IF IsUsage(lines[n]) /\ lines[n].time < time
                                 THEN lines[n].total ELSE Level(lines, n - 1, time)
<1>1. n \in Nat /\ n - 1 \in Nat
  BY LineTyped
<1>2. \A j \in UsagePlaces(lines) : j \in Nat
  BY LineTyped DEF UsagePlaces
<1>3. CASE IsUsage(lines[n]) /\ lines[n].time < time
  <2>1. n \in UsagePlaces(lines)
    BY <1>3 DEF UsagePlaces
  <2>2. Level(lines, n, time) = lines[n].total
    BY <1>1, <1>3, <2>1, LevelIs
  <2> QED
    BY <1>3, <2>2
<1>4. CASE ~(IsUsage(lines[n]) /\ lines[n].time < time)
  <2>1. \A j \in UsagePlaces(lines) : lines[j].time < time => (j <= n <=> j <= n - 1)
    BY <1>1, <1>2, <1>4 DEF UsagePlaces
  <2>2. {j \in UsagePlaces(lines) : j <= n /\ lines[j].time < time}
          = {j \in UsagePlaces(lines) : j <= n - 1 /\ lines[j].time < time}
    BY <2>1
  <2> QED
    BY <1>4, <2>2 DEF Level
<1> QED
  BY <1>3, <1>4

\* What DayTotal has counted after one more line.
CountedWith(previous, line, day) ==
  IF ~IsUsage(line) THEN previous
  ELSE LET more == IF line.total > previous.latest THEN line.total - previous.latest ELSE 0
       IN  [latest |-> line.total,
            tokens |-> previous.tokens + (IF line.time \div 2 = day THEN more ELSE 0)]

Counts(f, n, lines, day) ==
  f = [k \in 0..n |-> IF k = 0 THEN [latest |-> 0, tokens |-> 0] ELSE CountedWith(f[k - 1], lines[k], day)]

\* By induction on the number of lines.
LEMMA CountsExists ==
  ASSUME NEW lines, NEW day PROVE \A n \in Nat : \E f : Counts(f, n, lines, day)
<1> DEFINE Has(n) == \E f : Counts(f, n, lines, day)
           failing == {n \in Nat : ~Has(n)}
           none == [latest |-> 0, tokens |-> 0]
<1> SUFFICES ASSUME failing # {} PROVE FALSE
  OBVIOUS
<1>1. PICK n \in failing : \A m \in failing : n <= m
  <2>1. failing \in SUBSET Nat
    OBVIOUS
  <2> HIDE DEF failing
  <2> QED
    BY <2>1, LeastNatural
<1>2. n \in Nat /\ ~Has(n)
  BY <1>1
<1> HIDE DEF none
<1>3. CASE n = 0
  <2> DEFINE f == [k \in 0..n |-> none]
  <2>1. Counts(f, n, lines, day)
    BY <1>3 DEF Counts, none
  <2> QED
    BY <1>2, <2>1
<1>4. CASE n # 0
  <2>1. n - 1 \in Nat /\ n - 1 < n
    BY <1>2, <1>4
  <2>2. Has(n - 1)
    <3>1. n - 1 \notin failing
      <4> HIDE DEF failing
      <4> QED
        BY <1>1, <1>2, <2>1
    <3> QED
      BY <2>1, <3>1
  <2>3. PICK g : Counts(g, n - 1, lines, day)
    BY <2>2
  <2> DEFINE f == [k \in 0..n |-> IF k = n THEN CountedWith(g[n - 1], lines[n], day) ELSE g[k]]
  <2>4. \A k \in 0..(n - 1) : g[k] = IF k = 0 THEN none ELSE CountedWith(g[k - 1], lines[k], day)
    <3>1. g = [k \in 0..(n - 1) |-> IF k = 0 THEN none ELSE CountedWith(g[k - 1], lines[k], day)]
      BY <2>3 DEF Counts, none
    <3> QED
      BY <3>1
  <2>5. \A k \in 0..n : k # n => f[k] = IF k = 0 THEN none ELSE CountedWith(g[k - 1], lines[k], day)
    <3>1. \A k \in 0..n : k # n => k \in 0..(n - 1)
      BY <1>2, <2>1
    <3> QED
      BY <2>4, <3>1
  <2>6. \A k \in 0..n : k # 0 => f[k - 1] = g[k - 1]
    BY <1>2, <2>1
  <2>7. \A k \in 0..n : f[k] = IF k = 0 THEN none ELSE CountedWith(f[k - 1], lines[k], day)
    BY <1>2, <1>4, <2>1, <2>5, <2>6
  <2>8. f = [k \in 0..n |-> f[k]]
    OBVIOUS
  <2> HIDE DEF f
  <2>9. f = [k \in 0..n |-> IF k = 0 THEN none ELSE CountedWith(f[k - 1], lines[k], day)]
    BY <2>7, <2>8
  <2>10. Counts(f, n, lines, day)
    BY <2>9 DEF Counts, none
  <2> QED
    BY <1>2, <2>10
<1> QED
  BY <1>3, <1>4

\* The usage of a day is what the level grows by from its start to its end.
LEMMA DayIsGrowth ==
  ASSUME NEW lines \in Seq(EventLines), Grown(lines), NEW day \in Nat
  PROVE  /\ Level(lines, Len(lines), 2 * day) \in Nat
         /\ DayTotal(lines, day) = Level(lines, Len(lines), 2 * day + 2) - Level(lines, Len(lines), 2 * day)
<1> DEFINE n == Len(lines)
           counted == CHOOSE f : f = [k \in 0..n |->
             IF k = 0 THEN [latest |-> 0, tokens |-> 0]
             ELSE IF ~IsUsage(lines[k]) THEN f[k - 1]
             ELSE LET previous == f[k - 1]
                      more == IF lines[k].total > previous.latest THEN lines[k].total - previous.latest ELSE 0
                  IN  [latest |-> lines[k].total,
                       tokens |-> previous.tokens + (IF lines[k].time \div 2 = day THEN more ELSE 0)]]
           First(k) == Level(lines, k, 2 * day)
           Last(k) == Level(lines, k, 2 * day + 2)
           Right(k) == /\ counted[k].tokens = Last(k) - First(k)
                       /\ \A time \in Nat : (\A j \in UsagePlaces(lines) : j <= k => lines[j].time < time)
                                    => counted[k].latest = Level(lines, k, time)
           failing == {k \in 0..n : ~Right(k)}
<1>1. n \in Nat /\ DOMAIN lines = 1..n
  OBVIOUS
<1>2. DayTotal(lines, day) = counted[n].tokens
  BY DEF DayTotal
<1> HIDE DEF n
<1>3. Counts(counted, n, lines, day)
  <2>1. \E f : Counts(f, n, lines, day)
    BY <1>1, CountsExists
  <2> QED
    BY <2>1, Zenon DEF Counts, CountedWith
<1> HIDE DEF counted
<1>4. /\ counted[0] = [latest |-> 0, tokens |-> 0]
      /\ \A k \in 1..n : counted[k] = CountedWith(counted[k - 1], lines[k], day)
  <2>1. counted = [k \in 0..n |-> IF k = 0 THEN [latest |-> 0, tokens |-> 0]
                                  ELSE CountedWith(counted[k - 1], lines[k], day)]
    BY <1>3 DEF Counts
  <2>2. \A k \in 0..n : counted[k] = IF k = 0 THEN [latest |-> 0, tokens |-> 0]
                                     ELSE CountedWith(counted[k - 1], lines[k], day)
    BY <2>1
  <2>3. 0 \in 0..n /\ \A k \in 1..n : k \in 0..n /\ k # 0
    BY <1>1
  <2> QED
    BY <2>2, <2>3
<1>5. /\ \A k \in Nat : \A time : Level(lines, k, time) \in Nat
      /\ 2 * day \in Nat /\ 2 * day + 2 \in Nat
  BY LevelNatural
<1>6. ASSUME NEW k \in 1..n, Right(k - 1) PROVE Right(k)
  <2>1. k \in DOMAIN lines /\ k \in Nat /\ k - 1 \in Nat
    BY <1>1
  <2>2. lines[k].time \in Nat /\ lines[k].total \in Nat
    BY <2>1, LineTyped
  <2>3. \A time : Level(lines, k, time) = IF IsUsage(lines[k]) /\ lines[k].time < time
                                          THEN lines[k].total ELSE Level(lines, k - 1, time)
    BY <2>1, LevelStep
  <2>4. \A j \in UsagePlaces(lines) : j \in Nat
    BY LineTyped DEF UsagePlaces
  <2>5. counted[k] = CountedWith(counted[k - 1], lines[k], day)
    BY <1>4
  <2>6. CASE ~IsUsage(lines[k])
    <3>1. counted[k] = counted[k - 1]
      BY <2>5, <2>6 DEF CountedWith
    <3>2. \A time : Level(lines, k, time) = Level(lines, k - 1, time)
      BY <2>3, <2>6
    <3>3. \A j \in UsagePlaces(lines) : j <= k - 1 => j <= k
      BY <2>1, <2>4
    <3> QED
      BY <1>6, <3>1, <3>2, <3>3
  <2>7. CASE IsUsage(lines[k])
    <3> DEFINE time == lines[k].time
               total == lines[k].total
               latest == counted[k - 1].latest
               more == IF total > latest THEN total - latest ELSE 0
    <3>1. k \in UsagePlaces(lines)
      BY <2>1, <2>7 DEF UsagePlaces
    <3>2. \A j \in UsagePlaces(lines) : j <= k - 1 => j < k /\ lines[j].time \in Nat /\ lines[j].time <= time
                                                       /\ lines[j].total <= total
      <4>1. \A j \in UsagePlaces(lines) : j <= k - 1 => j < k
        BY <2>1, <2>4
      <4>2. \A j \in UsagePlaces(lines) : lines[j].time \in Nat
        BY LineTyped DEF UsagePlaces
      <4> QED
        BY <3>1, <4>1, <4>2 DEF Grown
    <3>3. \A u \in Nat : time < u => latest = Level(lines, k - 1, u)
      <4>1. \A u \in Nat : time < u => \A j \in UsagePlaces(lines) : j <= k - 1 => lines[j].time < u
        BY <2>2, <3>2
      <4> QED
        BY <1>6, <4>1
    <3>4. latest \in Nat /\ latest <= total
      <4>1. time + 1 \in Nat /\ time < time + 1
        BY <2>2
      <4>2. latest = Level(lines, k - 1, time + 1)
        BY <3>3, <4>1
      <4>3. CASE \E i \in UsagePlaces(lines) : i <= k - 1 /\ lines[i].time < time + 1
        <5>1. PICK j \in UsagePlaces(lines) : j <= k - 1 /\ Level(lines, k - 1, time + 1) = lines[j].total
          BY <2>1, <4>3, LevelThere
        <5> QED
          BY <1>5, <2>1, <3>2, <4>2, <5>1
      <4>4. CASE ~\E i \in UsagePlaces(lines) : i <= k - 1 /\ lines[i].time < time + 1
        BY <2>2, <4>2, <4>4, LevelNone
      <4> QED
        BY <4>3, <4>4
    <3>5. /\ counted[k].latest = total
          /\ counted[k].tokens = counted[k - 1].tokens + (IF time \div 2 = day THEN more ELSE 0)
      BY <2>5, <2>7 DEF CountedWith
    <3>6. more = total - latest
      BY <2>2, <3>4
    <3>7. \A u \in Nat : (\A j \in UsagePlaces(lines) : j <= k => lines[j].time < u)
                 => counted[k].latest = Level(lines, k, u)
      BY <2>1, <2>3, <2>7, <3>1, <3>5
    <3>8. counted[k - 1].tokens = Last(k - 1) - First(k - 1)
      BY <1>6
    <3>9. /\ First(k - 1) \in Nat /\ Last(k - 1) \in Nat
          /\ First(k) = IF time < 2 * day THEN total ELSE First(k - 1)
          /\ Last(k) = IF time < 2 * day + 2 THEN total ELSE Last(k - 1)
          /\ time < 2 * day => latest = First(k - 1)
          /\ time < 2 * day + 2 => latest = Last(k - 1)
      BY <1>5, <2>1, <2>3, <2>7, <3>3
    <3>10. time \div 2 = day <=> time < 2 * day + 2 /\ ~(time < 2 * day)
      BY <2>2
    <3> HIDE DEF time, total, latest, more, First, Last
    <3>11. counted[k].tokens = Last(k) - First(k)
      <4>1. time \in Nat /\ total \in Nat
        BY <2>2 DEF time, total
      <4>2. CASE time < 2 * day
        <5>1. time < 2 * day + 2
          BY <4>1, <4>2
        <5>2. First(k) = total /\ Last(k) = total /\ First(k - 1) = Last(k - 1) /\ time \div 2 # day
          BY <3>9, <3>10, <4>2, <5>1
        <5>3. counted[k].tokens = counted[k - 1].tokens + 0
          BY <3>5, <5>2
        <5> QED
          BY <3>8, <3>9, <4>1, <5>2, <5>3
      <4>3. CASE time < 2 * day + 2 /\ ~(time < 2 * day)
        <5>1. First(k) = First(k - 1) /\ Last(k) = total /\ latest = Last(k - 1) /\ time \div 2 = day
          BY <3>9, <3>10, <4>3
        <5>2. counted[k].tokens = counted[k - 1].tokens + (total - latest)
          BY <3>5, <3>6, <5>1
        <5> QED
          BY <3>8, <3>9, <4>1, <5>1, <5>2
      <4>4. CASE ~(time < 2 * day + 2)
        <5>1. ~(time < 2 * day)
          BY <4>1, <4>4
        <5>2. First(k) = First(k - 1) /\ Last(k) = Last(k - 1) /\ time \div 2 # day
          BY <3>9, <3>10, <4>4, <5>1
        <5>3. counted[k].tokens = counted[k - 1].tokens + 0
          BY <3>5, <5>2
        <5> QED
          BY <3>8, <3>9, <5>2, <5>3
      <4> QED
        BY <4>2, <4>3, <4>4
    <3> QED
      BY <3>7, <3>11
  <2> QED
    BY <2>6, <2>7
<1>7. Right(0)
  <2>1. \A j \in UsagePlaces(lines) : ~(j <= 0)
    BY LineTyped DEF UsagePlaces
  <2>2. \A time : Level(lines, 0, time) = 0
    BY <2>1, LevelNone
  <2>3. counted[0].latest = 0 /\ counted[0].tokens = 0
    BY <1>4
  <2> QED
    BY <2>2, <2>3
<1> HIDE DEF Right
<1>8. failing = {}
  <2> SUFFICES ASSUME failing # {} PROVE FALSE
    OBVIOUS
  <2>1. PICK k \in failing : \A m \in failing : k <= m
    <3>1. failing \in SUBSET Nat
      BY <1>1
    <3> HIDE DEF failing
    <3> QED
      BY <3>1, LeastNatural
  <2>2. k \in 0..n /\ ~Right(k)
    BY <2>1
  <2>3. k # 0
    BY <1>7, <2>2
  <2>4. k \in 1..n /\ k - 1 \in 0..n /\ k - 1 < k
    BY <1>1, <2>2, <2>3
  <2>5. k - 1 \notin failing
    <3>1. k \in Nat /\ k - 1 \in Nat
      BY <2>4
    <3> HIDE DEF failing
    <3> QED
      BY <2>1, <2>4, <3>1
  <2> QED
    BY <1>6, <2>2, <2>4, <2>5
<1>9. Right(n)
  BY <1>1, <1>8
<1> HIDE DEF failing
<1> QED
  BY <1>1, <1>2, <1>5, <1>9 DEF n, Right

LEMMA LastIs ==
  ASSUME NEW n \in Nat, NEW T \in SUBSET (1..n), NEW k \in T, \A j \in T : j <= k
  PROVE  LastOf(T) = k
<1>1. LastOf(T) \in T /\ k <= LastOf(T)
  BY LastOfPlaces
<1>2. LastOf(T) <= k /\ LastOf(T) \in 1..n /\ k \in 1..n
  BY <1>1
<1> QED
  BY <1>1, <1>2

LEMMA SameDay ==
  ASSUME NEW a \in Nat, NEW b \in Nat, NEW day \in Nat, a \div 2 = b \div 2, b < 2 * day
  PROVE  a < 2 * day
  OBVIOUS

\* Compaction keeps the order of the events, and the level at the start of each day from
\* the cutoff on: the event it is taken from is the last of its day and model, or the last
\* before the cutoff.
LEMMA CompactLevels ==
  ASSUME NEW lines \in Seq(EventLines), Grown(lines), NEW cutoff \in Nat, NEW new, new = Compact(lines, cutoff)
  PROVE  /\ new \in Seq(EventLines) /\ Grown(new)
         /\ \A j \in UsagePlaces(new) : \E k \in UsagePlaces(lines) : new[j] = lines[k]
         /\ \A day \in Nat : cutoff <= 2 * day =>
              Level(new, Len(new), 2 * day) = Level(lines, Len(lines), 2 * day)
<1> DEFINE usage    == UsagePlaces(lines)
           before   == {i \in usage : lines[i].time < cutoff}
           baseline == IF before = {} THEN {} ELSE {LastOf(before)}
           retained == {i \in usage : lines[i].time >= cutoff \/ i = LastOf(usage)} \cup baseline
           last     == {i \in retained : \A j \in retained : Bucket(lines[j]) = Bucket(lines[i]) => j <= i}
           places   == (DOMAIN lines \ usage) \cup (baseline \cup last)
<1>1. new = At(lines, places)
  <2>1. (DOMAIN lines \ usage) \cup baseline \cup last = places
    <3> HIDE DEF usage, baseline, last
    <3> QED
      OBVIOUS
  <2>2. Compact(lines, cutoff) = At(lines, (DOMAIN lines \ usage) \cup baseline \cup last)
    BY DEF Compact, UsagePlaces
  <2> HIDE DEF usage, baseline, last
  <2> QED
    BY <2>1, <2>2
<1>2. ASSUME NEW day \in Nat, cutoff <= 2 * day, NEW k \in UsagePlaces(lines), lines[k].time < 2 * day,
             \A j \in UsagePlaces(lines) : lines[j].time < 2 * day => j <= k
      PROVE  k \in places
  <2>2. /\ usage \in SUBSET (1..Len(lines)) /\ Len(lines) \in Nat
        /\ \A i \in usage : lines[i].time \in Nat
    BY LineTyped, LenProperties DEF UsagePlaces
  <2>3. before \in SUBSET (1..Len(lines)) /\ \A i \in before : i \in usage /\ lines[i].time < cutoff
    BY <2>2
  <2>4. baseline \in SUBSET usage
    <3>1. before # {} => LastOf(before) \in before
      <4> HIDE DEF before
      <4> QED
        BY <2>2, <2>3, LastOfPlaces
    <3> QED
      BY <3>1
  <2>5. CASE lines[k].time < cutoff
    <3>1. k \in before
      BY <2>5
    <3>2. \A j \in before : j <= k
      BY <1>2, <2>2, <2>3
    <3>3. LastOf(before) = k
      <4> HIDE DEF before
      <4> QED
        BY <2>2, <2>3, <3>1, <3>2, LastIs
    <3>4. k \in baseline
      BY <3>1, <3>3
    <3> QED
      BY <3>4
  <2>6. CASE ~(lines[k].time < cutoff)
    <3>1. k \in retained
      BY <2>2, <2>6
    <3>2. retained \in SUBSET usage
      BY <2>4
    <3> HIDE DEF retained
    <3>3. ASSUME NEW j \in retained, Bucket(lines[j]) = Bucket(lines[k]) PROVE j <= k
      <4>1. lines[j].time \div 2 = lines[k].time \div 2
        BY <3>3 DEF Bucket
      <4>2. lines[j].time \in Nat /\ lines[k].time \in Nat
        BY <2>2, <3>2
      <4>3. lines[j].time < 2 * day
        BY <1>2, <4>1, <4>2, SameDay
      <4> QED
        BY <1>2, <3>2, <4>3
    <3>4. k \in last
      BY <3>1, <3>3
    <3> QED
      BY <3>4
  <2> QED
    BY <2>5, <2>6
<1> HIDE DEF places
<1>3. new \in Seq(EventLines) /\ Drawn(new, lines, places, Len(lines))
  BY <1>1, AtInOrder
<1>4. DOMAIN lines = 1..Len(lines) /\ Len(lines) \in Nat /\ DOMAIN new = 1..Len(new) /\ Len(new) \in Nat
  BY <1>3, LenProperties
<1>5. PICK from \in [DOMAIN new -> DOMAIN lines \cap places] :
             /\ \A j \in DOMAIN new : new[j] = lines[from[j]]
             /\ \A i, j \in DOMAIN new : i < j => from[i] < from[j]
             /\ \A k \in DOMAIN lines \cap places : \E j \in DOMAIN new : from[j] = k
  BY <1>3, <1>4 DEF Drawn
<1>6. \A j \in UsagePlaces(new) : /\ j \in DOMAIN new /\ from[j] \in UsagePlaces(lines)
                                  /\ new[j] = lines[from[j]]
  BY <1>5 DEF UsagePlaces
<1>7. Grown(new)
  BY <1>5, <1>6 DEF Grown
<1>8. ASSUME NEW day \in Nat, cutoff <= 2 * day, NEW start, start = 2 * day
      PROVE  Level(new, Len(new), start) = Level(lines, Len(lines), start)
  <2>1. \A i \in UsagePlaces(lines) : i <= Len(lines)
    BY <1>4 DEF UsagePlaces
  <2>2. \A j \in UsagePlaces(new) : j <= Len(new) /\ j \in Nat
    BY <1>4 DEF UsagePlaces
  <2>3. CASE \E i \in UsagePlaces(lines) : lines[i].time < start
    <3>1. PICK k \in UsagePlaces(lines) :
                 /\ lines[k].time < start /\ Level(lines, Len(lines), start) = lines[k].total
                 /\ \A j \in UsagePlaces(lines) : j <= Len(lines) /\ lines[j].time < start => j <= k
      <4>1. PICK i \in UsagePlaces(lines) : i <= Len(lines) /\ lines[i].time < start
        BY <2>1, <2>3
      <4> QED
        BY <1>4, <4>1, LevelThere
    <3>2. k \in DOMAIN lines \cap places
      <4>1. lines[k].time < 2 * day /\ \A j \in UsagePlaces(lines) : lines[j].time < 2 * day => j <= k
        BY <1>8, <2>1, <3>1
      <4>2. k \in places
        BY <1>2, <1>8, <4>1
      <4> QED
        BY <4>2 DEF UsagePlaces
    <3>3. PICK j \in DOMAIN new : from[j] = k
      BY <1>5, <3>2
    <3>4. new[j] = lines[k] /\ j \in UsagePlaces(new) /\ j \in Nat /\ k \in Nat
      BY <1>4, <1>5, <3>1, <3>3 DEF UsagePlaces
    <3>5. ASSUME NEW m \in UsagePlaces(new), new[m].time < start PROVE m <= j
      <4>1. from[m] <= k /\ from[m] \in Nat
        BY <1>4, <1>6, <2>1, <3>1, <3>5 DEF UsagePlaces
      <4>2. ~(j < m)
        BY <1>5, <1>6, <3>3, <3>4, <4>1
      <4> QED
        BY <2>2, <3>4, <4>2
    <3>6. Level(new, Len(new), start) = new[j].total
      <4>1. j <= Len(new) /\ new[j].time < start
        BY <2>2, <3>1, <3>4
      <4>2. \A m \in UsagePlaces(new) : m <= Len(new) /\ new[m].time < start => m <= j
        BY <3>5
      <4>3. new \in Seq(EventLines) /\ Len(new) \in Nat
        BY <1>3, <1>4
      <4>4. j \in UsagePlaces(new)
        BY <3>4
      <4> QED
        BY ONLY <4>1, <4>2, <4>3, <4>4, LevelIs
    <3> QED
      BY <3>1, <3>4, <3>6
  <2>4. CASE ~\E i \in UsagePlaces(lines) : lines[i].time < start
    <3>1. Level(lines, Len(lines), start) = 0
      BY <2>4, LevelNone
    <3>2. \A j \in UsagePlaces(new) : ~(new[j].time < start)
      BY <1>6, <2>4
    <3>3. Level(new, Len(new), start) = 0
      BY <3>2, LevelNone
    <3> QED
      BY <3>1, <3>3
  <2> QED
    BY <2>3, <2>4
<1> QED
  BY <1>3, <1>6, <1>7, <1>8

\* A line at the end.
EndsWith(new, lines, e) == new = Append(lines, e)

LEMMA LevelAppended ==
  ASSUME NEW lines \in Seq(EventLines), NEW e \in EventLines, NEW new, EndsWith(new, lines, e)
  PROVE  /\ new \in Seq(EventLines)
         /\ \A k \in UsagePlaces(new) : \/ k \in UsagePlaces(lines) /\ new[k] = lines[k]
                                        \/ k = Len(new) /\ new[k] = e /\ IsUsage(e)
         /\ \A k \in UsagePlaces(lines) : k < Len(new)
         /\ \A time : Level(new, Len(new), time) = IF IsUsage(e) /\ e.time < time THEN e.total
                                                   ELSE Level(lines, Len(lines), time)
<1>1. /\ new \in Seq(EventLines) /\ Len(new) = Len(lines) + 1 /\ new[Len(lines) + 1] = e
      /\ \A j \in 1..Len(lines) : new[j] = lines[j]
  BY AppendProperties DEF EndsWith
<1>2. DOMAIN lines = 1..Len(lines) /\ Len(lines) \in Nat /\ DOMAIN new = 1..Len(new)
  BY <1>1, LenProperties
<1>3. Len(new) \in DOMAIN new /\ new[Len(new)] = e /\ Len(new) - 1 = Len(lines)
  BY <1>1, <1>2
<1>4. \A k \in DOMAIN new : k \in DOMAIN lines \/ k = Len(new)
  BY <1>1, <1>2
<1>5. \A k \in DOMAIN lines : k \in DOMAIN new /\ new[k] = lines[k] /\ k < Len(new) /\ k <= Len(lines)
  BY <1>1, <1>2
<1>6. ASSUME NEW time PROVE Level(new, Len(lines), time) = Level(lines, Len(lines), time)
  <2>1. {k \in UsagePlaces(new) : k <= Len(lines) /\ new[k].time < time}
          = {k \in UsagePlaces(lines) : k <= Len(lines) /\ lines[k].time < time}
    <3>1. ~(Len(new) <= Len(lines))
      BY <1>1, <1>2
    <3> QED
      BY <1>4, <1>5, <3>1 DEF UsagePlaces
  <2> DEFINE before == {k \in UsagePlaces(lines) : k <= Len(lines) /\ lines[k].time < time}
  <2>2. before # {} => new[LastOf(before)] = lines[LastOf(before)]
    <3>1. before \in SUBSET (1..Len(lines))
      BY <1>2 DEF UsagePlaces
    <3> HIDE DEF before
    <3>2. before # {} => LastOf(before) \in 1..Len(lines)
      BY <1>2, <3>1, LastOfPlaces
    <3> QED
      BY <1>2, <1>5, <3>2
  <2>3. Level(lines, Len(lines), time) = IF before = {} THEN 0 ELSE lines[LastOf(before)].total
    BY DEF Level
  <2>4. Level(new, Len(lines), time) = IF before = {} THEN 0 ELSE new[LastOf(before)].total
    BY <2>1 DEF Level
  <2> HIDE DEF before
  <2> QED
    BY <2>2, <2>3, <2>4
<1>7. ASSUME NEW time
      PROVE  Level(new, Len(new), time) = IF IsUsage(e) /\ e.time < time THEN e.total
                                          ELSE Level(lines, Len(lines), time)
  BY <1>1, <1>3, <1>6, LevelStep
<1>8. \A k \in UsagePlaces(new) : \/ k \in UsagePlaces(lines) /\ new[k] = lines[k]
                                  \/ k = Len(new) /\ new[k] = e /\ IsUsage(e)
  BY <1>3, <1>4, <1>5 DEF UsagePlaces
<1>9. \A k \in UsagePlaces(lines) : k < Len(new)
  BY <1>5 DEF UsagePlaces
<1> QED
  BY <1>1, <1>7, <1>8, <1>9

CutoffAt(time) == IF time > Retention THEN time - Retention ELSE 0

\* Lines that show, at a time, the same usage as all that was recorded: they are in order,
\* none is of a later time or above the count of tokens, and from the cutoff on no day
\* starts at another level.
AsRecorded(lines, whole, time, tokens) ==
  /\ Grown(lines)
  /\ \A k \in UsagePlaces(lines) : lines[k].time <= time /\ lines[k].total <= tokens
  /\ \A day \in Nat : CutoffAt(time) <= 2 * day =>
       Level(lines, Len(lines), 2 * day) = Level(whole, Len(whole), 2 * day)

LEMMA AsRecordedLater ==
  ASSUME NEW lines \in Seq(EventLines), NEW whole, NEW time \in Nat, NEW later \in Nat, time <= later,
         NEW tokens \in Nat, NEW more \in Nat, tokens <= more, AsRecorded(lines, whole, time, tokens)
  PROVE  AsRecorded(lines, whole, later, more)
<1>1. CutoffAt(time) <= CutoffAt(later) /\ CutoffAt(time) \in Nat /\ CutoffAt(later) \in Nat
  BY SessionAssumption DEF CutoffAt
<1>2. \A k \in UsagePlaces(lines) : lines[k].time <= later /\ lines[k].total <= more
  <2>1. \A k \in UsagePlaces(lines) : lines[k].time \in Nat /\ lines[k].total \in Nat
    BY LineTyped DEF UsagePlaces
  <2> QED
    BY <2>1 DEF AsRecorded
<1>3. \A day \in Nat : CutoffAt(later) <= 2 * day => CutoffAt(time) <= 2 * day
  BY <1>1
<1> QED
  BY <1>2, <1>3 DEF AsRecorded

\* An event that is not of usage.
LEMMA AsRecordedEvent ==
  ASSUME NEW lines \in Seq(EventLines), NEW whole, NEW time, NEW tokens, AsRecorded(lines, whole, time, tokens),
         NEW e \in EventLines, ~IsUsage(e), NEW new, EndsWith(new, lines, e)
  PROVE  AsRecorded(new, whole, time, tokens)
<1>1. /\ \A k \in UsagePlaces(new) : k \in UsagePlaces(lines) /\ new[k] = lines[k]
      /\ \A t : Level(new, Len(new), t) = Level(lines, Len(lines), t)
  BY LevelAppended
<1>2. Grown(new)
  BY <1>1 DEF Grown, AsRecorded
<1>3. \A k \in UsagePlaces(new) : new[k].time <= time /\ new[k].total <= tokens
  BY <1>1 DEF AsRecorded
<1> QED
  BY <1>1, <1>2, <1>3 DEF AsRecorded

\* Usage, recorded as it is written.
LEMMA AsRecordedUsage ==
  ASSUME NEW lines \in Seq(EventLines), NEW whole \in Seq(EventLines), NEW time \in Nat, NEW tokens \in Nat,
         AsRecorded(lines, whole, time, tokens),
         NEW e \in EventLines, IsUsage(e), e.time = time, e.total = tokens + 1,
         NEW new, EndsWith(new, lines, e), NEW more, EndsWith(more, whole, e)
  PROVE  AsRecorded(new, more, time, tokens + 1)
<1>1. /\ \A k \in UsagePlaces(new) : \/ k \in UsagePlaces(lines) /\ new[k] = lines[k]
                                     \/ k = Len(new) /\ new[k] = e
      /\ \A k \in UsagePlaces(lines) : k < Len(new)
      /\ \A t : Level(new, Len(new), t) = IF e.time < t THEN e.total ELSE Level(lines, Len(lines), t)
      /\ new \in Seq(EventLines)
  <2>1. /\ \A k \in UsagePlaces(new) : \/ k \in UsagePlaces(lines) /\ new[k] = lines[k]
                                       \/ k = Len(new) /\ new[k] = e /\ IsUsage(e)
        /\ \A k \in UsagePlaces(lines) : k < Len(new)
        /\ new \in Seq(EventLines)
    BY LevelAppended
  <2>2. \A t : Level(new, Len(new), t) = IF IsUsage(e) /\ e.time < t THEN e.total
                                         ELSE Level(lines, Len(lines), t)
    BY LevelAppended
  <2> QED
    BY <2>1, <2>2
<1>2. \A t : Level(more, Len(more), t) = IF e.time < t THEN e.total ELSE Level(whole, Len(whole), t)
  <2>1. \A t : Level(more, Len(more), t) = IF IsUsage(e) /\ e.time < t THEN e.total
                                           ELSE Level(whole, Len(whole), t)
    BY LevelAppended
  <2> QED
    BY <2>1
<1>3. \A k \in UsagePlaces(lines) : /\ lines[k].time \in Nat /\ lines[k].total \in Nat /\ k \in Nat
                                    /\ lines[k].time <= time /\ lines[k].total <= tokens
  BY LineTyped DEF UsagePlaces, AsRecorded
<1>4. ASSUME NEW j \in UsagePlaces(new), NEW k \in UsagePlaces(new), j < k
      PROVE  new[j].time <= new[k].time /\ new[j].total <= new[k].total
  <2>1. Len(new) \in Nat
    BY <1>1, LenProperties
  <2>2. j \in UsagePlaces(lines) /\ new[j] = lines[j]
    <3>1. CASE k \in UsagePlaces(lines)
      BY <1>1, <1>3, <1>4, <2>1, <3>1
    <3>2. CASE k = Len(new)
      BY <1>1, <1>4, <2>1, <3>2
    <3> QED
      BY <1>1, <3>1, <3>2
  <2>3. CASE k \in UsagePlaces(lines) /\ new[k] = lines[k]
    BY <1>4, <2>2, <2>3 DEF AsRecorded, Grown
  <2>4. CASE new[k] = e
    BY <1>3, <2>2, <2>4
  <2> QED
    BY <1>1, <2>3, <2>4
<1>5. \A k \in UsagePlaces(new) : new[k].time <= time /\ new[k].total <= tokens + 1
  BY <1>1, <1>3
<1>6. \A day \in Nat : CutoffAt(time) <= 2 * day =>
        Level(new, Len(new), 2 * day) = Level(more, Len(more), 2 * day)
  <2>1. ASSUME NEW day \in Nat, CutoffAt(time) <= 2 * day, NEW start, start = 2 * day
        PROVE  Level(new, Len(new), start) = Level(more, Len(more), start)
    <3>1. Level(lines, Len(lines), start) = Level(whole, Len(whole), start)
      BY <2>1 DEF AsRecorded
    <3> QED
      BY <1>1, <1>2, <3>1
  <2> QED
    BY <2>1
<1>7. Grown(new)
  BY <1>4 DEF Grown
<1> QED
  BY <1>5, <1>6, <1>7 DEF AsRecorded

LEMMA AsRecordedCompact ==
  ASSUME NEW lines \in Seq(EventLines), NEW whole, NEW time \in Nat, NEW tokens,
         AsRecorded(lines, whole, time, tokens), NEW new, new = Compact(lines, CutoffAt(time))
  PROVE  AsRecorded(new, whole, time, tokens)
<1>1. CutoffAt(time) \in Nat
  BY SessionAssumption DEF CutoffAt
<1>2. /\ Grown(new)
      /\ \A j \in UsagePlaces(new) : \E k \in UsagePlaces(lines) : new[j] = lines[k]
      /\ \A day \in Nat : CutoffAt(time) <= 2 * day =>
           Level(new, Len(new), 2 * day) = Level(lines, Len(lines), 2 * day)
  BY <1>1, CompactLevels DEF AsRecorded
<1> QED
  BY <1>2 DEF AsRecorded

\* The last total, from which the count goes on after a crash.
LEMMA LevelTops ==
  ASSUME NEW lines \in Seq(EventLines), Grown(lines), NEW time,
         \A k \in UsagePlaces(lines) : lines[k].time < time
  PROVE  /\ \A k \in UsagePlaces(lines) : lines[k].total <= Level(lines, Len(lines), time)
         /\ Level(lines, Len(lines), time) =
              IF UsagePlaces(lines) = {} THEN 0 ELSE lines[LastOf(UsagePlaces(lines))].total
<1>1. Len(lines) \in Nat /\ \A k \in UsagePlaces(lines) : k <= Len(lines) /\ k \in Nat /\ lines[k].total \in Nat
  BY LineTyped, LenProperties DEF UsagePlaces
<1>2. {k \in UsagePlaces(lines) : k <= Len(lines) /\ lines[k].time < time} = UsagePlaces(lines)
  BY <1>1
<1>3. Level(lines, Len(lines), time) =
        IF UsagePlaces(lines) = {} THEN 0 ELSE lines[LastOf(UsagePlaces(lines))].total
  BY <1>2 DEF Level
<1>4. ASSUME NEW k \in UsagePlaces(lines) PROVE lines[k].total <= lines[LastOf(UsagePlaces(lines))].total
  <2>1. UsagePlaces(lines) \in SUBSET (1..Len(lines))
    BY LenProperties DEF UsagePlaces
  <2>2. LastOf(UsagePlaces(lines)) \in UsagePlaces(lines) /\ k <= LastOf(UsagePlaces(lines))
    BY <1>1, <2>1, LastOfPlaces
  <2>3. k = LastOf(UsagePlaces(lines)) \/ k < LastOf(UsagePlaces(lines))
    BY <1>1, <2>2
  <2> QED
    BY <1>1, <2>2, <2>3 DEF Grown
<1> QED
  BY <1>3, <1>4

LEMMA AsRecordedRestart ==
  ASSUME NEW lines \in Seq(EventLines), NEW whole \in Seq(EventLines), NEW time \in Nat, NEW tokens \in Nat,
         AsRecorded(whole, whole, time, tokens), AsRecorded(lines, whole, time, tokens), NEW last,
         last = IF UsagePlaces(lines) = {} THEN 0 ELSE lines[LastOf(UsagePlaces(lines))].total
  PROVE  /\ last \in Nat
         /\ AsRecorded(whole, whole, time, last) /\ AsRecorded(lines, whole, time, last)
<1> DEFINE later == 2 * (time + 1)
<1>1. time + 1 \in Nat /\ CutoffAt(time) <= 2 * (time + 1) /\ time < 2 * (time + 1)
  BY SessionAssumption DEF CutoffAt
<1>2. Level(lines, Len(lines), later) = Level(whole, Len(whole), later)
  BY <1>1 DEF AsRecorded
<1>3. time < later /\ later \in Nat
  BY <1>1
<1> HIDE DEF later
<1>4. /\ \A k \in UsagePlaces(lines) : lines[k].time < later
      /\ \A k \in UsagePlaces(whole) : whole[k].time < later
  <2>1. /\ \A k \in UsagePlaces(lines) : lines[k].time \in Nat /\ lines[k].time <= time
        /\ \A k \in UsagePlaces(whole) : whole[k].time \in Nat /\ whole[k].time <= time
    BY LineTyped DEF UsagePlaces, AsRecorded
  <2> QED
    BY <1>3, <2>1
<1>5. Level(lines, Len(lines), later) = last /\ \A k \in UsagePlaces(lines) : lines[k].total <= last
  BY <1>4, LevelTops DEF AsRecorded
<1>6. \A k \in UsagePlaces(whole) : whole[k].total <= last
  BY <1>2, <1>4, <1>5, LevelTops DEF AsRecorded
<1>7. last \in Nat
  BY <1>5, LevelNatural, LenProperties
<1> QED
  BY <1>5, <1>6, <1>7 DEF AsRecorded

-----------------------------------------------------------------------------
(* SessionStore: the usage of a day, and its compaction.                   *)

Compacting(c) == progress[c] \in {"stat", "replace"}

ShowsUsage(lines) == AsRecorded(lines, recorded, now, spent)

\* Unless usage events were written at once, one is under way, and the file, and what is
\* to replace it, show what was recorded.
DayInv ==
  /\ \A c \in StoreCalls : Compacting(c) => asked[c] = "usage"
  /\ ~met => /\ \A c, d \in UsageUnderWay : c = d
             /\ ShowsUsage(recorded) /\ ShowsUsage(events)
             /\ \A c \in StoreCalls : progress[c] = "replace" => ShowsUsage(seen[c])

LEMMA DayInit == SessionInit => DayInv
<1> SUFFICES ASSUME SessionInit PROVE DayInv
  OBVIOUS
<1>1. /\ \A c \in StoreCalls : progress[c] = "idle"
      /\ events = <<>> /\ recorded = <<>>
  BY DEF SessionInit
<1>2. UsageUnderWay = {}
  BY <1>1 DEF UsageUnderWay
<1>3. UsagePlaces(<<>>) = {}
  BY DEF UsagePlaces
<1>4. AsRecorded(<<>>, <<>>, now, spent)
  BY <1>3 DEF AsRecorded, Grown
<1> QED
  BY <1>1, <1>2, <1>4 DEF DayInv, Compacting, ShowsUsage

\* A call that goes on.
LEMMA GoesOn ==
  ASSUME SessionTypeOK, DayInv, NEW c \in StoreCalls, NEW place, MoveTo(c, place),
         progress[c] \notin {"idle", "done"}, asked' = asked,
         place \in {"stat", "replace"} => asked[c] = "usage"
  PROVE  /\ \A d \in StoreCalls : progress'[d] = IF d = c THEN place ELSE progress[d]
         /\ \A d \in StoreCalls : Compacting(d)' => asked'[d] = "usage"
         /\ UsageUnderWay' \subseteq UsageUnderWay
<1>1. \A d \in StoreCalls : progress'[d] = IF d = c THEN place ELSE progress[d]
  BY DEF MoveTo, SessionTypeOK
<1>2. \A d \in StoreCalls : Compacting(d)' => asked'[d] = "usage"
  BY <1>1 DEF DayInv, Compacting
<1>3. UsageUnderWay' \subseteq UsageUnderWay
  BY <1>1 DEF UsageUnderWay
<1> QED
  BY <1>1, <1>2, <1>3

\* A step that writes no event.
LEMMA DayStays ==
  ASSUME SessionInv, DayInv, UNCHANGED <<events, recorded, met>>,
         now' \in Nat, now <= now', spent' \in Nat, spent <= spent',
         \A d \in StoreCalls : Compacting(d)' => asked'[d] = "usage",
         UsageUnderWay' \subseteq UsageUnderWay,
         \A d \in StoreCalls : progress'[d] = "replace" => progress[d] = "replace" /\ seen'[d] = seen[d]
  PROVE  DayInv'
<1>1. /\ events \in Seq(EventLines) /\ recorded \in Seq(EventLines) /\ now \in Nat /\ spent \in Nat
      /\ \A d \in StoreCalls : progress[d] = "replace" => seen[d] \in Seq(EventLines)
  BY DEF SessionInv, SessionTypeOK, ReadRight
<1>2. ASSUME NEW lines \in Seq(EventLines), AsRecorded(lines, recorded, now, spent)
      PROVE  AsRecorded(lines, recorded, now', spent')
  BY <1>1, <1>2, AsRecordedLater
<1>3. ASSUME ~met
      PROVE  /\ AsRecorded(recorded, recorded, now', spent') /\ AsRecorded(events, recorded, now', spent')
             /\ \A d \in StoreCalls : progress[d] = "replace" => AsRecorded(seen[d], recorded, now', spent')
  BY <1>1, <1>2, <1>3 DEF DayInv, ShowsUsage
<1>4. ASSUME ~met
      PROVE  /\ ShowsUsage(recorded)' /\ ShowsUsage(events)'
             /\ \A d \in StoreCalls : progress'[d] = "replace" => ShowsUsage(seen[d])'
  BY <1>3, <1>4 DEF ShowsUsage
<1> QED
  BY <1>4 DEF DayInv

LEMMA DayAsk == ASSUME SessionInv, DayInv, NEW c \in StoreCalls, AskStore(c) PROVE DayInv'
<1>1. PICK o \in MayAsk[c] :
        /\ progress[c] = "idle" /\ asked' = [asked EXCEPT ![c] = o]
        /\ MoveTo(c, IF o \in {"patch", "discard"} THEN "read" ELSE "append")
        /\ met' = (met \/ (o = "usage" /\ UsageUnderWay # {}))
        /\ recorded' = IF met' THEN <<>> ELSE recorded
        /\ UNCHANGED <<seen, events, now, spent>>
  BY DEF AskStore, files
<1>2. /\ \A d \in StoreCalls \ {c} : progress'[d] = progress[d] /\ asked'[d] = asked[d]
      /\ asked'[c] = o /\ progress'[c] \in {"read", "append"}
  BY <1>1 DEF SessionInv, SessionTypeOK, MoveTo
<1>3. \A d \in StoreCalls : Compacting(d)' => asked'[d] = "usage"
  BY <1>2 DEF DayInv, Compacting
<1>4. ASSUME ~met' PROVE \A a, b \in UsageUnderWay' : a = b
  <2>1. ~met
    BY <1>1, <1>4
  <2>2. CASE o = "usage"
    <3>1. UsageUnderWay = {}
      BY <1>1, <1>4, <2>2
    <3>2. UsageUnderWay' \subseteq {c}
      BY <1>2, <3>1 DEF UsageUnderWay
    <3> QED
      BY <3>2
  <2>3. CASE o # "usage"
    <3>1. UsageUnderWay' \subseteq UsageUnderWay
      BY <1>2, <2>3 DEF UsageUnderWay
    <3> QED
      BY <2>1, <3>1 DEF DayInv
  <2> QED
    BY <2>2, <2>3
<1>5. ASSUME ~met'
      PROVE  /\ ShowsUsage(recorded)' /\ ShowsUsage(events)'
             /\ \A d \in StoreCalls : progress'[d] = "replace" => ShowsUsage(seen[d])'
  <2>1. ~met /\ recorded' = recorded
    BY <1>1, <1>5
  <2>2. \A d \in StoreCalls : progress'[d] = "replace" => progress[d] = "replace"
    BY <1>2
  <2> QED
    BY <1>1, <2>1, <2>2 DEF DayInv, ShowsUsage
<1> QED
  BY <1>3, <1>4, <1>5 DEF DayInv

\* The steps of a call that write no event: they read, write items, or fail.
LEMMA DayNothing ==
  ASSUME SessionInv, DayInv, NEW c \in StoreCalls,
         \/ ReadItems(c) \/ LandTorn(c) \/ Rewrite(c) \/ FailAppend(c)
         \/ Land(c) /\ LandItem(c)
         \/ Replace(c) /\ events' = events
  PROVE  DayInv'
<1>1. SessionTypeOK /\ now \in Nat /\ spent \in Nat
  BY DEF SessionInv, SessionTypeOK
<1>2. PICK place :
        /\ MoveTo(c, place) /\ place # "replace" /\ progress[c] \notin {"idle", "done"}
        /\ place = "stat" => asked[c] = "usage"
        /\ UNCHANGED <<asked, events, now, recorded, met>>
        /\ spent' = spent \/ spent' = spent + 1
        /\ \A d \in StoreCalls \ {c} : seen'[d] = seen[d]
  <2>1. CASE ReadItems(c)
    BY <1>1, <2>1 DEF ReadItems, files, sessionHistory, SessionTypeOK
  <2>2. CASE LandTorn(c)
    BY <1>1, <2>2 DEF LandTorn, sessionHistory, SessionTypeOK
  <2>3. CASE Rewrite(c)
    BY <1>1, <2>3 DEF Rewrite, SessionTypeOK
  <2>4. CASE FailAppend(c)
    BY <1>1, <2>4 DEF FailAppend, sessionHistory, SessionTypeOK
  <2>5. CASE Land(c) /\ LandItem(c)
    BY <1>1, <2>5 DEF Land, LandItem, SessionTypeOK
  <2>6. CASE Replace(c) /\ events' = events
    BY <1>1, <2>6 DEF Replace, sessionHistory, SessionTypeOK
  <2> QED
    BY <2>1, <2>2, <2>3, <2>4, <2>5, <2>6
<1>3. /\ \A d \in StoreCalls : progress'[d] = IF d = c THEN place ELSE progress[d]
      /\ \A d \in StoreCalls : Compacting(d)' => asked'[d] = "usage"
      /\ UsageUnderWay' \subseteq UsageUnderWay
  BY <1>1, <1>2, GoesOn
<1>4. \A d \in StoreCalls : progress'[d] = "replace" => progress[d] = "replace" /\ seen'[d] = seen[d]
  BY <1>2, <1>3
<1>5. now' \in Nat /\ now <= now' /\ spent' \in Nat /\ spent <= spent'
  BY <1>1, <1>2
<1> QED
  BY <1>2, <1>3, <1>4, <1>5, DayStays

LEMMA DayEvent ==
  ASSUME SessionInv, DayInv, NEW c \in StoreCalls, Land(c), LandEvent(c) PROVE DayInv'
<1> DEFINE e == [by |-> c, time |-> now, total |-> 0, model |-> Missing]
<1>1. /\ progress[c] = "append" /\ asked[c] = "event" /\ MoveTo(c, "done")
      /\ events' = Append(events, e)
      /\ UNCHANGED <<asked, seen, now, spent, recorded, met>>
  BY DEF Land, LandEvent
<1>2. SessionTypeOK /\ events \in Seq(EventLines) /\ now \in Nat /\ e \in EventLines /\ ~IsUsage(e)
  <2>1. SessionTypeOK /\ events \in Seq(EventLines) /\ now \in Nat
    BY DEF SessionInv, SessionTypeOK
  <2>2. e \in EventLines
    BY <2>1 DEF EventLines
  <2>3. ~IsUsage(e)
    BY DEF IsUsage
  <2> QED
    BY <2>1, <2>2, <2>3
<1> HIDE DEF e
<1>3. /\ \A d \in StoreCalls : progress'[d] = IF d = c THEN "done" ELSE progress[d]
      /\ \A d \in StoreCalls : Compacting(d)' => asked'[d] = "usage"
      /\ UsageUnderWay' \subseteq UsageUnderWay
  BY <1>1, <1>2, GoesOn
<1>4. ASSUME ~met
      PROVE  /\ ShowsUsage(recorded)' /\ ShowsUsage(events)'
             /\ \A d \in StoreCalls : progress'[d] = "replace" => ShowsUsage(seen[d])'
  <2>1. EndsWith(events', events, e)
    BY <1>1 DEF EndsWith
  <2>2. AsRecorded(events, recorded, now, spent)
    BY <1>4 DEF DayInv, ShowsUsage
  <2>3. AsRecorded(events', recorded, now, spent)
    BY <1>2, <2>1, <2>2, AsRecordedEvent
  <2> QED
    BY <1>1, <1>3, <1>4, <2>3 DEF DayInv, ShowsUsage
<1> QED
  BY <1>1, <1>3, <1>4 DEF DayInv

LEMMA DayUsage ==
  ASSUME SessionInv, DayInv, NEW c \in StoreCalls, Land(c), LandUsage(c) PROVE DayInv'
<1>1. PICK m \in Models :
        LET event == [by |-> Missing, time |-> now, total |-> spent', model |-> m]
        IN  /\ events' = Append(events, event)
            /\ recorded' = IF met THEN recorded ELSE Append(recorded, event)
  BY DEF LandUsage
<1> DEFINE e == [by |-> Missing, time |-> now, total |-> spent', model |-> m]
<1>2. /\ progress[c] = "append" /\ asked[c] = "usage" /\ MoveTo(c, "stat") /\ spent' = spent + 1
      /\ events' = Append(events, e) /\ recorded' = IF met THEN recorded ELSE Append(recorded, e)
      /\ UNCHANGED <<asked, seen, now, met>>
  BY <1>1 DEF Land, LandUsage
<1>3. /\ SessionTypeOK /\ events \in Seq(EventLines) /\ recorded \in Seq(EventLines)
      /\ now \in Nat /\ spent \in Nat
  BY DEF SessionInv, SessionTypeOK
<1>4. e \in EventLines /\ IsUsage(e) /\ e.time = now /\ e.total = spent + 1
  BY <1>2, <1>3 DEF EventLines, IsUsage
<1> HIDE DEF e
<1>5. /\ \A d \in StoreCalls : progress'[d] = IF d = c THEN "stat" ELSE progress[d]
      /\ \A d \in StoreCalls : Compacting(d)' => asked'[d] = "usage"
      /\ UsageUnderWay' \subseteq UsageUnderWay
  BY <1>2, <1>3, GoesOn
<1>6. ASSUME ~met
      PROVE  /\ ShowsUsage(recorded)' /\ ShowsUsage(events)'
             /\ \A d \in StoreCalls : progress'[d] # "replace"
  <2>1. EndsWith(events', events, e) /\ EndsWith(recorded', recorded, e)
    BY <1>2, <1>6 DEF EndsWith
  <2>2. AsRecorded(events, recorded, now, spent) /\ AsRecorded(recorded, recorded, now, spent)
    BY <1>6 DEF DayInv, ShowsUsage
  <2>3. AsRecorded(events', recorded', now, spent + 1)
    BY <1>3, <1>4, <2>1, <2>2, AsRecordedUsage
  <2>4. AsRecorded(recorded', recorded', now, spent + 1)
    BY <1>3, <1>4, <2>1, <2>2, AsRecordedUsage
  <2>5. \A d \in StoreCalls : progress[d] = "replace" => d = c
    BY <1>2, <1>6 DEF DayInv, Compacting, UsageUnderWay
  <2>6. \A d \in StoreCalls : progress'[d] # "replace"
    BY <1>2, <1>5, <2>5
  <2> QED
    BY <1>2, <2>3, <2>4, <2>6 DEF ShowsUsage
<1> QED
  BY <1>2, <1>5, <1>6 DEF DayInv

LEMMA DayLook == ASSUME SessionInv, DayInv, NEW c \in StoreCalls, Look(c) PROVE DayInv'
<1> DEFINE new == Compact(events, Cutoff)
<1>1. PICK place \in {"replace", "done"} :
        /\ progress[c] = "stat" /\ MoveTo(c, place)
        /\ seen' = IF place = "replace" THEN [seen EXCEPT ![c] = new] ELSE seen
        /\ UNCHANGED <<asked, events, now, spent, recorded, met>>
  <2> HIDE DEF new
  <2> QED
    BY DEF Look, files, sessionHistory, new
<1>2. /\ SessionTypeOK /\ events \in Seq(EventLines) /\ now \in Nat /\ asked[c] = "usage"
      /\ new = Compact(events, CutoffAt(now))
  BY <1>1 DEF SessionInv, SessionTypeOK, DayInv, Compacting, Cutoff, CutoffAt
<1> HIDE DEF new
<1>3. /\ \A d \in StoreCalls : progress'[d] = IF d = c THEN place ELSE progress[d]
      /\ \A d \in StoreCalls : Compacting(d)' => asked'[d] = "usage"
      /\ UsageUnderWay' \subseteq UsageUnderWay
  BY <1>1, <1>2, GoesOn
<1>4. \A d \in StoreCalls : seen'[d] = IF d = c /\ place = "replace" THEN new ELSE seen[d]
  BY <1>1, <1>2 DEF SessionTypeOK
<1>5. ASSUME ~met
      PROVE  /\ ShowsUsage(recorded)' /\ ShowsUsage(events)'
             /\ \A d \in StoreCalls : progress'[d] = "replace" => ShowsUsage(seen[d])'
  <2>1. AsRecorded(events, recorded, now, spent)
    BY <1>5 DEF DayInv, ShowsUsage
  <2>2. AsRecorded(new, recorded, now, spent)
    BY <1>2, <2>1, AsRecordedCompact
  <2> QED
    BY <1>1, <1>3, <1>4, <1>5, <2>2 DEF DayInv, ShowsUsage
<1> QED
  BY <1>1, <1>3, <1>5 DEF DayInv

LEMMA DayReplace ==
  ASSUME SessionInv, DayInv, NEW c \in StoreCalls, Replace(c), events' = seen[c] PROVE DayInv'
<1>1. /\ progress[c] = "replace" /\ MoveTo(c, "done") /\ seen' = [seen EXCEPT ![c] = <<>>]
      /\ UNCHANGED <<asked, now, spent, recorded, met>>
  BY DEF Replace, sessionHistory
<1>2. SessionTypeOK
  BY DEF SessionInv
<1>3. /\ \A d \in StoreCalls : progress'[d] = IF d = c THEN "done" ELSE progress[d]
      /\ \A d \in StoreCalls : Compacting(d)' => asked'[d] = "usage"
      /\ UsageUnderWay' \subseteq UsageUnderWay
  BY <1>1, <1>2, GoesOn
<1>4. \A d \in StoreCalls \ {c} : seen'[d] = seen[d]
  BY <1>1, <1>2 DEF SessionTypeOK
<1>5. ASSUME ~met
      PROVE  /\ ShowsUsage(recorded)' /\ ShowsUsage(events)'
             /\ \A d \in StoreCalls : progress'[d] = "replace" => ShowsUsage(seen[d])'
  BY <1>1, <1>3, <1>4, <1>5 DEF DayInv, ShowsUsage
<1> QED
  BY <1>1, <1>3, <1>5 DEF DayInv

LEMMA DayCrash == ASSUME SessionInv, DayInv, Crash PROVE DayInv'
<1>1. /\ progress' = [c \in StoreCalls |-> IF progress[c] = "idle" THEN "idle" ELSE "done"]
      /\ UNCHANGED <<asked, seen, events, now, recorded, met>>
      /\ spent' = IF UsagePlaces(events) = {} THEN 0 ELSE events[LastOf(UsagePlaces(events))].total
  BY DEF Crash, sessionHistory, UsagePlaces
<1>2. /\ events \in Seq(EventLines) /\ recorded \in Seq(EventLines) /\ now \in Nat /\ spent \in Nat
  BY DEF SessionInv, SessionTypeOK
<1>3. \A d \in StoreCalls : progress'[d] \in {"idle", "done"}
  BY <1>1
<1>4. UsageUnderWay' = {}
  BY <1>3 DEF UsageUnderWay
<1>5. ASSUME ~met PROVE ShowsUsage(recorded)' /\ ShowsUsage(events)'
  <2>1. AsRecorded(events, recorded, now, spent) /\ AsRecorded(recorded, recorded, now, spent)
    BY <1>5 DEF DayInv, ShowsUsage
  <2>2. AsRecorded(recorded, recorded, now, spent') /\ AsRecorded(events, recorded, now, spent')
    BY <1>1, <1>2, <2>1, AsRecordedRestart
  <2> QED
    BY <1>1, <2>2 DEF ShowsUsage
<1> QED
  BY <1>1, <1>3, <1>4, <1>5 DEF DayInv, Compacting

LEMMA DayStep == SessionInv /\ DayInv /\ [SessionNext]_sessionVars => DayInv'
<1> SUFFICES ASSUME SessionInv, DayInv, [SessionNext]_sessionVars PROVE DayInv'
  OBVIOUS
<1>1. CASE UNCHANGED sessionVars \/ TimePasses
  <2>1. /\ UNCHANGED <<progress, asked, seen, events, spent, recorded, met>>
        /\ now' = now \/ now' = now + 1
    BY <1>1 DEF sessionVars, files, sessionHistory, TimePasses
  <2>2. now' \in Nat /\ now <= now' /\ spent' \in Nat /\ spent <= spent'
    BY <2>1 DEF SessionInv, SessionTypeOK
  <2>3. UsageUnderWay' = UsageUnderWay
    BY <2>1 DEF UsageUnderWay
  <2>4. \A d \in StoreCalls : Compacting(d)' => asked'[d] = "usage"
    BY <2>1 DEF DayInv, Compacting
  <2> QED
    BY <2>1, <2>2, <2>3, <2>4, DayStays
<1>2. ASSUME NEW c \in StoreCalls, Land(c) PROVE DayInv'
  BY <1>2, DayNothing, DayEvent, DayUsage DEF Land
<1>3. ASSUME NEW c \in StoreCalls, Replace(c) PROVE DayInv'
  <2>1. events' = seen[c] \/ events' = events
    BY <1>3 DEF Replace
  <2> QED
    BY <1>3, <2>1, DayNothing, DayReplace
<1> QED
  BY <1>1, <1>2, <1>3, DayAsk, DayNothing, DayLook, DayCrash DEF SessionNext

\* For any calls, models, size of the file and retention, and any failed writes, crashes
\* and compactions: the usage of each day since the cutoff is what was recorded, unless
\* usage events were written at once.
THEOREM DaysAsRecorded == SessionSpec => []DaysKeepTheirUsage
<1>1. SessionInv /\ DayInv => DaysKeepTheirUsage
  <2> SUFFICES ASSUME SessionInv, DayInv, ~met, NEW day \in 0..(LastTime \div 2), 2 * day >= Cutoff
               PROVE  DayTotal(events, day) = DayTotal(recorded, day)
    BY DEF DaysKeepTheirUsage
  <2>1. events \in Seq(EventLines) /\ recorded \in Seq(EventLines) /\ now \in Nat
    BY DEF SessionInv, SessionTypeOK
  <2>2. day \in Nat /\ day + 1 \in Nat /\ 2 * (day + 1) = 2 * day + 2
    BY SessionAssumption
  <2>3. CutoffAt(now) <= 2 * day /\ CutoffAt(now) <= 2 * (day + 1)
    BY <2>1, <2>2, SessionAssumption DEF Cutoff, CutoffAt
  <2>4. AsRecorded(events, recorded, now, spent) /\ AsRecorded(recorded, recorded, now, spent)
    BY DEF DayInv, ShowsUsage
  <2>5. /\ Level(events, Len(events), 2 * day) = Level(recorded, Len(recorded), 2 * day)
        /\ Level(events, Len(events), 2 * (day + 1)) = Level(recorded, Len(recorded), 2 * (day + 1))
    BY <2>2, <2>3, <2>4 DEF AsRecorded
  <2>6. DayTotal(events, day) = Level(events, Len(events), 2 * day + 2) - Level(events, Len(events), 2 * day)
    BY <2>1, <2>2, <2>4, DayIsGrowth DEF AsRecorded
  <2>7. DayTotal(recorded, day) = Level(recorded, Len(recorded), 2 * day + 2)
                                    - Level(recorded, Len(recorded), 2 * day)
    BY <2>1, <2>2, <2>4, DayIsGrowth DEF AsRecorded
  <2> QED
    BY <2>2, <2>5, <2>6, <2>7
<1> QED
  BY <1>1, DayInit, DayStep, SessionInvInit, SessionInvStep, PTL DEF SessionSpec
=============================================================================
