--------------------------- MODULE GoalEvaluation ---------------------------
(***************************************************************************)
(* The goal of a thread: its evaluation after a turn (loop/agent-loop.ts,   *)
(* services/goal-evaluator-service.ts), the time a turn adds to it, and the *)
(* calls of users and tools that set or clear it (services/                 *)
(* thread-service.ts).                                                      *)
(*                                                                          *)
(* Each of them reads the record of the thread, and writes it back with a   *)
(* changed goal; nothing orders one after another. A step is what runs      *)
(* between two awaits. Any of them may fail, and then nothing is written;   *)
(* a restart of the runtime is that, for all that are under way. Seconds    *)
(* and tokens are left out.                                                 *)
(***************************************************************************)
EXTENDS Naturals

CONSTANTS Turns, Setters, \* the turns; the calls of users and tools
          Objectives,
          MaxIterations,  \* budget.totalMaxIterations
          MaxGoals,       \* bound of the goals set where there was none
          NoGoal

Statuses == {"active", "paused", "blocked", "complete"}
\* What a call may ask for: a new objective, another status, or to clear the goal.
Requests == Objectives \cup Statuses \cup {"clear"}

Goals == [born : 1..MaxGoals, objective : Objectives, status : Statuses, iterations : Nat]

ASSUME GoalAssumption ==
  /\ MaxIterations \in Nat \ {0} /\ MaxGoals \in Nat
  /\ Objectives \cap (Statuses \cup {"clear"}) = {}
  /\ NoGoal \notin Goals

VARIABLES goal,    \* the goal in the record
          born,    \* how many goals were set where there was none (createdAt)
          timer,   \* where each turn is with its timer, and the goal as it read it
          eval,    \* where its evaluation is, the goal as it read it, the answer
          setting, \* where each call is, the goal as it read it, the goal it writes
          asks,    \* history: how often the evaluator was asked about each goal
          lost,    \* history: how many of its answers were never written
          crossed  \* history: an evaluation began during another, or a goal was overwritten unread

goalVars == <<goal, born, timer, eval, setting, asks, lost, crossed>>

Idle == [at |-> "idle", read |-> NoGoal, new |-> NoGoal]

GoalInit ==
  /\ goal = NoGoal /\ born = 0
  /\ timer = [t \in Turns |-> Idle] /\ eval = [t \in Turns |-> Idle] /\ setting = [c \in Setters |-> Idle]
  /\ asks = [b \in 1..MaxGoals |-> 0] /\ lost = [b \in 1..MaxGoals |-> 0] /\ crossed = FALSE

Active(g) == g # NoGoal /\ g.status = "active"

\* upsert, by someone who read `read`.
Upsert(read, new) == goal' = new /\ crossed' = (crossed \/ goal # read)

-----------------------------------------------------------------------------
(* A turn: startGoalElapsedTimer, finishGoalElapsedTimer                    *)

BeginTurn(t) ==
  /\ timer[t].at = "idle"
  /\ timer' = [timer EXCEPT ![t] = [Idle EXCEPT !.at = "runs", !.read = IF Active(goal) THEN goal ELSE NoGoal]]
  /\ UNCHANGED <<goal, born, eval, setting, asks, lost, crossed>>

\* The loop returns: an evaluation starts, and is not waited for. Or it throws.
EndTurn(t) ==
  /\ timer[t].at = "runs"
  /\ timer' = [timer EXCEPT ![t].at = IF timer[t].read = NoGoal THEN "done" ELSE "reads"]
  /\ \E returned \in BOOLEAN : eval' = IF returned THEN [eval EXCEPT ![t].at = "reads"] ELSE eval
  /\ UNCHANGED <<goal, born, setting, asks, lost, crossed>>

\* Time is added to the goal it was spent on; none for less than a second.
ReadTimed(t) ==
  LET of == timer[t].read IN
  /\ timer[t].at = "reads"
  /\ \/ /\ goal # NoGoal /\ goal.born = of.born /\ goal.objective = of.objective
        /\ timer' = [timer EXCEPT ![t] = [Idle EXCEPT !.at = "writes", !.read = goal]]
     \/ timer' = [timer EXCEPT ![t] = [Idle EXCEPT !.at = "done"]]
  /\ UNCHANGED <<goal, born, eval, setting, asks, lost, crossed>>

WriteTimed(t) ==
  /\ timer[t].at = "writes" /\ Upsert(timer[t].read, timer[t].read)
  /\ timer' = [timer EXCEPT ![t] = [Idle EXCEPT !.at = "done"]]
  /\ UNCHANGED <<born, eval, setting, asks, lost>>

-----------------------------------------------------------------------------
(* evaluateGoalAfterTurn                                                    *)

\* checkBudget, with the evaluation about to be made counted.
Exhausted(g) == g.iterations + 1 >= MaxIterations

\* An active goal is read, then the items of the session.
BeginEval(t) ==
  /\ eval[t].at = "reads"
  /\ eval' = [eval EXCEPT ![t] = IF Active(goal) THEN [at |-> "asks", read |-> goal, new |-> NoGoal]
                                 ELSE [Idle EXCEPT !.at = "done"]]
  /\ crossed' = (crossed \/ (Active(goal) /\ \E u \in Turns : eval[u].at \notin {"idle", "reads", "done"}))
  /\ UNCHANGED <<goal, born, timer, setting, asks, lost>>

\* The model judges, with any outcome - or the budget is used up, and the goal is blocked.
Ask(t) ==
  LET g == eval[t].read IN
  /\ eval[t].at = "asks"
  /\ IF Exhausted(g) THEN eval' = [eval EXCEPT ![t].at = "reads2", ![t].new = "blocked"] /\ UNCHANGED asks
     ELSE /\ asks' = [asks EXCEPT ![g.born] = @ + 1]
          /\ \E verdict \in {"complete", "blocked", "active"} :
               eval' = [eval EXCEPT ![t].at = "reads2", ![t].new = verdict]
  /\ UNCHANGED <<goal, born, timer, setting, lost, crossed>>

\* Mutant: the evaluation is not counted.
JudgedOnly(t) == [goal EXCEPT !.status = eval[t].new]

\* The goal as it is by now, with the verdict and the count.
Judged(t) == [goal EXCEPT !.status = eval[t].new, !.iterations = eval[t].read.iterations + 1]

\* updateGoalStatus: the record is read again; a goal that is gone is left alone.
ReadJudged(t) ==
  /\ eval[t].at = "reads2"
  /\ eval' = [eval EXCEPT ![t] = IF goal = NoGoal THEN [Idle EXCEPT !.at = "done"]
                                 ELSE [at |-> "writes", read |-> goal, new |-> Judged(t)]]
  /\ crossed' = (crossed \/ goal # eval[t].read)
  /\ UNCHANGED <<goal, born, timer, setting, asks, lost>>

WriteJudged(t) ==
  /\ eval[t].at = "writes" /\ Upsert(eval[t].read, eval[t].new)
  /\ eval' = [eval EXCEPT ![t] = [Idle EXCEPT !.at = "done"]]
  /\ UNCHANGED <<born, timer, setting, asks, lost>>

\* An evaluation fails anywhere: the error is caught and recorded. Nothing is written
\* of it - and the evaluator may have answered.
FailEval(t) ==
  LET b == eval[t].read.born IN
  /\ eval[t].at \notin {"idle", "done"}
  /\ eval' = [eval EXCEPT ![t] = [Idle EXCEPT !.at = "done"]]
  /\ lost' = IF eval[t].at \in {"reads2", "writes"} /\ ~Exhausted(eval[t].read)
             THEN [lost EXCEPT ![b] = @ + 1] ELSE lost
  /\ UNCHANGED <<goal, born, timer, setting, asks, crossed>>

\* A timer or a call that fails writes nothing.
FailTimed(t) ==
  /\ timer[t].at = "writes" /\ timer' = [timer EXCEPT ![t] = [Idle EXCEPT !.at = "done"]]
  /\ UNCHANGED <<goal, born, eval, setting, asks, lost, crossed>>

-----------------------------------------------------------------------------
(* setGoal, clearGoal, and the goal tools                                   *)

\* Mutant: a new objective starts the count again, the budget's too.
SetRecounts(request) ==
  CASE request = "clear"                     -> NoGoal
    [] request \in Statuses                  -> [goal EXCEPT !.status = request]
    [] request \in Objectives /\ goal = NoGoal -> [born |-> born + 1, objective |-> request, status |-> "active",
                                                 iterations |-> 0]
    [] OTHER -> [goal EXCEPT !.objective = request, !.status = "active", !.iterations = 0]

\* A goal that is changed keeps its birth and its count.
Set(request) ==
  CASE request = "clear"                     -> NoGoal
    [] request \in Statuses                  -> [goal EXCEPT !.status = request]
    [] request \in Objectives /\ goal = NoGoal -> [born |-> born + 1, objective |-> request, status |-> "active",
                                                 iterations |-> 0]
    [] OTHER -> [goal EXCEPT !.objective = request, !.status = "active"]

\* Without a goal there is nothing to clear, or to give another status.
Read(c, request) ==
  /\ setting[c].at = "idle"
  /\ IF goal = NoGoal /\ request \notin Objectives
     THEN setting' = [setting EXCEPT ![c].at = "done"] /\ UNCHANGED born
     ELSE /\ setting' = [setting EXCEPT ![c] = [at |-> "writes", read |-> goal, new |-> Set(request)]]
          /\ IF goal = NoGoal THEN born < MaxGoals /\ born' = born + 1 ELSE UNCHANGED born
  /\ UNCHANGED <<goal, timer, eval, asks, lost, crossed>>

WriteSet(c) ==
  /\ setting[c].at = "writes" /\ Upsert(setting[c].read, setting[c].new)
  /\ setting' = [setting EXCEPT ![c] = [Idle EXCEPT !.at = "done"]]
  /\ UNCHANGED <<born, timer, eval, asks, lost>>

FailSet(c) ==
  /\ setting[c].at = "writes" /\ setting' = [setting EXCEPT ![c] = [Idle EXCEPT !.at = "done"]]
  /\ UNCHANGED <<goal, born, timer, eval, asks, lost, crossed>>

GoalNext ==
  \/ \E t \in Turns : \/ BeginTurn(t) \/ EndTurn(t) \/ ReadTimed(t) \/ WriteTimed(t)
                      \/ BeginEval(t) \/ Ask(t) \/ ReadJudged(t) \/ WriteJudged(t)
                      \/ FailTimed(t) \/ FailEval(t)
  \/ \E c \in Setters : WriteSet(c) \/ FailSet(c) \/ \E r \in Requests : Read(c, r)

GoalSpec == GoalInit /\ [][GoalNext]_goalVars

-----------------------------------------------------------------------------
\* About one goal, with whatever objectives, the evaluator is asked less often than
\* the budget says, and once more for each answer that was never written - unless
\* two evaluations, or an evaluation and a write, crossed.
EvaluationsCapped ==
  ~crossed => \A b \in 1..born : asks[b] < MaxIterations + lost[b]
=============================================================================
