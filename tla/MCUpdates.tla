------------------------------ MODULE MCUpdates ------------------------------
(* What is changed by reading and writing the whole of it: the record of a   *)
(* thread (ThreadUpdates), with three queued updates and one outside the     *)
(* queue, and the tasks in the settings of the desktop (ScheduleRuntime),    *)
(* with one task, one tick at a time and one call. They share no state: one  *)
(* of them is chosen in the initial state, and the other stays as it is.     *)
EXTENDS ThreadUpdates, ScheduleRuntime

VARIABLE part

UpdatesInit == /\ part \in {"thread", "schedule"} /\ Init /\ TaskInit
               /\ part = "thread" => /\ kind = [t \in Tasks |-> "at"] /\ blank = {}
                                   /\ ~enabled["cache"]

UpdatesNext ==
  /\ UNCHANGED part
  /\ \/ part = "thread"   /\ Next     /\ UNCHANGED taskVars
     \/ part = "schedule" /\ TaskNext /\ UNCHANGED vars

OfTasks(A) == part = "schedule" /\ A

\* The fairness of the two modules, each for its part.
UpdatesSpec ==
  /\ UpdatesInit /\ [][UpdatesNext]_<<part, vars, taskVars>>
  /\ Fairness
  /\ \A p \in Procs : WF_taskVars(OfTasks(Load(p) \/ Land(p) \/ Written(p)))
  /\ \A k \in Ticks : WF_taskVars(OfTasks(Tick(k))) /\ WF_taskVars(OfTasks(StartDue(k)))
  /\ \A t \in Tasks : WF_taskVars(OfTasks(Ask(t))) /\ WF_taskVars(OfTasks(Answer(t)))
  /\ WF_taskVars(OfTasks(TimePasses))
=============================================================================
