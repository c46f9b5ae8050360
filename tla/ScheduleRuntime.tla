--------------------------- MODULE ScheduleRuntime ---------------------------
(***************************************************************************)
(* The tasks of the desktop scheduler (main/schedule-runtime.ts) and the     *)
(* settings they are kept in (main/settings-store.ts).                      *)
(*                                                                          *)
(* Whoever changes a task loads the settings, changes the array of tasks    *)
(* and patches the whole of it; the patch awaits before it reaches the      *)
(* cache, and again before it reaches the disk. The time of a next run is   *)
(* none, future or past.                                                    *)
(***************************************************************************)
EXTENDS Naturals

CONSTANTS Tasks,
          Ticks,    \* the ticks of the scheduler that may overlap
          Calls,    \* calls of a user or of the internal server, one each
          Deleted,  \* what is in the place of a task that is not there
          MaxFaults \* bound of the failed writes, thrown requests and restarts

\* A task as the settings keep it.
TaskRecords ==
  [on : BOOLEAN, next : {"none", "future", "past"}, status : {"idle", "running", "ended"}]

ASSUME TaskAssumption ==
  /\ Tasks \cap Ticks = {} /\ Tasks \cap Calls = {} /\ Ticks \cap Calls = {}
  /\ Deleted \notin TaskRecords
  /\ {"cache", "disk"} \cap (Tasks \cup Ticks \cup Calls) = {}

VARIABLES kind,          \* "at" or "interval", for each task
          blank,         \* the tasks with an empty prompt
          atPassed,      \* the time of an "at" task has passed
          cache, disk,   \* the tasks in the settings
          enabled,       \* schedule.enabled: in the cache, on disk, in what each writes
          running,       \* runningTaskIds
          stage,         \* where each run, tick and call is
          wr, draft,     \* how far its write is, and the tasks it writes
          stale,         \* history: the writes that others have overtaken
          starts,        \* history: the turns started for a task
          disturbed,     \* history: see OneTimeOnce
          faults

taskVars == <<kind, blank, atPassed, cache, disk, enabled, running, stage, wr, draft, stale, starts,
              disturbed, faults>>

\* A run is named by its task: runningTaskIds allows one.
Procs == Tasks \cup Ticks \cup Calls
Places == Procs \cup {"cache", "disk"}
Live  == {t \in Tasks : cache[t] # Deleted}

NewTask == [on |-> TRUE, next |-> "none", status |-> "idle"]
AllGone == [t \in Tasks |-> Deleted]

TaskInit ==
  /\ kind \in [Tasks -> {"at", "interval"}] /\ blank \in SUBSET Tasks /\ atPassed = FALSE
  /\ cache = [t \in Tasks |-> NewTask] /\ disk = cache
  /\ enabled \in {[x \in Places |-> on /\ x \notin Procs] : on \in BOOLEAN}
  /\ running = {} /\ stage = [p \in Procs |-> "idle"]
  /\ wr = [p \in Procs |-> "load"] /\ draft = [p \in Procs |-> AllGone] /\ stale = {}
  /\ starts = [t \in Tasks |-> 0] /\ disturbed = FALSE /\ faults = 0

Goto(p, place) == stage' = [stage EXCEPT ![p] = place]

\* computeScheduleNextRunAt
NextRunAt(t, task) ==
  IF ~task.on THEN "none"
  ELSE IF kind[t] = "at" /\ atPassed THEN "past" ELSE "future"

-----------------------------------------------------------------------------
(* The changes                                                              *)

\* Mutant: a one-time task stays enabled.
OverKeepsAt(t, task) == [on |-> task.on, next |-> NextRunAt(t, task), status |-> "ended"]

\* A run is over, well or badly: that is the end of a one-time task.
Over(t, task) ==
  IF kind[t] = "at" THEN [on |-> FALSE, next |-> "none", status |-> "ended"]
  ELSE [task EXCEPT !.next = NextRunAt(t, task), !.status = "ended"]

\* runTaskInternal and monitorTaskTurn; an exception leaves a one-time task enabled.
RunWrites(t, task) ==
  CASE stage[t] \in {"mark", "started"}      -> [task EXCEPT !.next = "none", !.status = "running"]
    [] stage[t] \in {"notOk", "done", "broke"} -> Over(t, task)
    [] stage[t] = "thrown" -> [task EXCEPT !.next = NextRunAt(t, task), !.status = "ended"]

\* Mutant: an interrupted task is not recovered.
EnsuredOnly(t, task) ==
  IF ~task.on \/ t \in running \/ task.next # "none" \/ task.status = "running" THEN task
  ELSE [task EXCEPT !.next = NextRunAt(t, task)]

\* ensureNextRuns: a task that says it runs, and does not, was interrupted.
Ensured(t, task) ==
  LET interrupted == task.status = "running" /\ t \notin running
      told        == IF interrupted THEN [task EXCEPT !.status = "ended"] ELSE task
  IN  IF ~task.on THEN (IF interrupted THEN Over(t, task) ELSE task)
      ELSE IF t \in running \/ (task.next # "none" /\ ~interrupted) THEN task
      ELSE [told EXCEPT !.next = NextRunAt(t, task)]

\* createTask, updateTaskById, deleteTaskById, or a patch of other settings.
CallWrites(op, task) ==
  CASE op = "create"  -> NewTask
    [] op = "enable"  -> [task EXCEPT !.on = TRUE, !.next = "none"]
    [] op = "disable" -> [task EXCEPT !.on = FALSE, !.next = "none"]
    [] op = "delete"  -> Deleted

Ops == {"create", "enable", "disable", "delete"}

-----------------------------------------------------------------------------
(* A write                                                                  *)

\* Where a process goes after its write, and after one that failed.
After(p) ==
  CASE stage[p] = "mark"    -> "ask"
    [] stage[p] = "started" -> "watch"
    [] stage[p] = "call"    -> "sync"
    [] stage[p] = "sync"    -> "due"
    [] p \in Calls       -> "over"
    [] stage[p] = "ensure"  -> "due"
    [] OTHER             -> "idle"
AfterFailure(p) ==
  CASE stage[p] \in {"started", "notOk"} -> "thrown"
    [] stage[p] = "done"                 -> "broke"
    [] p \in Calls                    -> "over"
    [] OTHER                          -> "idle"

\* The end of a run takes the task off the set.
OffTheSet(p, place) == running' = IF p \in Tasks /\ place = "idle" THEN running \ {p} ELSE running

\* The settings before the change: a sync after a call goes on with what the call saved.
Base(p)      == IF stage[p] = "sync" THEN draft[p] ELSE cache
EnabledAt(p) == enabled[IF stage[p] = "sync" THEN p ELSE "cache"]

\* A run changes its task; next runs are for a schedule that is enabled.
Changed(p, tasks) ==
  [t \in Tasks |-> IF tasks[t] = Deleted THEN Deleted
                   ELSE IF p = t THEN RunWrites(t, tasks[t])
                   ELSE IF p \notin Tasks /\ EnabledAt(p) THEN Ensured(t, tasks[t])
                   ELSE tasks[t]]

\* The write of tasks, and of whether the schedule is enabled.
StartsWrite(p, tasks, on) ==
  /\ draft' = [draft EXCEPT ![p] = tasks] /\ wr' = [wr EXCEPT ![p] = "land"]
  /\ enabled' = [enabled EXCEPT ![p] = on]
  /\ stale' = IF Base(p) = cache THEN stale \ {p} ELSE stale \cup {p}

\* load; a run, a tick, or the sync after a call. Nothing is written if nothing is to ensure.
Load(p) ==
  /\ stage[p] \in {"mark", "notOk", "thrown", "started", "done", "broke", "ensure", "sync"} /\ wr[p] = "load"
  /\ IF p \notin Tasks /\ Changed(p, Base(p)) = Base(p)
     THEN Goto(p, After(p)) /\ UNCHANGED <<wr, draft, enabled, stale>>
     ELSE StartsWrite(p, Changed(p, Base(p)), EnabledAt(p)) /\ UNCHANGED stage
  /\ UNCHANGED <<kind, blank, atPassed, cache, disk, running, starts, disturbed, faults>>

\* The cache has the new settings: what else was written since the load is lost.
Land(p) ==
  /\ wr[p] = "land" /\ wr' = [wr EXCEPT ![p] = "disk"]
  /\ cache' = draft[p] /\ enabled' = [enabled EXCEPT !["cache"] = enabled[p]]
  /\ stale' = (stale \ {p}) \cup {q \in Procs \ {p} : wr[q] = "land"}
  /\ disturbed' = (disturbed \/ p \in stale)
  /\ UNCHANGED <<kind, blank, atPassed, disk, running, stage, draft, starts, faults>>

Written(p) ==
  /\ wr[p] = "disk" /\ wr' = [wr EXCEPT ![p] = "load"]
  /\ disk' = draft[p]
  /\ enabled' = [enabled EXCEPT !["disk"] = enabled[p], ![p] = stage[p] = "call" /\ @]
  /\ Goto(p, After(p)) /\ OffTheSet(p, After(p))
  /\ draft' = [draft EXCEPT ![p] = IF stage[p] = "call" THEN @ ELSE AllGone]
  /\ UNCHANGED <<kind, blank, atPassed, cache, stale, starts, disturbed, faults>>

\* save throws. A run whose mark, or whose last word, fails so stays in the set.
WriteFails(p) ==
  /\ wr[p] = "disk" /\ wr' = [wr EXCEPT ![p] = "load"]
  /\ faults < MaxFaults /\ faults' = faults + 1 /\ disturbed' = TRUE
  /\ Goto(p, AfterFailure(p))
  /\ IF stage[p] = "broke" THEN OffTheSet(p, "idle") ELSE UNCHANGED running
  /\ draft' = [draft EXCEPT ![p] = AllGone] /\ enabled' = [enabled EXCEPT ![p] = FALSE]
  /\ UNCHANGED <<kind, blank, atPassed, cache, disk, stale, starts>>

-----------------------------------------------------------------------------
(* Ticks, runs and calls                                                    *)

\* Nothing, if the schedule is not enabled.
Tick(k) ==
  /\ stage[k] = "idle" /\ enabled["cache"] /\ Goto(k, "ensure")
  /\ UNCHANGED <<kind, blank, atPassed, cache, disk, enabled, running, wr, draft, stale, starts, disturbed, faults>>

\* runTaskInternal, up to its first await: a task without a prompt is not run.
BeginRuns(ts, p) ==
  /\ stage' = [q \in Procs |-> IF q \in ts \ blank THEN "mark" ELSE IF q = p THEN After(p) ELSE stage[q]]
  /\ running' = running \cup (ts \ blank)

Due(t) == t \in Live /\ cache[t].on /\ t \notin running /\ cache[t].next = "past"

\* The second half of a tick: the tasks that are due start.
StartDue(k) ==
  /\ stage[k] = "due" /\ BeginRuns({t \in Tasks : Due(t)}, k)
  /\ UNCHANGED <<kind, blank, atPassed, cache, disk, enabled, wr, draft, stale, starts, disturbed, faults>>

\* runTask, on demand.
RunNow(c, t) ==
  /\ stage[c] = "idle" /\ t \in Live \ running /\ BeginRuns({t}, c) /\ disturbed' = TRUE
  /\ UNCHANGED <<kind, blank, atPassed, cache, disk, enabled, wr, draft, stale, starts, faults>>

\* runPrompt: a thread and a turn of it start, or they do not.
Ask(t) ==
  /\ stage[t] = "ask"
  /\ \/ /\ Goto(t, "started") /\ starts' = [starts EXCEPT ![t] = IF @ < 2 THEN @ + 1 ELSE @]
        /\ UNCHANGED <<disturbed, faults>>
     \/ Goto(t, "notOk") /\ UNCHANGED <<starts, disturbed, faults>>
     \/ /\ Goto(t, "thrown") /\ faults < MaxFaults /\ faults' = faults + 1
        /\ disturbed' = TRUE /\ UNCHANGED starts
  /\ UNCHANGED <<kind, blank, atPassed, cache, disk, enabled, running, wr, draft, stale>>

\* monitorTaskTurn: an answer, or the turn failed, could not be read or took too long.
Answer(t) ==
  /\ stage[t] = "watch" /\ \E place \in {"done", "broke"} : Goto(t, place)
  /\ UNCHANGED <<kind, blank, atPassed, cache, disk, enabled, running, wr, draft, stale, starts, disturbed, faults>>

\* A call on a task, or one that patches other settings (ts is empty), schedule.enabled
\* among them; a task that is created enables the schedule.
Call(c, op, ts) ==
  /\ stage[c] = "idle" /\ \A t \in ts : (op = "create") = (t \notin Live)
  /\ Goto(c, "call")
  /\ \E on \in BOOLEAN :
       /\ ts # {} => on = (enabled["cache"] \/ op = "create")
       /\ StartsWrite(c, [t \in Tasks |-> IF t \in ts THEN CallWrites(op, cache[t]) ELSE cache[t]], on)
  /\ disturbed' = (disturbed \/ ts # {})
  /\ UNCHANGED <<kind, blank, atPassed, cache, disk, running, starts, faults>>

\* The sync after a call is a tick without its second half.
EndSync(c) ==
  /\ stage[c] = "due" /\ Goto(c, "over")
  /\ UNCHANGED <<kind, blank, atPassed, cache, disk, enabled, running, wr, draft, stale, starts, disturbed, faults>>

Pass(tasks) ==
  [t \in Tasks |-> IF tasks[t] # Deleted /\ tasks[t].next = "future" THEN [tasks[t] EXCEPT !.next = "past"]
                   ELSE tasks[t]]

TimePasses ==
  /\ atPassed' = TRUE /\ cache' = Pass(cache) /\ disk' = Pass(disk)
  /\ draft' = [p \in Procs |-> Pass(draft[p])]
  /\ <<atPassed, cache, disk, draft>>' # <<atPassed, cache, disk, draft>>
  /\ UNCHANGED <<kind, blank, enabled, running, stage, wr, stale, starts, disturbed, faults>>

\* The application ends, at any time, and starts again.
Restart ==
  /\ faults < MaxFaults /\ faults' = faults + 1 /\ disturbed' = TRUE
  /\ cache' = disk /\ enabled' = [x \in Places |-> enabled["disk"] /\ x \notin Procs] /\ running' = {}
  /\ stage' = [p \in Procs |-> IF p \in Calls /\ stage[p] # "idle" THEN "over" ELSE "idle"]
  /\ wr' = [p \in Procs |-> "load"] /\ draft' = [p \in Procs |-> AllGone] /\ stale' = {}
  /\ UNCHANGED <<kind, blank, atPassed, disk, starts>>

TaskNext == \/ \E p \in Procs : Load(p) \/ Land(p) \/ Written(p) \/ WriteFails(p)
            \/ \E k \in Ticks : Tick(k) \/ StartDue(k)
            \/ \E t \in Tasks : Ask(t) \/ Answer(t)
            \/ \E c \in Calls : \/ \E t \in Tasks : RunNow(c, t) \/ \E op \in Ops : Call(c, op, {t})
                                \/ Call(c, "enable", {}) \/ EndSync(c)
            \/ TimePasses \/ Restart

TaskSpec == TaskInit /\ [][TaskNext]_taskVars

\* The timer ticks, the clock goes on, and writes, requests and the watch of a turn end.
TaskFairness == /\ \A p \in Procs : WF_taskVars(Load(p) \/ Land(p) \/ Written(p))
                /\ \A k \in Ticks : WF_taskVars(Tick(k)) /\ WF_taskVars(StartDue(k))
                /\ \A t \in Tasks : WF_taskVars(Ask(t)) /\ WF_taskVars(Answer(t))
                /\ WF_taskVars(TimePasses)
TaskFairSpec == TaskSpec /\ TaskFairness

-----------------------------------------------------------------------------
\* A one-time task starts one turn - unless it is called, run or changed, a write of
\* another's is lost, a write or a request fails, or the application restarts.
OneTimeOnce == \A t \in Tasks : kind[t] = "at" /\ ~disturbed => starts[t] <= 1

\* The task is in the set with no run that would take it off.
Left(t) == t \in running /\ stage[t] = "idle"

\* The schedule and a task of it that repeats are enabled.
Scheduled(t) == kind[t] = "interval" /\ t \in Live \ blank /\ cache[t].on /\ enabled["cache"]

\* A task with a prompt that is scheduled is run again, whatever writes were lost and
\* whoever restarted - unless the task is deleted, it or the schedule is disabled, or it
\* is left in the set.
RunsAgain == \A t \in Tasks : Scheduled(t) ~> (stage[t] = "ask" \/ ~Scheduled(t) \/ Left(t))
=============================================================================
