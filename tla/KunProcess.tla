----------------------------- MODULE KunProcess -----------------------------
(***************************************************************************)
(* The desktop application and the Kun runtime it runs as a child process:  *)
(* ensureRuntime and the queue of settings to apply (main/index.ts), over   *)
(* startKunChild and stopKunChildAndWait (main/kun-process.ts).             *)
(*                                                                          *)
(* A step is what runs between two awaits. Settings are versions, all of    *)
(* them with automatic start, an API key and the same port. A process       *)
(* listens on the port when it is ready; a second one that tries dies.      *)
(***************************************************************************)
EXTENDS Naturals, Sequences, FiniteSets

CONSTANTS Callers,    \* calls of ensureRuntime
          Settings,   \* versions of the settings
          First,      \* the version at the start
          MaxChanges, \* bound of the changes of settings
          MaxDeaths,  \* bound of the processes that die by themselves
          MaxProcs,   \* bound of the processes spawned
          None        \* no process, no caller, no settings

ASSUME ProcessAssumption ==
  /\ "apply" \notin Callers /\ "quit" \notin Callers
  /\ None \notin Callers /\ None \notin Settings /\ None \notin Nat
  /\ First \in Settings
  /\ MaxChanges \in Nat /\ MaxDeaths \in Nat /\ MaxProcs \in Nat

Procs  == 1..MaxProcs
Actors == Callers \cup {"apply", "quit"}

VARIABLES at,             \* where each actor is
          with,           \* the settings it goes with
          mine,           \* the process it waits for
          awaits,         \* the call whose ensure a call waits for; None: its own
          memo,           \* runtimeEnsurePromise and runtimeEnsureFingerprint
          settings,       \* the saved settings (lastAppliedSettings)
          queue, queued,  \* the tasks of runtimeSettingsApplyPromise, how many there were
          target,         \* how many of them a call waits for
          proc, child,    \* the processes, and the one that `child` is
          well,           \* history: the calls during which the runtime was ready
          overlap, stale, \* history: see OneChild, SettingsTaken
          left,           \* history: the processes a stop did not see end
          deaths

processVars == <<at, with, mine, awaits, memo, settings, queue, queued, target, proc, child,
          well, overlap, stale, left, deaths>>

NoProc  == [state |-> "none", with |-> None]
Live(p) == proc[p].state \in {"starting", "ready", "ending"}
Healthy == \E p \in Procs : proc[p].state = "ready"
\* isKunChildRunning
Running == child # None /\ Live(child)

ProcessInit ==
  /\ at = [a \in Actors |-> "idle"] /\ with = [a \in Actors |-> None]
  /\ mine = [a \in Actors |-> None] /\ awaits = [c \in Callers |-> None]
  /\ memo = None /\ settings = First
  /\ queue = <<>> /\ queued = 0 /\ target = [c \in Callers |-> 0]
  /\ proc = [p \in Procs |-> NoProc] /\ child = None
  /\ well = {} /\ overlap = FALSE /\ stale = FALSE /\ left = {} /\ deaths = 0

Exited == at["quit"] = "exited"
Goto(a, where) == at' = [at EXCEPT ![a] = where]
At(a, where)   == at[a] = where /\ ~Exited

-----------------------------------------------------------------------------
(* ensureRuntime                                                            *)

\* A call starts an ensure of its own, and its promise is kept from now on: the
\* `finally` that would clear it compares it with another promise.
OwnEnsure(c, version) ==
  /\ memo' = [by |-> c, with |-> version]
  /\ Goto(c, "drain") /\ target' = [target EXCEPT ![c] = queued]

\* ensureRuntime, with the settings of the store.
Ask(c) ==
  /\ At(c, "idle") /\ with' = [with EXCEPT ![c] = settings]
  /\ IF memo = None THEN OwnEnsure(c, settings) /\ UNCHANGED awaits
     ELSE Goto(c, "pending") /\ awaits' = [awaits EXCEPT ![c] = memo.by] /\ UNCHANGED <<memo, target>>
  /\ well' = IF Healthy THEN well \cup {c} ELSE well
  /\ UNCHANGED <<mine, settings, queue, queued, proc, child, overlap, stale, left, deaths>>

Settled(c) == at[c] \in {"ok", "failed"}

\* It waited for another ensure, however that ended.
Wake(c) ==
  /\ At(c, "pending") /\ Settled(awaits[c])
  /\ IF memo.with = with[c] THEN Goto(c, "ok") /\ UNCHANGED <<memo, target, awaits>>
     ELSE OwnEnsure(c, with[c]) /\ awaits' = [awaits EXCEPT ![c] = None]
  /\ UNCHANGED <<with, mine, settings, queue, queued, proc, child, well, overlap, stale, left, deaths>>

\* waitForQueuedRuntimeSettingsApply, then the first look at /health.
Drained(c) ==
  /\ At(c, "drain") /\ queued - Len(queue) >= target[c]
  /\ Goto(c, IF Healthy THEN "ok" ELSE "port")
  /\ UNCHANGED <<with, mine, awaits, memo, settings, queue, queued, target, proc, child,
                 well, overlap, stale, left, deaths>>

\* reclaimKunPort: a process that is ending may still have the port.
CheckPort(c) ==
  /\ At(c, "port")
  /\ \/ (\E p \in Procs : proc[p].state \in {"ready", "ending"}) /\ Goto(c, "failed")
     \/ ~Healthy /\ Goto(c, "start")
  /\ UNCHANGED <<with, mine, awaits, memo, settings, queue, queued, target, proc, child,
                 well, overlap, stale, left, deaths>>

-----------------------------------------------------------------------------
(* startKunChild                                                            *)

\* Mutant: a child that runs is not looked at.
StartAnyway(a) == Goto(a, "config")

\* A child that runs is enough; else the config file is written, which takes time.
Starts(a) == Goto(a, IF Running THEN "health" ELSE "config")

Start(a) ==
  /\ At(a, "start") /\ Starts(a)
  /\ overlap' = (overlap \/ at["quit"] # "idle" \/ \E b \in Actors : at[b] = "config")
  /\ UNCHANGED <<with, mine, awaits, memo, settings, queue, queued, target, proc, child, well, stale, left, deaths>>

Spawn(a) ==
  /\ At(a, "config")
  /\ \E p \in Procs : /\ proc[p].state = "none" /\ \A q \in 1..(p - 1) : proc[q].state # "none"
                      /\ proc' = [proc EXCEPT ![p] = [state |-> "starting", with |-> with[a]]]
                      /\ child' = p /\ mine' = [mine EXCEPT ![a] = p]
  /\ Goto(a, "wait")
  /\ UNCHANGED <<with, awaits, memo, settings, queue, queued, target, well, overlap, stale, left, deaths>>

\* What ends an actor's start: for the queue it is one task less.
Ends(a, outcome) ==
  IF a = "apply" THEN Goto(a, "idle") /\ queue' = Tail(queue)
  ELSE Goto(a, outcome) /\ UNCHANGED queue

\* waitForKunStartup: the ready marker, an exit, or the timeout, which leaves the process.
Waited(a) ==
  /\ At(a, "wait")
  /\ IF proc[mine[a]].state = "ready" THEN Goto(a, "health") /\ UNCHANGED queue
     ELSE Ends(a, "failed")
  /\ mine' = [mine EXCEPT ![a] = None]
  /\ UNCHANGED <<with, awaits, memo, settings, queued, target, proc, child, well, overlap, stale, left, deaths>>

HealthSeen(a) ==
  /\ At(a, "health") /\ Ends(a, IF Healthy THEN "ok" ELSE "failed")
  /\ UNCHANGED <<with, mine, awaits, memo, settings, queued, target, proc, child, well, overlap, stale, left, deaths>>

-----------------------------------------------------------------------------
(* The settings: queueRuntimeSettingsApply, queueRuntimeMcpConfigApply      *)

\* Mutant: nothing is queued behind another task.
QueuedOnce(anchor) == IF queue # <<>> THEN queue ELSE Append(queue, anchor)

\* A task knows the settings before the change.
Queued(anchor) == Append(queue, anchor)

BeforeSpawn == {"drain", "port", "start", "config", "pending"}

\* The settings are saved; None stands for a changed MCP configuration.
Change(s) ==
  /\ ~Exited /\ queued < MaxChanges
  /\ settings' = IF s = None THEN settings ELSE s
  /\ queue' = Queued(IF s = None THEN None ELSE settings) /\ queued' = queued + 1
  /\ stale' = (stale \/ \E c \in Callers : at[c] \in BeforeSpawn)
  /\ UNCHANGED <<at, with, mine, awaits, memo, target, proc, child, well, overlap, left, deaths>>

\* The next task takes the settings as they are now; it restarts a child that runs, once
\* that is idle.
Take ==
  /\ At("apply", "idle") /\ queue # <<>>
  /\ IF Head(queue) # settings /\ Running
     THEN /\ Goto("apply", "waitIdle") /\ with' = [with EXCEPT !["apply"] = settings] /\ UNCHANGED queue
     ELSE queue' = Tail(queue) /\ UNCHANGED <<at, with>>
  /\ UNCHANGED <<mine, awaits, memo, settings, queued, target, proc, child, well, overlap, stale, left, deaths>>

-----------------------------------------------------------------------------
(* stopKunChildAndWait                                                      *)

\* Mutant: the child is forgotten when it is told to end.
ChildTold == None

\* It stays `child` until it has ended.
ChildStopping == child

\* SIGTERM to the child, if there is one.
Stop(a, after) ==
  IF child = None THEN Goto(a, after) /\ UNCHANGED <<proc, mine, child>>
  ELSE /\ Goto(a, "stopping") /\ mine' = [mine EXCEPT ![a] = child]
       /\ proc' = IF Live(child) THEN [proc EXCEPT ![child].state = "ending"] ELSE proc
       /\ child' = ChildStopping

AfterStop(a) == IF a = "apply" THEN "start" ELSE "exited"

StopForSettings ==
  /\ At("apply", "waitIdle") /\ Stop("apply", "start")
  /\ UNCHANGED <<with, awaits, memo, settings, queue, queued, target, well, overlap, stale, left, deaths>>

\* before-quit: the application ends once the child has.
Quit ==
  /\ At("quit", "idle") /\ Stop("quit", "exited")
  /\ overlap' = (overlap \/ \E a \in Actors : at[a] = "config")
  /\ UNCHANGED <<with, awaits, memo, settings, queue, queued, target, well, stale, left, deaths>>

\* The process told to end has ended, after SIGTERM or after SIGKILL, or it has not
\* KUN_STOP_FORCE_MS after that: it is forgotten either way.
Stopped(a) ==
  /\ At(a, "stopping") /\ proc[mine[a]].state \in {"ending", "dead"} /\ Goto(a, AfterStop(a))
  /\ left' = left \cup {p \in Procs : p = mine[a] /\ proc[p].state = "ending"}
  /\ child' = IF child = mine[a] THEN None ELSE child
  /\ mine' = [mine EXCEPT ![a] = None]
  /\ UNCHANGED <<with, awaits, memo, settings, queue, queued, target, proc, well, overlap, stale, deaths>>

-----------------------------------------------------------------------------
(* The processes                                                            *)

\* The exit handler forgets the child if it still is the child.
Gone(p) == child' = IF child = p THEN None ELSE child

Ready(p) ==
  /\ proc[p].state = "starting"
  /\ \E taken \in BOOLEAN :
         /\ (\E q \in Procs \ {p} : proc[q].state = "ready") => taken
         /\ taken => \E q \in Procs \ {p} : proc[q].state \in {"ready", "ending"}
         /\ proc' = [proc EXCEPT ![p].state = IF taken THEN "dead" ELSE "ready"]
         /\ IF taken THEN Gone(p) /\ UNCHANGED well
            ELSE UNCHANGED child /\ well' = well \cup {c \in Callers : at[c] # "idle" /\ ~Settled(c)}
  /\ UNCHANGED <<at, with, mine, awaits, memo, settings, queue, queued, target, overlap, stale, left, deaths>>

End(p) ==
  /\ proc[p].state = "ending" /\ proc' = [proc EXCEPT ![p].state = "dead"] /\ Gone(p)
  /\ UNCHANGED <<at, with, mine, awaits, memo, settings, queue, queued, target, well, overlap, stale, left, deaths>>

Die(p) ==
  /\ proc[p].state \in {"starting", "ready"} /\ deaths < MaxDeaths /\ deaths' = deaths + 1
  /\ proc' = [proc EXCEPT ![p].state = "dead"] /\ Gone(p)
  /\ UNCHANGED <<at, with, mine, awaits, memo, settings, queue, queued, target, well, overlap, stale, left>>

ProcessNext ==
  \/ \E c \in Callers : Ask(c) \/ Wake(c) \/ Drained(c) \/ CheckPort(c)
  \/ \E a \in Callers \cup {"apply"} : Start(a) \/ Spawn(a) \/ Waited(a) \/ HealthSeen(a)
  \/ \E s \in (Settings \ {settings}) \cup {None} : Change(s)
  \/ Take \/ StopForSettings \/ Quit
  \/ \E a \in {"apply", "quit"} : Stopped(a)
  \/ \E p \in Procs : Ready(p) \/ End(p) \/ Die(p)

ProcessSpec == ProcessInit /\ [][ProcessNext]_processVars

-----------------------------------------------------------------------------
\* Every process that lives is the child, which a quit ends, or one that was told to end
\* and had not when the stop gave up - unless two starts ran at once, or the application
\* quit during one (startKunChild looks, waits, and spawns).
OneChild ==
  ~overlap => \A p \in Procs : Live(p) => \/ p = child /\ ~Exited
                                          \/ p \in left /\ proc[p].state = "ending"

\* When all is quiet, a child that runs has the settings last saved, even if two starts
\* ran at once - unless they were saved while an ensure that had read the old ones was
\* yet to start it.
SettingsTaken ==
  (/\ \A a \in Actors : at[a] \in {"idle", "ok", "failed"}
   /\ queue = <<>> /\ Running /\ proc[child].state # "ending")
    => (stale \/ proc[child].with = settings)

\* A call of ensureRuntime that returns without an error has found the runtime ready
\* since it began ("re-evaluate ... so callers don't inherit a stale result").
EnsuredMeansReady == \A c \in Callers : at[c] = "ok" => c \in well
=============================================================================
