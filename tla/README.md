# Models of the Kun runtime

This directory holds TLA+ models of OpenCodex Desktop, the TLC runs that check
them on small instances, and proofs of their central properties for every
instance. Paths below are relative to the repository's root.

- [The system](#the-system)
- [What makes it hard, and what makes it right](#what-makes-it-hard-and-what-makes-it-right)
- [The modules](#the-modules)
- [The runs](#the-runs)
- [What is proved](#what-is-proved)
- [Where the code and its documentation disagree](#where-the-code-and-its-documentation-disagree)
- [What is not modelled](#what-is-not-modelled)
- [The plan](#the-plan)

To parse, check and prove (in this directory):

    tlasany EventLog.tla
    tlc -workers 2 -config MCDesktop.cfg MCDesktop
    tlapm EventLogProofs.tla

## The system

OpenCodex Desktop is an Electron application (`src/main`, `src/preload`,
`src/renderer`, `src/shared`) around an agent runtime, Kun (`kun/src`), which it
starts as a child process and talks to over HTTP and server-sent events. A
command-line client and a VS Code extension (`clients/`) are clients of the same
interface. A *thread* is a conversation, a *turn* is one run of the agent in it,
an *item* is a message, a tool call or a result, and an *event* tells clients of
a change. Kun is one Node.js process: nothing runs in parallel in it, and
everything interleaves at its `await`s.

| component | where | state | operations | talks to |
|---|---|---|---|---|
| event path | `services/runtime-event-recorder.ts`, `adapters/in-memory-event-bus.ts`, `server/routes/events.ts`, `server/node-http-server.ts`, `src/main/runtime-sse-ipc.ts` | sequence counter and subscribers per thread, `events.jsonl`, the open streams, the client's cursor | stamp, publish, append, replay, subscribe, heartbeat, reconnect | everything that records an event |
| turn lifecycle | `services/turn-service.ts`, `loop/agent-loop.ts`, `loop/steering-queue.ts`, `loop/inflight-tracker.ts` | status of turn and thread, open items, abort controllers, the steering queue, operations in flight | start, steer, interrupt, the loop of model steps and tool calls, finish | event path, stores, gates, tools |
| thread record | `upsertThread` in `services/turn-service.ts`; `services/thread-service.ts`, the goal and budget code of `loop/agent-loop.ts` | one JSON record per thread, a promise chain per thread | read, change, store | stores |
| file mutation lock | `adapters/tool/file-mutation-queue.ts` | promise chain per file, lock directory per file | queue, lock, take over a dead owner's lock, give up, release | file tools, other processes |
| approval gate | `adapters/in-memory-approval-gate.ts`, `server/routes/approvals.ts`, `adapters/tool/local-tool-host.ts` | approvals and waiting calls by id | request, decide, veto by a hook | tools, clients, hooks |
| user-input gate | `adapters/in-memory-user-input-gate.ts`, `server/routes/user-inputs.ts` | questions by id | ask, answer, cancel, abort | the loop, clients, hooks |
| delegation | `delegation/delegation-runtime.ts`, `child-agent-executor.ts` | one file per child run, the count of active runs | check budgets, run, store and announce the outcome | a second agent loop, the parent's event log |
| loop scheduler | `services/loop-scheduler-service.ts`, `adapters/file/file-loop-store.ts` | recurring prompts, active loops; one file per loop behind a cache | tick, run, expire; create, pause, resume, cancel, delete, update | turns, clients |
| session store | `adapters/file/file-session-store.ts`, `adapters/hybrid/*` | `messages.jsonl`, `events.jsonl`, an SQLite index | append, patch, rewrite, compact, read | all services |
| goals | the goal code of `loop/agent-loop.ts`, `services/goal-evaluator-service.ts`, `services/thread-service.ts` | the goal in the thread's record | set, clear, time, evaluate | the loop, the model, clients |
| checkpoints | `services/checkpoint-service.ts` | a snapshot per checkpoint: commit, two patches, a bundle of untracked files | create, restore, fork, delete | git, the workspace |
| runtime process | `src/main/index.ts`, `src/main/kun-process.ts` | the child, the ensure in progress, the queue of settings to apply | ensure, start, restart for settings, stop at quit | Kun, the operating system |
| desktop scheduler | `src/main/schedule-runtime.ts`, `src/main/settings-store.ts` | the tasks in the settings, cached and on disk; the ids that run | tick, run, create, change, delete | Kun, the settings |
| chat store | `src/renderer/src/store/*` | the active thread, its blocks and cursor, busy and turn, the queue, the stream, the watchdog | select, send, queue, interrupt, recover, dispatch | Kun through IPC |
| request history | the history code of `loop/agent-loop.ts`, `loop/context-compactor.ts`, `domain/model-history-repair.ts`, `adapters/model/deepseek-compat-model-client.ts` | the items of `messages.jsonl`, the summaries among them, the messages of a request | heal, fold, repair, turn into messages; write calls and results; compact for a client | session store, model client, tools |
| usage, caches, hooks, review, memory, remote runner and others | see `PROJECT.json` | | | |

`PROJECT.json` lists every component with its sources and whether it is modelled.

## What makes it hard, and what makes it right

The hazards, each at its line, are in `PROJECT.json`. They come from five sources.

1. **State read before an `await` and used after it.** `record` allocates its
   number before it reads the file; the stream reads the backlog before it
   subscribes; budgets are checked before the run is counted; the hooks run
   between the look-up of an approval and its decision; a patch of an item, of a
   goal or of the scheduler's tasks writes back the whole of what it read. *Right:*
   numbers follow real time, nothing is shown twice, counts are exact, an accepted
   answer is the one that is used, what was acknowledged is not lost.
2. **State shared by those who believe they are alone.** One steering queue for
   all turns, one status for all turns of a thread, approval ids made from call
   ids, one `sseAbortRef` for all streams of the window, one promise for all calls
   of `ensureRuntime`. *Right:* what goes wrong goes wrong only when two meet, and
   even then every turn ends settled and the chat becomes free again.
3. **Two ends of one life.** `finishTurn` and `interruptTurn` race; an abort races
   an answer; a cancel races an expiry; a quit races a start. *Right:* one outcome,
   no tool after the signal, nothing left open, no process nobody knows.
4. **Failures in the middle.** A store throws after the record was announced, a
   writer throws with the lock in its hands, a process dies between `mkdir` and
   `owner.json`, a line is written by half, the application ends between the mark
   that a task runs and the word that it has. *Right:* slots, locks and queues are
   released, or known to be left; what is stored, announced and returned agrees.
5. **Waiting.** For a lock, an approval, an answer, a chain of promises, a stream.
   *Right:* who waits is released, or waits for the user or a child and for nothing
   else.

## The modules

A step of a model is what the code does between two awaits. Where a step's
result depends on what is not modelled (the model's answer, a tool's success, a
hook's decision) it is chosen. `PROJECT.json` maps each definition to its lines.
Definitions marked *Mutant* are plausible mistakes in the code; each property is
known to fail when one of them takes the place of the definition it varies.

### EventLog

One thread's events and one desktop client. `pc`, `alloc`, `persisted` and `seq`
are the locals of the calls of `record` in progress; `counter` is the bus's
counter, `log` the file, `stream` the server's side of each connection, `wire`
what is in the current one, `cursor` and `seen` the client's position and what it
has shown. `AllocateSeq`, `ReadHighestSeq`, `Publish` and `AppendEvent` are
`record`; `Connect`, `LoadBacklog`, `Subscribe` and `SendHeartbeat` the route;
`Receive` and `Drop` the client and its network; `Restart` kills the runtime and
forgets all but the file. `began` is a history variable: the calls that had
returned when a call began.

### TurnLifecycle

All turns of a runtime, each with up to `MaxSteps` model steps, at most one tool
call per step. `start`, `loop` and `intr` are the program counters of
`startTurn`, `runTurn` and `interruptTurn`, of which each turn has one of each
running at once. `record`, `threadStatus` and `open` are the thread record and
the items that are pending or running; `inflightTurns`, `aborted` and `inflight` the controllers,
signals and the tracker; `queueTurn` and `buffer` the steering queue that all
turns share. `sentTo`, `late`, `injected` and `alone` are history variables; `alone`
says that no client has started, steered or interrupted a turn while another was
under way. A tool computes (`"tool"`), asks the user or waits for a child (`EndWait` is
the end of either wait). A run comes to its outcome by `Return` or, when something
throws, by the catch of `runTurn` (`Throw`, which sets `caught`). The three steps of
`finishTurn` may throw as well, with a part of their work done (`FailFinish`): then the
turn is finished once more as failed, or, if it was being finished from the catch
already, `runTurn` rejects. Updates of the record are atomic here, which ThreadUpdates justifies.

### ThreadUpdates, AtomicUpdates

The writers of one thread record. AtomicUpdates is the abstract specification:
each update takes effect once, in one step, on the record as it is. ThreadUpdates
is the code: `Enqueue` joins the chain (`tail` is the entry of the map), `Begin`
follows its predecessor, `Read` and `Write` or `Fail` are the update, `Release`
removes the entry if it is still the call's own. Callers in `Direct` (ThreadService,
the goal and budget code) read and write without the chain. ThreadUpdates
implements AtomicUpdates until such a caller has ended
(`Atomic == INSTANCE AtomicUpdates WITH ...`; the record is the same in both).

### FileMutationLock

The calls that write one file, in several processes. `tail` and `previous` are
the chain of each process, `made`, `owner` and `old` the lock directory, its
`owner.json` and its age. A file that is not there yet is known by the path it
was given, so that a path through a linked directory (`Linked`) gives it a second
key. Every file operation is a step of its own; processes in `Crashes` may die
between any two. Whoever gives a lock back, or removes one he found dead or stale,
removes what is there by then, and the `rm` may fail (`FailRemoval`): a call that gives
its lock back ignores that, one that removes another's fails. Four history variables are
for the properties: `before`, the calls that had joined a queue earlier; `seen`, the
call that made the lock somebody is about to remove; `raced`, the keys of which another
lock than that was removed; `kept`, the calls whose `rm` of their own lock failed.

### ApprovalGate, UserInputGate

The two gates with the routes that answer them. `call` (`wait`) is where the tool
is, `approvals` and `resolvers` (`requests` and `outcome`) the gate's maps, and
the posts are the clients' requests, in the hooks between their look-up and their
decision (`Decide`, which releases the call). A post is answered after that, when
`approval_resolved` has been recorded (`Answer`), and may fail in between. Approval
ids may be shared by calls (`IdOf`); questions have ids of their own. A question is
tied to the signal of its turn (`Abort`), an approval is not.

### DelegationRuntime

`runChild`, from the checks (`Call`, `List`) over the record (`BeginWrite`,
`EndWrite`: in between the file cannot be parsed) and the count (`Start`) to the
outcome, the catch and the finally. Every store and every event may fail
(`Faults`), the parent or the timeout may abort, and the runtime may restart.
`overlapped` is a history variable: two calls were between the first check and
the count at once.

### RequestHistory

What the model is sent. `items` is `messages.jsonl` as `loadItems` returns it: the
latest item of each id, where it was written last (`Put`). `Request` is a model step up
to the request: the file is healed (`Repair`), and what follows the latest summary
becomes messages (`Messages`, `Healed`), those of `sent`; `RequestFolded` folds first
(`Compacted`). `ReceiveCall` and `EndStream` write the response; `Dispatch` chooses what
a call comes to (`Outcome`: a result, with parts shown or a question asked before it,
a suppressed storm, a refused approval, a hook's denial), and `WriteNext` writes it one
item at a time. `Fail`, `Crash` and `Interrupt` may come anywhere; `WriteLate` is the
loop that an interrupt leaves behind. `LoadCompact` and `AppendCompact` are a client's
compaction, which reads the file and adds its summary later. Two history variables:
`owed`, the results of tools that nothing has replaced, and `mixed`, that two loops,
or a loop and a client's compaction, wrote into each other. Reading and writing the
file are atomic, tools run one after the other, and a summary names all results it
was made from (it has room for twenty items).

### LoopScheduler

The scheduler of recurring prompts over its store. A call of a client takes an id
(`create`) or names a loop, comes to the store (`EnterStore`, which starts the load
of the files if nobody has), changes the record in the cache and waits for the
write of the file; a delete whose `unlink` fails is answered all the same
(`FailUnlink`). A tick (`Tick`, `GetDue`, `LookBusy`, `LookFree`) reads the loops
that are due and starts runs that it does not wait for (`Run`, the writes,
`Finally`). `Restart` empties the cache and the id generator and leaves files
that are written, as before, or torn. Times are left out: a loop with a next run
may be due at any time. A loop is named by the call that created it (`by`), since
its id comes again after a restart. `ended` are the loops whose cancel or delete was
answered, `stuck` those of them whose file could not be removed, and `back` the ones
that a restart found again.

### GoalEvaluation

The goal in a thread's record and the four that read it, wait, and write it: a
turn's timer, the evaluation after a turn, and the calls of users and of goal
tools. Of the evaluator it has the budget (`Exhausted`) and any verdict. `crossed`
marks that one overwrote what another wrote, or two evaluations met. Each of the four
may fail before it has written (`FailEval`, `FailTimed`, `FailSet`), which is also what a
restart does to it; `lost` counts the answers of the evaluator that were never written.

### SessionStore

`messages.jsonl` and `events.jsonl` of one thread. Appending a line, patching an
item (which appends what was read with the change), rewriting without an item,
and the compaction of usage events after an append that made the file large. An
append may fail with nothing or half a line in the file (`torn`), and the line
after half a line is lost with it. `owed` is what acknowledged calls have a right
to find in the files. (Its names are its own, `SessionNext`, `SessionSpec`, since
MCServices extends it and ApprovalGate.)

### Checkpoints

A git workspace as `head`, index and working tree of every file, and the commands
of `create` (tree, status, bundle, staged and unstaged diff), `restore` (checkout,
two patches, clean, extract), `fork` into a worktree and `delete`, one command per
step. A patch fits a file that has the content it starts from. The user, or a
tool of another turn, may write, add, unstage and commit between any two commands;
`given` is the workspace a checkpoint is of, as long as nobody wrote while it was taken;
`fair` marks the restores and forks where nobody did while they ran. (Its names are its
own, `RewindNext`, `RewindSpec`, since MCWorkspace extends it, FileMutationLock and
ChatStore.)

### KunProcess

The desktop's side of the runtime's process. `Ask`, `Wake`, `Drained` and
`CheckPort` are `ensureRuntime` with the promise it keeps (`memo`); `Start`, `Spawn`,
`Waited` and `HealthSeen` start a child; `Change`, `Take` and `StopForSettings` are the
queue of saved settings; `Quit` is `before-quit`. Processes become ready, end and die
in their own time, and one port is theirs to share. A stop (`Stop`, `Stopped`) ends
when the process has, or `KUN_STOP_FORCE_MS` after SIGKILL; `left` are the processes it
gave up on. `overlap` and `stale` are history
variables: two starts, or a start and a quit, ran at once; settings were saved while an
ensure that had read the old ones was yet to start a child. (Its specification is
`ProcessSpec`, since MCDesktop extends EventLog and KunProcess.)

### ScheduleRuntime

The tasks of the desktop's scheduler in the settings. Everybody who changes a
task loads the settings, changes the array and patches the whole of it (`Load`,
`Land` in the cache, `Written` on disk): the runs of tasks, the ticks, the calls.
`WriteFails` and `Restart` may come anywhere. Times are none, future or past. `enabled`
is `schedule.enabled`, without which ticks and `ensureNextRuns` do nothing, and which
travels with every write of the settings; `blank` are the tasks with an empty prompt,
which are not run. (Its
names are its own, `TaskNext`, `TaskSpec`, since MCUpdates extends it and ThreadUpdates.)

### ChatStore

The renderer's store and the runtime as it sees it: per thread a log of events.
`ui` is the store, with the operations under way (`op`) and the open streams
(`streams`, of which `ref` is the one that `sseAbortRef` holds). `Type`, `Select` and
`Interrupt` are the user; `EndLoad`, `Answer`, `Return` and the failures are what
requests come to; `Deliver` dispatches a batch; `Watchdog` is the busy watchdog. The
calls the store makes of itself (drain the queue at the end of a turn, recover
after a broken stream) are part of the step that makes them. A turn ends by
`turn_completed` or `turn_aborted`, by `turn_failed`, or by a `turn_failed` whose error
reads like an interrupt (`EndKinds`); the last two, and the errors of a stream, come to
`onError` (`Errored`), which does not drain the queue and keeps the store busy, with the
watchdog armed, unless the error reads like an interrupt. `crossed`, `overlap` and
`early` are history variables: a send failed, or a recovery ended, in another thread
than the active one; loads and sends overlapped; a turn was taken for ended that was
not. (Its names are its own,
`ChatNext`, `ChatSpec`, since MCWorkspace extends it and FileMutationLock.)

### Proof modules and MC modules

`<Module>Proofs` extends the module and holds its theorems (ServicesProofs those of
ApprovalGate, GoalEvaluation, LoopScheduler and SessionStore, ThreadUpdatesProofs also those of
ScheduleRuntime, FileMutationLockProofs also those of ChatStore and Checkpoints, and DelegationRuntimeProofs
also those of RequestHistory; what
meets there has names of its own, `GoalNext` or `ChatNext`); `MC<Module>` extends it for TLC and defines
the constants that are functions. MCDesktop, MCServices,
MCWorkspace, MCUpdates, MCProgress and MCDelegation check several modules, or
several instances of one, in one run each: they share no
state, so that the variable `part`, chosen in the initial state, says which of them
moves, and the others stay in an initial state.

## The runs

| run | instance | shows |
|---|---|---|
| `turn_lifecycle` | 2 turns of one thread, 1 step, 1 steering text, interrupts, finishing that fails | settled turns, one outcome (two when finishing failed), no tool after the signal, no text left in the queue that was injected or whose turn ended; steering and the thread's status are right while clients deal with one turn at a time |
| `turn_cancel` | 1 step, fair | *violation:* an interrupted turn that waits for an approval does not end |
| `delegation` | *children:* 3 runs of 2 parents, one asks for an approval, budgets of 1, 2 and 1, faults, 1 restart. *requests:* 2 turns, 1 fault, fold or compaction; 2 steps with 2 calls, which come to anything, or 3 steps with 1 call, whose name is used again | the count is right, outcomes agree, the parallel budget holds for calls that do not meet in the checks. Calls and results are paired, in the file and in what is sent; what a tool answered reaches each later request, in full or through the summary |
| `desktop` | *events:* 3 calls of `record`, 2 connections, 1 heartbeat, 1 restart. *process:* 2 callers, 2 changes of settings, a quit, stops that give up, 1 process that dies, 4 spawned | numbers follow real time; the client sees each event once and in order; a stream delivers the backlog asked for. One child lives and a quit ends it, and nothing else but what a stop gave up on, unless two starts, or a start and a quit, ran at once; when all is quiet the child has the settings last saved, even then |
| `services` | *approvals:* 3 calls, 2 with one id, 3 posts, any of which may fail. *loops:* 3 calls, 2 ticks, one run at a time, 1 fault, deletes that leave the file. *goals:* 2 turns, 2 calls, 2 objectives, 2 iterations, failures anywhere. *session:* 3 calls, 2 items, 2 models, 1 fault | a call goes on only with a post that allowed it and that no hook vetoed; runs are counted, ended loops stay ended (a deleted one whose file stayed, until a restart); evaluations stay below the budget, but for lost answers; what was acknowledged is found, days keep their usage |
| `workspace` | *queue:* 3 calls of one process, two keys. *lock:* 1 call of each of 3 processes, one of which may die; removals may fail. *checkpoints:* 2 files with 2 contents, any workspace, 1 checkpoint, 1 restore or fork, 2 steps of a user. *chat:* 2 threads, 2 messages, 1 selection or interrupt, 1 failure, turns that fail, 4 events | one writer per key until a wrong lock is removed, in order, no lock left but by the dead and by failed removals; restore and fork give back the workspace exactly; messages run where they were typed, text is shown once, one turn at a time |
| `updates` | *thread:* 3 calls in the chain, 1 outside, any may fail, fair. *schedule:* 1 task, with a prompt or without, 1 tick at a time, 1 call, which may disable the schedule, 1 fault, fair | in order, the refinement of AtomicUpdates, the queue drains behind failures; a one-time task starts one turn, a repeating one is run again while it is scheduled |
| `progress` | *questions:* 2, with 3 posts. *lock:* 2 calls of one process, 1 of another that may die, two keys. *events:* 2, with 2 connections, 1 restart. *turn:* 1 of 2 steps, 1 text, interrupts, finishing that fails; all fair | an accepted answer stands, an abort releases, calls of the lock end, what was recorded when the client connected reaches it or the connection ends; a turn that runs ends or waits for ever: for an approval, an answer or a child |
| `event_log_gap` | 3 events, 2 connections | *violation:* an event between backlog and subscription is in neither |
| `ensure` | 2 callers, 2 changes, 1 death | *violation:* a call of `ensureRuntime` returns without an error and without a runtime |
| `free_again` | 2 threads, 1 message, 1 failure, fair | *violation:* a selection that fails leaves the chat busy for ever |
| `reassembled` | 2 calls of one response | *violation:* they are sent as two assistant messages, not as one |

**Bounds.** Every bound is a constant. Three calls of `record` are the fewest for
which one can begin after another returned while a third is between its number
and the file; two connections are a reconnect; one restart makes the counter
start again over a file. Two turns are what sharing takes: one that uses the
queue, the status or the tracker, and one that disturbs it. One step already has
every state of the loop, with the step limit after it. One text distinguishes kept,
lost, twice and wrong. Three queued updates make a chain with a middle, in which
the entry is deleted and made again. Three calls of one process make a queue
whose end may be deleted and begun again under a call; three processes are one that
dies and two that find its lock. Three posts let two race about one
call while a third goes elsewhere. Three child runs, two with one parent, are two
that meet in the checks and one that has other records. Two callers of
`ensureRuntime` are one that starts and one that waits for it; two changes of
settings are one that restarts the child and one that comes meanwhile; four
processes are more than these can spawn. Three calls to the loop store are a loop,
a second loop or the end of the first, and a change that races it; two ticks
overlap. Two iterations are a budget with one evaluation below it. Three calls to the
session are a patch between a read and a write with a third to look at the
outcome. Two files with two contents let every file be outside the tree,
changed in the index, in the working tree, in both or in neither. Two threads are
one to leave and one to come to; two messages are one that runs and one that waits.
Two calls in a response are a block that can be split, doubled or half answered; three
steps are a fold, or a name used again, with a request before it and one after.

Three MC modules have a state constraint (`Bound`). That of MCServices prunes what
says nothing more: ticks that begin when no call is left to come, goals after they
were marked as crossed (the property says nothing of them), and sessions whose calls
are about both files at once (the files share nothing but the calls). That of
MCDelegation leaves out what follows the last request, and lets a history meet one
fault or one fold; that of MCWorkspace leaves out what becomes of a checkpoint,
restore or fork that was disturbed, of which nothing is said, and of a chat once all
that its invariants except has happened; it gives the queue the calls of one process and
the lock one call of each, and the two threads of the chat four events between them (two
turns with a text and an end, or three that fail at once).

**Symmetry** is used where nothing distinguishes the values and only safety is
checked: events, connections, turns of one thread, texts, ticks and models,
objectives and items, files and threads, names of calls, child runs of one parent.

**Deadlock** is not checked: the instances have finitely many calls, turns and
posts, and stop when they are used up. Whether something waits for ever is what
the liveness properties are for.

**Fairness** is what the code's own scheduling gives, and never that a client
acts. Promises settle: the file system and the event log answer or fail (weak fairness
of each step of a call that has begun). A process that has not died goes on, and a
waiting call's clock runs, so that it reaches its deadline although it keeps
returning to `mkdir` (strong fairness of `GiveUp`, which is enabled again and
again and not continuously). The stream's client reads what is there while it is
connected. The scheduler's interval timer ticks, and the clock goes on. In the chat
requests are answered, streams deliver, timers fire and turns end. Nobody has to
decide an approval, answer a question, open a connection or start a turn, and the run of
a child need not end (its own tools may wait for an approval nobody can give):
`EndsOrWaits` therefore says *ends, or waits for an approval, an answer or a child*. A
question does not keep a turn whose signal has fired. A hook's script is killed at
its time limit (`services/hook-service.ts:368`), and a tool that waits for nobody is
taken to end. The
runs with several parts repeat the fairness of each module for its own part.

## What is proved

`tlapm` checks the following for every value of the constants that the named
assumptions allow. These say that functions have their domains (`ThreadOf`, `ProcOf`),
that `None`, `Absent`, `NoTurn`, `NoStream`, `Nil`, `Torn`, `Missing`, `NoGoal` and `Deleted` are none of the values, that
tasks, calls, ticks and runs, objectives and statuses, or the workspace and its forks, are told apart, that counts and bounds
are naturals (`MaxSteps` and `MaxIterations` are at least one), what a response may say and its calls
may come to in RequestHistory, and, for EventLog, DelegationRuntime and LoopScheduler, that there are
finitely many calls. In brackets is the property of a run that the theorem
states.

| module | theorem | by |
|---|---|---|
| TurnLifecycleProofs | `TypeCorrect`, `Settled` (`SettledWhenOver`), `Outcome` (`OneOutcome`) | `TurnsInv`: for each turn, what its three program counters say of its status, its items, its controller, what is in flight and what was announced. Only the catch of `runTurn` announces a second time, and then says failed (`ToldBefore`, `ToldTwice`). What the steps of a turn do is stated once (`ModelStepKind`, `ToolStepKind`: they go on or finish; `OnlyItsTurn`: they leave the other turns alone) |
| | `SignalHolds` (`NoToolAfterSignal`) | the only steps that go to `"tool"` look at the signal |
| | `StatusRight` (`ThreadStatusRight`) | `ThreadsInv`: a thread that runs has a turn that goes on (`RunningHas`); while clients deal with one turn at a time all others are quiet (`AloneMeans`). Both are needed: `finishTurn` of any turn writes `"idle"` |
| | `SteeringCorrect` (`SteeringRight`) | `SteeringInv`: the queue holds texts of the turn it belongs to, and belongs, one turn at a time, to the one that is not quiet (`QueueFollows`); every text for it is in the queue or injected (`NothingDropped`). `QueueStep` says that a step leaves the queue alone, clears it at the end of a turn, drains it, or gives it to a turn |
| EventLogProofs | `TypeCorrect`; `SeqOrder` (`SeqFollowsRealTime`): a call of `record` that begins after another returned stamps a larger number | `SeqInv`: what has returned is in the file, nobody who is counted as returned is forgotten, and what a call read from the file bounds the numbers of those before it. Without the last part the step that stamps the number has nothing to compare with |
| | `SeenOnce` (`SeenOnceInOrder`) | `Order`: what has been seen lies at or below the client's position; what is on its way has the number it was stamped with, and follows what was seen and what is before it (`Follows`: another event, which had not returned when that one began) |
| | `BacklogWhole` (`BacklogComplete`) | `Supply`: before it is live a stream has sent nothing, and its backlog holds what was recorded before it connected (`BacklogHolds`: the sorted file from a number on has every event above it) |
| ThreadUpdatesProofs | `TypeCorrect`, `Isolated` (two calls of the chain are never between read and write at once), `Ordered` (`InOrder`) | `ChainInv`: the map's entry is the last call of the chain and is missing only when all have settled; a call waits for the last of those before it; of two calls in the chain one is before the other. Exclusion alone is not inductive, since the entry is deleted and made again |
| | `NothingLost` (`AtomicUntilDirect`), `Implements` (AtomicUpdates, without callers outside) | `CopyCurrent`: who is about to write holds the record as it is; every step is then one of AtomicUpdates or leaves the record alone (`StepIsAtomic`) |
| | *tasks:* `TasksTypeCorrect`, `StartsOnce` (`OneTimeOnce`) | `TaskInv`: a run that is under way is in `runningTaskIds` (`RunsInSet`), so that a task has one; while nothing is disturbed, what is about to be written enables no one-time task that is off, unless it was overtaken (`DraftsKeepOff`), and a one-time task that has started a turn is in its run or off (`StartedOrOff`) |
| FileMutationLockProofs | `TypeCorrect`, `Ordered` (`InOrder`) | `QueueInv`: a call waits for one call only, so that all who came before it must be behind that one (`Chained`), and the map's entry, which is deleted and made again, must have every call of its chain that has not ended before it (`TailLast`) |
| | `Exclusive` (`OneRuns`), whoever dies and whatever removal fails | `LockInv`: until a wrong lock is removed, who holds a lock made the directory that is there, which names its process (`HoldersOwn`); what somebody is about to remove is of a call that is past (`CondemnedPast`), and before anything was left behind nobody is (`NothingCondemned`) |
| | `NothingLeft` (`NoLockLeft`), likewise | `LeftInv`: who made a directory holds it, died, or could not remove it, and who died did so with its process |
| | *chat:* `ChatTypeCorrect`, `RunsWhereTyped` (`SentWhereTyped`) | `Placed`: what waits was typed in the thread that is active, and what is on its way, with the queue it would put back if it failed, in the thread it is for. One lemma for each thing the store does between two awaits (`DrainKeeps`, `SelectedKeeps`, ...); a batch of events is taken by induction on its length (`BatchExists`, `DispatchedKeeps`) |
| | `OneTurnAtATime` (`TurnAfterTurn`), `TextShownOnce` (`ShownOnce`) | `OneAtATime`, with the exceptions of the two: the events of a thread are in turn (`InTurn`: a turn begins when none runs), and for the store `OrderOf`: one load or send is under way; there is one stream, for the active thread and at its cursor, and none during a load or a send; of the events to come only the first may begin a turn, and when the store is not busy there are none (`Ahead`); the store knows the turn that runs unless a send has just begun it (`KnowsTurn`). The text is a consequence: a batch extends it event by event (`AmidStep`), and the end of a turn, of whichever kind, can only be the last event of a batch (`DoneIsLast`), so that the queue is drained when the log is read to its end |
| | *checkpoints:* `RewindTypeCorrect`, `RestoresExactly` (`ReconstructsInTree`) | `RewindInv`: as long as a checkpoint is exact the workspace and the commit are those it began with, and each command has taken what git says of them (`TakenOf`: the untracked files, then the two patches as differences, `IsDiff`); each command of a restore or fork has brought index and files one step further, but for the files the checkout leaves (`MadeOf`). One lemma per command says that it does (`CheckoutBrings`, `StagedBrings`, `UnstagedBrings`, `CleanBrings`, `ExtractBrings`); a write disturbs whoever is at work in the same place (`WriteKeeps`) |
| ServicesProofs | *approvals:* `TypeCorrect`, `Allowed` (`AllowedByPost`), `PendingWaited` (`PendingIsWaitedFor`) | the resolver of an id is the waiting call of a pending approval; a post that has decided for a call keeps what it decided until it is answered |
| | *goals:* `GoalTypeCorrect`, `EvaluationsBounded` (`EvaluationsCapped`) | `GoalsCounted`, until something crosses: one evaluation at a time; a goal counts how often the evaluator was asked about it, but for the answers that are lost and one not yet written (`CountKept`); a goal that a call is about to write was never asked about, and no two calls write the same (`Fresh`). Without `Fresh` a goal could be born with questions it does not count |
| | *loops:* `LoopTypeCorrect`, `LoopsCounted` (`RunsCounted`) | `RunsInv`: while ticks do not overlap one tick is under way, the loops that run are the active ones, each once, and what the tick looks at is not active, with room for it. The runs are counted by the bijection to their loops |
| | `EndedForGood` (`EndedStaysEnded`) | `MadeOnce`: a call makes one loop, and nothing holds its record before, so that an id that comes again is told from the loop that had it. `EndedInv`, until two loads or writes meet: while an actor loads nothing else is under way; the cache holds what is being written; what has ended is over in the cache and in the file (`Kept`), and so in each write, but for a deleted loop whose file stayed, which the cache has not before it is loaded again |
| | *sessions:* `SessionTypeCorrect`, `OwedIsFound` (`NothingOwedIsLost`) | `SessionInv`: what is owed of an item is in its last line of the file (`ShowsLast`); so does what a call that patches or rewrites has read and will write (`ReadRight`, `WillShow`), since what lands while another holds the file is not owed. What the steps of the file do to the last line of an item is stated for a line put at the end, for half a line, and for the compaction of usage (`CompactRecords`, by induction on the lines: `LinesAt`, `TakesExists`) |
| | `DaysAsRecorded` (`DaysKeepTheirUsage`) | `DayInv`, until usage events are written at once: the file, and what is about to replace it, are in order and have, at the start of each day from the cutoff on, the level of what was recorded (`AsRecorded`). The usage of a day is what the level grows by (`DayIsGrowth`, by induction on the lines); compaction keeps the level, since the event it is taken from is the last of its day and model or the last before the cutoff (`CompactLevels`, over `AtInOrder`); a crash sets the count to the last level (`AsRecordedRestart`) |
| UserInputGateProofs | `TypeCorrect`, `PendingWaited`, `Stands` (`AnswerStands`) | the outcome, the wait and the answers of the posts are linked |
| DelegationRuntimeProofs | `Agreed` (`OutcomeAgrees`) | what the copy, the file and the log hold at each place of the call |
| | `Counted` (`ActiveCounts`), `TypeCorrect` | the count changes with the set of the runs under way; that it stays a natural number follows from that |
| | `ParallelBudgetHolds` (`ParallelBudgetIfSerial`) | `Serial`: one call at a time is in the checks, and while it is there a slot is free |
| | *requests:* `RepairPairs`, `WireIsValid` | for any sequence of items, reached or not. A block of the repaired history comes from one block of the history (`FromOneBlock`: between two blocks of which calls are kept a result of the first is kept), and what follows it are the results of that block (`FollowingFrom`), one for each call that is kept (`KeptCallIs`, `FirstKept`). The messages of each item begin with one that is no answer (`Unit`), which joining them preserves (`GoodWithUnit`, by induction on the items: `JoinsExists`); what healing keeps then belongs to the calls it was sent for. `At` picks items in their order (`AtInOrder`) |
| | `RequestTypeCorrect`, `RequestsArePaired` (`CallsArePaired`) | the invariant is the type alone, with the ids of summaries below the next fold: a summary is then added behind the file and replaces nothing (`SummaryKeepsPairs`) |
| KunProcessProofs | `TypeCorrect` | `TaskQueued`: the task at work is in the queue, which has a tail when it ends |
| | `ChildAlone` (`OneChild`) | `ChildInv`: unless two starts met, who is about to spawn is alone with it, nothing lives then but what a stop gave up on, and no quit has begun (`AloneStarting`); a quit waits for what else lives (`QuitWaits`), and what was given up on was told to end (`LeftEnding`) |
| | `SettingsReach` (`SettingsTaken`) | `SettingsInv`: a child that runs has the settings of now, or a task of the queue, other than one that has done its stop already, compares with other settings and will restart it (`ChildFresh`); the task at work goes with the settings of now or another follows (`TaskFresh`). The proof does not use that there is one child, so that the property holds without that exception |

Only model-checked: that tools' answers reach the model (`AnswersReachModel` of
RequestHistory), for which one has to follow each result through every write, fold and
repair until the next request. Liveness under fairness is left to TLC throughout: the
prover's backends do not handle ENABLED. Nor can they use a theorem of induction, which
takes an operator; where a proof needs one, over the events of a batch or the lines of a
file, it takes the least number that fails, which exists because `<` is well founded
(`LeastNatural`). No module of this project declares a RECURSIVE operator.

## Where the code and its documentation disagree

Five disagreements have a run whose counterexample shows them (see `findings` in
`PROJECT.json`): `event_log_gap`, `turn_cancel`, `ensure`, `free_again` and
`reassembled`.

Others are in the models, as they are in the code, and the properties step around
them by a history variable; a reader who strengthens a property will meet them:

*Events and turns*

- A heartbeat uses up a number that is not persisted. A client that has it as its
  cursor can be ahead of what is recorded after a restart.
- A stream whose client has gone keeps its subscription and its timer until the
  runtime ends: `Drop` changes nothing on the server.
- A turn can be interrupted before its controller is registered. It is reported
  aborted and runs on; `finishTurn` and `interruptTurn` overwrite each other's status.
- A `finishTurn` that throws after it has told its outcome, inside the try of `runTurn`
  (`agent-loop.ts:350`), is caught, and the turn is finished again as failed: two terminal
  events, the first of which is wrong. One that throws in the catch as well makes `runTurn`
  reject; nobody waits for it (`server/routes/index.ts:226`), and the turn and its thread
  may stay running. `OneOutcome` and `ThreadStatusRight` name the two.
- Nothing keeps two turns of a thread from running at once. Then the steering
  queue is emptied or drained by the wrong one, and the end of the first sets the
  thread idle. `alone` in `SteeringRight` and `ThreadStatusRight` marks
  exactly this.
- With two processes left to clean up after a third, both may find the owner of
  the file lock dead, and the slower removes the lock of the faster: two calls then
  write at once (`raced` in `OneRuns`). A lock whose removal fails may stay while
  its process runs, and the calls for that file give up (`kept`).
- A hook's veto of an approval is answered as a denial, and the call waits on; a
  second decision about one approval is answered like the first. A decision whose event
  cannot be recorded is answered with an error although the call goes on. Approvals "are
  thread-scoped" (`docs/THREAD_EVENT_PARITY.md:90`) only while call ids are unique: two
  threads whose models both say `call_1` share an approval.
- Calls of `runChild` that meet between the check and the count exceed the
  parallel budget; the budget is checked again while the run that ended still
  counts (`delegation-runtime.ts:292`); a record that is being rewritten is missing
  from the run budget; a child whose tool asks for an approval waits for ever,
  and its parent's turn with it.

*Requests*

- A call whose approval is refused comes to an approval item instead of a result
  (`local-tool-host.ts:208`), so the repair drops it: the model does not learn that it was
  refused and may ask again. A hook's denial is a result that has the id of the call's
  item (`agent-loop.ts:1394`) and replaces it: it is dropped as a result without its call.
- A summary says that recent items "are also kept verbatim" (`context-compactor.ts:247`), but a result whose call was
  folded is dropped from what is kept. The summary is made of the whole history, kept
  part included, which is why `AnswersReachModel` holds.
- Ids of results do not say of which turn they are: a provider that uses the name of
  a call again overwrites the earlier result, and the earlier call goes with it.
- The text that the loop of an interrupted turn still writes, or the summary of a
  client's compaction, may come between a call and its result. The next request then
  removes both from the file. `mixed` marks exactly this.

*Loops and goals*

- Ids of loops come from a generator that starts again with the runtime
  (`server/runtime-factory.ts:382`): the first loop created after a restart overwrites one that
  `docs/phases/PHASE_H8_GOAL_LOOP_SCHEDULER.md` says persists.
- `computeNextRun` stores a record without the time it computed: a recurring loop is
  due once. The runtime builds a scheduler and never calls `start`.
- Ticks that overlap exceed `maxConcurrentLoops`; an expiry overwrites a
  cancellation in memory; two first calls of the store load it twice, the second
  over what was changed since. A delete whose `unlink` fails is answered as done
  (`file-loop-store.ts:49-55`), and the loop is there again after a restart.
- The verdict of an evaluation is stored on whatever goal is there by then: it may
  undo a pause or judge another objective. A total budget of N allows N - 1
  evaluations, and one more for each whose answer could not be written; a new
  objective inherits the count; `goal_updated` may carry a goal that is no longer
  stored.

*Files*

- A line that is appended after half a line is lost although it was acknowledged;
  a patch of an item made while another is under way is lost; so is an event that
  is appended while the file is compacted. Compaction keeps the usage of days
  but not that of models.
- A checkpoint is not exact ("restore can reconstruct the exact pre-turn workspace
  state", `checkpoint-service.ts:68-71`) for files outside the commit's tree that are or
  were in the index; the number of checkpoints kept is enforced for one thread only.

*Desktop*

- `startKunChild` looks for a child, waits, and spawns: two starts, or a start and a
  quit, leave a process nobody ends. So does a stop whose process has not ended
  `KUN_STOP_FORCE_MS` after SIGKILL (`kun-process.ts:853`).
- The scheduler's writers lose each other's changes; a request that throws leaves a
  one-time task enabled and past, so that every tick tries it again; a write that
  fails may leave a task marked as running until the application ends.
- The chat takes a turn for ended when its interrupt was answered, and drains the
  queue into it; a late event of that turn then ends the next one. So does an interrupt
  that comes when its turn has ended: the runtime writes another `turn_aborted`
  (`turn-service.ts:112-124` does not look whether the turn still runs), and the chat
  takes the end of any turn for that of its own (`kun-mapper.ts:1154-1162`); and an error
  of the stream that reads like an interrupt. A turn that failed leaves the chat busy and
  its queue waiting until the watchdog has the thread loaded again (`onError` does neither
  look whether the turn is over nor drain). No run is
  large enough to show the late interrupt; the proof of `TurnAfterTurn` found it. A failed send puts
  back a queue that has changed. A recovery makes its thread active again although
  the user has left it. Two streams live when a second takes `sseAbortRef` over, and
  selecting a thread drops the queue.

## What is not modelled

- *Without interaction:* parsing of model streams, tools that run processes or
  fetch pages, configuration, rendering, IPC glue, updates, the counters and caches
  that are read and written within one step. They are inputs of the models.
- *Abstracted:* the contents of items and events, the clipping of long texts and the
  sizes at which a history is folded; the model that may write a summary; the repair
  of a call's arguments; retries of the model; presets of child agents; times,
  beyond their order. The log of EventLog stays below the size at which usage
  events are compacted, which SessionStore has.
- *Not composed:* SessionStore is not under EventLog (an event lost in compaction
  would be missing from the backlog as well), ThreadUpdates is not under
  TurnLifecycle, GoalEvaluation and LoopScheduler, which take an update of the
  record as one step or as a read and a write.
- *Other components* are listed in `PROJECT.json` with the reason each: the remote
  runner, the SQLite index of the hybrid stores, the chat bots, review, memory,
  attachments, skills, automation, and the clients.

## The plan

1. *Done:* EventLog, TurnLifecycle, ThreadUpdates over AtomicUpdates,
   FileMutationLock, ApprovalGate, UserInputGate, DelegationRuntime with their proofs;
   RequestHistory, LoopScheduler, GoalEvaluation, SessionStore, Checkpoints, KunProcess,
   ScheduleRuntime and ChatStore.
2. *Done:* TurnLifecycleProofs, what the client of EventLog sees, and KunProcessProofs.
3. *Done:* proofs about the goal of a thread, the loop scheduler, the tasks of the
   desktop, the chat's messages, turns and text, the files of a session, checkpoints, and
   the pairing of calls and results in each request; `AnswersReachModel` is left.
4. SessionStore under EventLog, and the metadata log of the hybrid thread store.
5. Remote runner: trust, approvals and budgets around commands.
