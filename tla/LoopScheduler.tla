---------------------------- MODULE LoopScheduler ----------------------------
(***************************************************************************)
(* Recurring prompts: the scheduler (services/loop-scheduler-service.ts)    *)
(* and the store under it (adapters/file/file-loop-store.ts), one JSON file *)
(* per loop behind a cache that the first call loads.                       *)
(*                                                                          *)
(* A step is what runs between two awaits. Ticks come from an interval      *)
(* timer that does not wait for the tick before, calls come from clients.   *)
(* Time is not modelled: a loop that has a next run may be due.             *)
(***************************************************************************)
EXTENDS Naturals, FiniteSets

CONSTANTS Clients,       \* clients, one request each
          OpsOf,         \* what each may ask for: create, pause, resume, cancel, delete, activate
          Ticks,         \* ticks of the timer
          ThreadOf,      \* the thread of each loop (threadTemplateId)
          MaxConcurrent, \* settings.maxConcurrentLoops
          Limited,       \* the calls that create a loop with maxRuns = 1
          Skips,         \* the calls that create a loop with queuePolicy = "skip"
          MaxFaults,     \* restarts and failed writes, together
          Nil, Torn      \* no record; a file that is no record

LoopIds == 1..Cardinality(Clients)
Runs == Ticks \X LoopIds
Threads == {ThreadOf[i] : i \in LoopIds}
Actors == Clients \cup Ticks \cup Runs

Ops == {"create", "pause", "resume", "cancel", "delete", "activate"}

\* A loop: the call that made it, whether it has a next run, whether it has run.
Loops  == [by : Clients, status : {"active", "paused", "cancelled", "expired"}, next : BOOLEAN, ran : BOOLEAN]
\* A write of its file, or of none any more.
Writes == [id : LoopIds, by : Clients, record : Loops \cup {Nil}]

ASSUME LoopAssumption ==
  /\ IsFiniteSet(Clients) /\ IsFiniteSet(Ticks)
  /\ Clients \cap Ticks = {} /\ Runs \cap (Clients \cup Ticks) = {}
  /\ OpsOf \in [Clients -> SUBSET Ops]
  /\ MaxConcurrent \in Nat /\ MaxFaults \in Nat
  /\ Nil # Torn /\ Nil \notin Loops /\ Torn \notin Loops
  /\ Nil \notin LoopIds /\ Nil \notin Ops /\ Nil \notin Writes

VARIABLES pc, phase, \* where each call and tick is; where each run is
          op, target,\* what a call asks for, of which loop; the loop a tick looks at
          toRead,    \* the files an actor that loads the store has yet to read
          due,       \* the loops a tick has yet to look at
          writing,   \* the write an actor waits for: its record, or Nil
          cache, loaded, file, nextSeq,
          active,    \* activeRunIds
          running,   \* the threads with a turn
          ended,     \* history: the loops whose cancel or delete was answered
          stuck,     \* history: of those, the deleted ones whose file could not be removed
          back,      \* history: of these, the ones whose file a restart finds
          clash,     \* history: two loads, or two writes of one file, at once
          overlap,   \* history: two ticks at once
          faults

storeVars == <<cache, loaded, file, nextSeq>>
told      == <<ended, stuck, back>>
history   == <<told, clash, overlap, faults>>
loopVars == <<pc, phase, op, target, toRead, due, writing, storeVars, active, running, history>>

Goto(a, place) == pc' = [pc EXCEPT ![a] = place]

\* An actor that has ended is told from others by nothing.
Forget(a) == /\ op' = IF a \in Clients THEN [op EXCEPT ![a] = Nil] ELSE op
             /\ target' = [target EXCEPT ![a] = Nil]
Keep == UNCHANGED <<op, target>>

LoopInit ==
  /\ pc = [a \in Clients \cup Ticks |-> "idle"] /\ phase = [r \in Runs |-> "idle"]
  /\ op = [c \in Clients |-> Nil] /\ target = [a \in Clients \cup Ticks |-> Nil]
  /\ toRead = [a \in Clients \cup Ticks |-> {}] /\ due = [t \in Ticks |-> {}]
  /\ writing = [a \in Actors |-> Nil]
  /\ cache = [i \in LoopIds |-> Nil] /\ file = [i \in LoopIds |-> Nil]
  /\ loaded = FALSE /\ nextSeq = 0 /\ active = {} /\ running = {}
  /\ ended = {} /\ stuck = {} /\ back = {} /\ clash = FALSE /\ overlap = FALSE /\ faults = 0

-----------------------------------------------------------------------------
(* ensureLoaded: every call of the store comes here first                   *)

EnterStore(a) ==
  IF loaded
  THEN Goto(a, "do") /\ UNCHANGED <<toRead, clash>>
  ELSE /\ Goto(a, "load")
       /\ toRead' = [toRead EXCEPT ![a] = {i \in LoopIds : file[i] # Nil}]
       /\ clash' = (clash \/ \E b \in Clients \cup Ticks : pc[b] = "load")

\* One readFile and the cache.set after it; a file that is no record is skipped.
\* The last of them ends the load.
LoadOne(a) ==
  /\ pc[a] = "load"
  /\ \E i \in toRead[a] :
       /\ toRead' = [toRead EXCEPT ![a] = @ \ {i}]
       /\ cache' = IF file[i] \in {Nil, Torn} THEN cache ELSE [cache EXCEPT ![i] = file[i]]
  /\ IF toRead'[a] = {} THEN loaded' = TRUE /\ Goto(a, "do") ELSE UNCHANGED <<loaded, pc>>
  /\ UNCHANGED <<phase, op, target, due, writing, file, nextSeq, active, running, history>>

\* There is none to read.
EndLoad(a) ==
  /\ pc[a] = "load" /\ toRead[a] = {}
  /\ loaded' = TRUE /\ Goto(a, "do")
  /\ UNCHANGED <<phase, op, target, toRead, due, writing, cache, file, nextSeq, active, running, history>>

\* The end of every change: cache.set, and a write of the file that is waited for.
\* `by` is the loop it is about.
Store(a, i, record) ==
  /\ cache' = [cache EXCEPT ![i] = record]
  /\ writing' = [writing EXCEPT ![a] = [id |-> i, by |-> IF cache[i] = Nil THEN record.by ELSE cache[i].by,
                                     record |-> record]]
  /\ clash' = (clash \/ \E b \in Actors \ {a} : writing[b] # Nil /\ writing[b].id = i)

\* Or none: what the actor waited for has ended.
Settle(a) == writing' = [writing EXCEPT ![a] = Nil] /\ UNCHANGED <<cache, clash>>

-----------------------------------------------------------------------------
(* The calls of clients: create, pause, resume, cancel, delete, update      *)

\* `create` takes its id before it waits for the store.
Call(c) ==
  /\ pc[c] = "idle"
  /\ \E o \in OpsOf[c], i \in LoopIds :
       /\ IF o = "create" THEN i = nextSeq + 1 ELSE TRUE
       /\ nextSeq' = IF o = "create" THEN i ELSE nextSeq
       /\ op' = [op EXCEPT ![c] = o] /\ target' = [target EXCEPT ![c] = i]
  /\ EnterStore(c)
  /\ UNCHANGED <<phase, due, writing, cache, loaded, file, active, running, told, overlap, faults>>

\* Mutant: a cancelled loop can be resumed.
ResumesAny(c, r) == op[c] = "pause" /\ r.status \in {"cancelled", "expired"}

\* A loop that is over cannot be paused, and only a paused one is resumed.
LeftAlone(c, r) ==
  CASE op[c] = "pause"  -> r.status \in {"cancelled", "expired"}
    [] op[c] = "resume" -> r.status # "paused"
    [] OTHER -> FALSE

\* What an operation makes of a record.
Changed(c, r) ==
  CASE op[c] = "create"   -> [by |-> c, status |-> "active", next |-> TRUE, ran |-> FALSE]
    [] op[c] = "pause"    -> [r EXCEPT !.status = "paused"]
    [] op[c] = "resume"   -> [r EXCEPT !.status = "active", !.next = TRUE]
    [] op[c] = "cancel"   -> [r EXCEPT !.status = "cancelled"]
    [] op[c] = "activate" -> [r EXCEPT !.status = "active"]
    [] op[c] = "delete"   -> Nil

Do(c) ==
  LET i == target[c] IN
  /\ pc[c] = "do"
  /\ IF op[c] # "create" /\ (cache[i] = Nil \/ LeftAlone(c, cache[i]))
     THEN Goto(c, "done") /\ Forget(c) /\ Settle(c)
     ELSE Goto(c, "write") /\ Keep /\ Store(c, i, Changed(c, cache[i]))
  /\ ended' = IF op[c] = "activate" /\ cache[i] # Nil THEN ended \ {cache[i].by} ELSE ended
  /\ UNCHANGED <<phase, toRead, due, loaded, file, nextSeq, active, running, stuck, back, overlap, faults>>

-----------------------------------------------------------------------------
(* tick: after each loop it looks at the next that is due and not active    *)

Tick(t) ==
  /\ pc[t] = "idle" /\ EnterStore(t)
  /\ overlap' = (overlap \/ \E u \in Ticks : pc[u] \notin {"idle", "done"})
  /\ UNCHANGED <<phase, op, target, due, writing, storeVars, active, running, told, faults>>

\* Mutant: the number of active loops is not looked at.
NextDueUnbounded(left, counted) == left \ counted

\* The loops a tick may look at next; none if as many are active as may be.
NextDue(left, counted) == IF Cardinality(counted) >= MaxConcurrent THEN {} ELSE left \ counted

\* The tick goes on to the next loop, or ends.
Advance(t, left) ==
  LET next == NextDue(left, active') IN
  \/ /\ next = {} /\ pc' = [pc EXCEPT ![t] = "done"]
     /\ Forget(t) /\ due' = [due EXCEPT ![t] = {}]
  \/ \E i \in next : /\ pc' = [pc EXCEPT ![t] = "look"] /\ target' = [target EXCEPT ![t] = i]
                     /\ due' = [due EXCEPT ![t] = left \ {i}] /\ UNCHANGED op

GetDue(t) ==
  /\ pc[t] = "do" /\ UNCHANGED active
  /\ \E d \in SUBSET {i \in LoopIds : cache[i] # Nil /\ cache[i].status = "active" /\ cache[i].next} :
       Advance(t, d)
  /\ UNCHANGED <<phase, toRead, writing, storeVars, running, history>>

RecordRun(a, i) == Store(a, i, [cache[i] EXCEPT !.next = FALSE, !.ran = TRUE])

\* The thread was read and has a turn: queue the loop, or record that it was skipped.
LookBusy(t) ==
  LET i == target[t] IN
  /\ pc[t] = "look" /\ ThreadOf[i] \in running /\ UNCHANGED active
  /\ IF cache[i] # Nil /\ cache[i].by \in Skips
     THEN Goto(t, "skipRecord") /\ Keep /\ UNCHANGED due /\ RecordRun(t, i)
     ELSE Advance(t, due[t]) /\ Settle(t)
  /\ UNCHANGED <<phase, toRead, loaded, file, nextSeq, running, told, overlap, faults>>

\* It has none: the loop counts, and executeLoop is not waited for.
LookFree(t) ==
  /\ pc[t] = "look" /\ ThreadOf[target[t]] \notin running
  /\ active' = active \cup {target[t]}
  /\ phase' = [phase EXCEPT ![<<t, target[t]>>] = "begin"]
  /\ Advance(t, due[t])
  /\ UNCHANGED <<toRead, writing, storeVars, running, history>>

-----------------------------------------------------------------------------
(* executeLoop                                                              *)

Enter(r, place) == phase' = [phase EXCEPT ![r] = place]

\* Mutant: no finally.
FinallyForgotten(r) == Enter(r, "idle") /\ UNCHANGED active /\ Settle(r)

\* The loop does not count any more.
Finally(r) == Enter(r, "idle") /\ active' = active \ {r[2]} /\ Settle(r)

\* checkExpiry overwrites any status.
CheckExpiry(r) ==
  LET rec == cache[r[2]] IN
  IF rec # Nil /\ rec.ran /\ rec.by \in Limited
  THEN Enter(r, "expiryWrite") /\ Store(r, r[2], [rec EXCEPT !.status = "expired"]) /\ UNCHANGED active
  ELSE Finally(r)

\* computeNextRun: the record is stored again, without the time it computed; if
\* the schedule has no other time it is not.
ComputeNext(a, i) == cache[i] # Nil /\ Store(a, i, cache[i])

\* startTurn, or not (the thread is missing, or it throws); then recordRun.
Run(r) ==
  /\ phase[r] = "begin"
  /\ running' \in {running, running \cup {ThreadOf[r[2]]}}
  /\ IF cache[r[2]] = Nil THEN Finally(r)
     ELSE Enter(r, "recordWrite") /\ RecordRun(r, r[2]) /\ UNCHANGED active
  /\ UNCHANGED <<pc, op, target, toRead, due, loaded, file, nextSeq, told, overlap, faults>>

-----------------------------------------------------------------------------
(* The writes of files, and what runs after each until the next await       *)

Continue(r) ==
  \/ /\ phase[r] = "recordWrite"
     /\ \/ Enter(r, "nextWrite") /\ ComputeNext(r, r[2]) /\ UNCHANGED active
        \/ CheckExpiry(r)
  \/ phase[r] = "nextWrite" /\ CheckExpiry(r)
  \/ phase[r] = "expiryWrite" /\ Finally(r)

ContinueTick(t) ==
  \/ /\ pc[t] = "skipRecord" /\ Goto(t, "skipWrite") /\ ComputeNext(t, target[t])
     /\ Keep /\ UNCHANGED due
  \/ Advance(t, due[t]) /\ Settle(t)

\* Two writes of one file at once may leave a mixture.
Written(a) ==
  LET w == writing[a]
      others == \E b \in Actors \ {a} : writing[b] # Nil /\ writing[b].id = w.id IN
  /\ w # Nil
  /\ \E new \in {w.record} \cup (IF others THEN {Torn} ELSE {}) : file' = [file EXCEPT ![w.id] = new]

EndCallWrite(c) ==
  /\ Written(c) /\ Settle(c) /\ Goto(c, "done") /\ Forget(c)
  /\ IF op[c] \in {"cancel", "delete"}
     THEN /\ ended' = ended \cup {writing[c].by}
          /\ stuck' = stuck \ {writing[c].by} /\ back' = back \ {writing[c].by}
     ELSE UNCHANGED told
  /\ UNCHANGED <<phase, toRead, due, loaded, nextSeq, active, running, overlap, faults>>

\* unlink throws: removeFile takes the file for gone, and the delete is answered.
FailUnlink(c) ==
  /\ writing[c] # Nil /\ op[c] = "delete" /\ file[writing[c].id] # Nil
  /\ Settle(c) /\ Goto(c, "done") /\ Forget(c)
  /\ ended' = ended \cup {writing[c].by} /\ stuck' = stuck \cup {writing[c].by}
  /\ UNCHANGED <<phase, toRead, due, loaded, file, nextSeq, active, running, back, overlap, faults>>

EndTickWrite(t) ==
  /\ UNCHANGED active /\ Written(t) /\ ContinueTick(t)
  /\ UNCHANGED <<phase, toRead, loaded, nextSeq, running, told, overlap, faults>>

EndRunWrite(r) ==
  /\ Written(r) /\ Continue(r)
  /\ UNCHANGED <<pc, op, target, toRead, due, loaded, nextSeq, running, told, overlap, faults>>

\* writeFile throws: the call fails, the tick ends, the run goes to its finally.
FailWrite(a) ==
  /\ writing[a] # Nil /\ faults < MaxFaults /\ faults' = faults + 1
  /\ a \in Clients => op[a] # "delete"
  /\ \E new \in {file[writing[a].id], Torn} : file' = [file EXCEPT ![writing[a].id] = new]
  /\ IF a \in Runs THEN Finally(a) /\ Keep /\ UNCHANGED <<pc, due>>
     ELSE /\ Goto(a, "done") /\ Settle(a) /\ Forget(a) /\ UNCHANGED <<phase, active>>
          /\ due' = IF a \in Ticks THEN [due EXCEPT ![a] = {}] ELSE due
  /\ UNCHANGED <<toRead, loaded, nextSeq, running, told, overlap>>

-----------------------------------------------------------------------------
\* A client runs the turn of a thread to its end; the scheduler does not.
TurnEnds(th) ==
  /\ th \in running /\ running' = running \ {th}
  /\ UNCHANGED <<pc, phase, op, target, toRead, due, writing, storeVars, active, history>>

\* The runtime dies and starts again: files under way are as they were, written or torn.
Restart ==
  /\ faults < MaxFaults /\ faults' = faults + 1
  /\ pc' = [a \in Clients \cup Ticks |-> IF pc[a] = "idle" THEN "idle" ELSE "done"]
  /\ phase' = [r \in Runs |-> "idle"]
  /\ op' = [c \in Clients |-> Nil] /\ target' = [a \in Clients \cup Ticks |-> Nil]
  /\ writing' = [a \in Actors |-> Nil]
  /\ toRead' = [a \in Clients \cup Ticks |-> {}] /\ due' = [t \in Ticks |-> {}]
  /\ cache' = [i \in LoopIds |-> Nil] /\ loaded' = FALSE /\ nextSeq' = 0 /\ active' = {}
  /\ back' = stuck
  /\ LET under == {writing[a] : a \in {b \in Actors : writing[b] # Nil}}
     IN  \E landed \in SUBSET under, broken \in SUBSET {w.id : w \in under} :
           /\ \A v, w \in landed : v.id = w.id => v = w
           /\ file' = [i \in LoopIds |->
                         IF i \in broken THEN Torn
                         ELSE IF \E w \in landed : w.id = i THEN (CHOOSE w \in landed : w.id = i).record
                         ELSE file[i]]
  /\ UNCHANGED <<running, ended, stuck, clash, overlap>>

LoopNext ==
  \/ \E c \in Clients : Call(c) \/ Do(c) \/ EndCallWrite(c) \/ FailUnlink(c)
  \/ \E t \in Ticks : Tick(t) \/ GetDue(t) \/ LookBusy(t) \/ LookFree(t) \/ EndTickWrite(t)
  \/ \E r \in Runs : Run(r) \/ EndRunWrite(r)
  \/ \E a \in Clients \cup Ticks : LoadOne(a) \/ EndLoad(a)
  \/ \E a \in Actors : FailWrite(a)
  \/ \E th \in Threads : TurnEnds(th)
  \/ Restart

LoopSpec == LoopInit /\ [][LoopNext]_loopVars

-----------------------------------------------------------------------------
\* A loop counts as active only while it runs. While ticks do not overlap, it runs
\* once at a time, all that run count, and no more than the settings allow.
RunsCounted ==
  LET under == {r \in Runs : phase[r] # "idle"} IN
  /\ active \subseteq {r[2] : r \in under}
  /\ ~overlap => /\ \A r, s \in under : r[2] = s[2] => r = s
                 /\ Cardinality(under) = Cardinality(active)
                 /\ Cardinality(active) <= MaxConcurrent

Over(rec) == rec.status \in {"cancelled", "expired"}

\* A loop that was cancelled or deleted, and whose client was told so, is never
\* again one that a tick would run, not in the cache and not in a file that a
\* restart would load - unless two loads or two writes of one file met. A deleted
\* loop whose file could not be removed comes back, but only with a restart.
EndedStaysEnded ==
  ~clash => \A i \in LoopIds :
    /\ cache[i] # Nil /\ cache[i].by \in ended \ back => Over(cache[i])
    /\ file[i] \notin {Nil, Torn} /\ file[i].by \in ended \ stuck => Over(file[i])
=============================================================================
