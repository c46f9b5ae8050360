----------------------- MODULE ThreadUpdatesProofs -----------------------
(***************************************************************************)
(* ThreadUpdates, proved for any calls: the chain of promises keeps the    *)
(* callers of upsertThread apart and in order, and when every caller is in *)
(* the chain the record changes as AtomicUpdates says. And of              *)
(* ScheduleRuntime, for any tasks, ticks and calls: a one-time task starts *)
(* one turn.                                                               *)
(***************************************************************************)
EXTENDS ThreadUpdates, ScheduleRuntime, TLAPS

Pending(u) == pc[u] # "idle"

\* The entry of the map is the last call of the chain, and it is missing only
\* when all calls have settled.
TailLast ==
  /\ tail = NoUpdate => \A v \in Queued : Pending(v) => Settled(v)
  /\ tail # NoUpdate =>
       Pending(tail) /\ \A v \in Queued : Pending(v) => v = tail \/ v \in before[tail]

\* What a call waits for comes after everything else that was before it.
WaitsForLast ==
  \A u \in Queued : pc[u] = "queued" =>
    /\ previous[u] = NoUpdate => \A v \in before[u] : Settled(v)
    /\ previous[u] # NoUpdate =>
         Pending(previous[u]) /\ before[u] \subseteq before[previous[u]] \union {previous[u]}

\* Of two calls in the chain one is before the other.
Chained ==
  \A u, v \in Queued : Pending(u) /\ Pending(v) => u = v \/ u \in before[v] \/ v \in before[u]

\* Only what has settled is in the record or in a copy of it.
StoredSettled ==
  /\ \A i \in DOMAIN record : Settled(record[i])
  /\ \A u \in Updates : \A i \in DOMAIN snapshot[u] : Settled(snapshot[u][i])

\* A call of the chain stores the record it read, unless a caller outside the
\* chain has come to its end.
CopyCurrent ==
  (\A d \in Direct : ~Settled(d)) =>
    \A u \in Queued : pc[u] = "writing" => snapshot[u] = record

ChainInv == TypeOK /\ TailLast /\ WaitsForLast /\ Chained /\ InOrder
Inv == ChainInv /\ StoredSettled /\ CopyCurrent

-----------------------------------------------------------------------------
(* The variables keep their types. *)
LEMMA TypeInit == Init => TypeOK
  BY UpdateAssumption DEF Init, TypeOK, Queued

LEMMA TypeStep == TypeOK /\ [Next]_vars => TypeOK'
<1> SUFFICES ASSUME TypeOK, [Next]_vars PROVE TypeOK'
  OBVIOUS
<1>1. CASE UNCHANGED vars
  BY <1>1 DEF TypeOK, vars
<1>2. CASE Next
  <2>1. PICK u \in Updates : Step(u)
    BY <1>2 DEF Next
  <2>2. CASE Enqueue(u)
    BY <2>2 DEF TypeOK, Enqueue
  <2>3. CASE Begin(u) \/ BeginDirect(u) \/ Fail(u)
    BY <2>3 DEF TypeOK, Begin, BeginDirect, Fail
  <2>4. CASE Read(u)
    BY <2>4 DEF TypeOK, Read
  <2>5. CASE Write(u)
    BY <2>5 DEF TypeOK, Write
  <2>6. CASE Release(u)
    BY <2>6 DEF TypeOK, Release
  <2> QED
    BY <2>1, <2>2, <2>3, <2>4, <2>5, <2>6 DEF Step
<1> QED
  BY <1>1, <1>2

\* ThreadUpdates keeps every variable in the range the code gives it.
THEOREM TypeCorrect == Spec => []TypeOK
  BY TypeInit, TypeStep, PTL DEF Spec

-----------------------------------------------------------------------------
(* The chain. *)
LEMMA ChainInit == Init => ChainInv
  BY TypeInit DEF ChainInv, Init, TypeOK, TailLast, WaitsForLast, Chained, InOrder,
                  Pending, Settled, Busy, Queued

LEMMA ChainEnqueue ==
  ASSUME ChainInv, NEW u \in Updates, Enqueue(u)
  PROVE  TailLast' /\ WaitsForLast' /\ Chained' /\ InOrder'
<1> USE DEF ChainInv, TypeOK, Enqueue
<1>1. \A v \in Updates : v # u =>
        pc'[v] = pc[v] /\ before'[v] = before[v] /\ previous'[v] = previous[v]
  OBVIOUS
<1>2. /\ pc'[u] = "queued" /\ previous'[u] = tail /\ tail' = u
      /\ before'[u] = {v \in Queued : Pending(v)} /\ ~Pending(u) /\ u \in Queued
  BY DEF Pending
<1>3. \A v \in Updates : (Settled(v) <=> Settled(v)') /\ (Pending(v) => Pending(v)')
  BY <1>1 DEF Settled, Pending
<1>4. \A v \in Updates : Pending(v)' => v = u \/ Pending(v)
  BY <1>1 DEF Pending
<1>5. TailLast'
  BY <1>2, <1>4, UpdateAssumption DEF TailLast, Pending, Queued
<1>6. WaitsForLast'
  <2> SUFFICES ASSUME NEW v \in Queued, pc'[v] = "queued"
               PROVE  /\ previous'[v] = NoUpdate => \A w \in before'[v] : Settled(w)'
                      /\ previous'[v] # NoUpdate =>
                           /\ Pending(previous[v])'
                           /\ before'[v] \subseteq before'[previous'[v]] \union {previous'[v]}
    BY DEF WaitsForLast
  <2>1. CASE v = u
    <3>1. CASE tail = NoUpdate
      BY <2>1, <3>1, <1>2, <1>3 DEF TailLast, Queued
    <3>2. CASE tail # NoUpdate
      <4>1. tail \in Queued /\ Pending(tail) /\ tail # u
        BY <3>2, <1>2 DEF TailLast
      <4>2. before'[tail] = before[tail] /\ pc'[tail] = pc[tail]
        BY <4>1, <1>1 DEF Queued
      <4> QED
        BY <2>1, <3>2, <1>2, <4>1, <4>2 DEF TailLast, Pending
    <3> QED
      BY <3>1, <3>2
  <2>2. CASE v # u
    <3>1. /\ pc[v] = "queued" /\ previous'[v] = previous[v] /\ before'[v] = before[v]
      BY <2>2, <1>1 DEF Queued
    <3>2. CASE previous[v] = NoUpdate
      BY <3>1, <3>2, <1>3 DEF WaitsForLast, Queued
    <3>3. CASE previous[v] # NoUpdate
      <4>1. previous[v] \in Queued /\ Pending(previous[v]) /\ previous[v] # u
        BY <3>1, <3>3, <1>2 DEF WaitsForLast, Queued
      <4>2. before'[previous[v]] = before[previous[v]] /\ pc'[previous[v]] = pc[previous[v]]
        BY <4>1, <1>1 DEF Queued
      <4> QED
        BY <3>1, <3>3, <4>1, <4>2 DEF WaitsForLast, Pending
    <3> QED
      BY <3>2, <3>3
  <2> QED
    BY <2>1, <2>2
<1>7. Chained'
  BY <1>1, <1>2, <1>4 DEF Chained, Queued
<1>8. InOrder'
  <2> SUFFICES ASSUME NEW v \in Queued, (Busy(v) \/ Settled(v))', NEW w \in before'[v]
               PROVE  Settled(w)'
    BY DEF InOrder
  <2>1. v # u
    BY <1>2 DEF Busy, Settled
  <2>2. w \in before[v] /\ (Busy(v) \/ Settled(v)) /\ w \in Updates
    BY <2>1, <1>1 DEF Busy, Settled, Queued
  <2> QED
    BY <2>2, <1>3 DEF InOrder
<1> QED
  BY <1>5, <1>6, <1>7, <1>8

\* A call that goes on, without joining or leaving the chain.
LEMMA ChainAdvance ==
  ASSUME ChainInv, NEW u \in Updates,
         Begin(u) \/ BeginDirect(u) \/ Read(u) \/ Write(u) \/ Fail(u)
  PROVE  TailLast' /\ WaitsForLast' /\ Chained' /\ InOrder'
<1>1. /\ \A v \in Updates : v # u => pc'[v] = pc[v]
      /\ tail' = tail /\ previous' = previous /\ before' = before
      /\ pc'[u] # "queued" /\ pc'[u] # "idle"
  BY DEF ChainInv, TypeOK, Begin, BeginDirect, Read, Write, Fail
<1>2. \A v \in Updates : Settled(v) => Settled(v)'
  BY <1>1 DEF Settled, ChainInv, TypeOK, Begin, BeginDirect, Read, Write, Fail
<1>3. \A v \in Queued : Pending(v) <=> Pending(v)'
  BY <1>1 DEF Pending, Queued, ChainInv, TypeOK, Begin, BeginDirect, Read, Write, Fail
<1>4. tail # NoUpdate => tail \in Queued
  BY DEF ChainInv, TypeOK
<1>5. TailLast'
  BY <1>1, <1>2, <1>3, <1>4 DEF TailLast, ChainInv, Queued, Pending
<1>6. WaitsForLast'
  <2> SUFFICES ASSUME NEW v \in Queued, pc'[v] = "queued"
               PROVE  /\ previous[v] = NoUpdate => \A w \in before[v] : Settled(w)'
                      /\ previous[v] # NoUpdate =>
                           /\ pc'[previous[v]] # "idle"
                           /\ before[v] \subseteq before[previous[v]] \union {previous[v]}
    BY <1>1 DEF WaitsForLast, Pending
  <2>1. pc[v] = "queued" /\ before[v] \subseteq Updates /\ previous[v] \in Queued \union {NoUpdate}
    BY <1>1 DEF Queued, ChainInv, TypeOK
  <2> QED
    BY <2>1, <1>2, <1>3 DEF WaitsForLast, ChainInv, Pending
<1>7. Chained'
  BY <1>1, <1>3 DEF Chained, ChainInv, Pending
<1>8. InOrder'
  <2> SUFFICES ASSUME NEW v \in Queued, (Busy(v) \/ Settled(v))', NEW w \in before[v]
               PROVE  Settled(w)'
    BY <1>1 DEF InOrder
  <2>1. w \in Updates /\ v \in Updates /\ before[v] \subseteq Queued
    BY DEF ChainInv, TypeOK, Queued
  <2>2. CASE Busy(v) \/ Settled(v)
    BY <2>1, <2>2, <1>2 DEF InOrder, ChainInv
  <2>3. CASE v = u /\ Begin(u)
    <3>1. pc[v] = "queued" /\ (previous[v] # NoUpdate => Settled(previous[v]))
      BY <2>3 DEF Begin
    <3>2. CASE previous[v] = NoUpdate
      BY <3>1, <3>2, <2>1, <1>2 DEF WaitsForLast, ChainInv
    <3>3. CASE previous[v] # NoUpdate
      <4>1. previous[v] \in Queued /\ Settled(previous[v])
        BY <3>1, <3>3, <2>1 DEF ChainInv, TypeOK
      <4>2. w = previous[v] \/ w \in before[previous[v]]
        BY <3>1, <3>3 DEF WaitsForLast, ChainInv
      <4> QED
        BY <4>1, <4>2, <2>1, <1>2 DEF InOrder, ChainInv
    <3> QED
      BY <3>2, <3>3
  <2> QED
    BY <2>1, <2>2, <2>3, <1>1 DEF Busy, Settled, Queued, Begin, BeginDirect, Read, Write, Fail
<1> QED
  BY <1>5, <1>6, <1>7, <1>8

\* A call that leaves the chain: if it was the last one, all have settled.
LEMMA ChainRelease ==
  ASSUME ChainInv, NEW u \in Updates, Release(u)
  PROVE  TailLast' /\ WaitsForLast' /\ Chained' /\ InOrder'
<1>1. /\ \A v \in Updates : v # u => pc'[v] = pc[v]
      /\ previous' = previous /\ before' = before
      /\ pc[u] = "settled" /\ pc'[u] = "done"
      /\ tail' = IF tail = u THEN NoUpdate ELSE tail
  BY DEF ChainInv, TypeOK, Release
<1>2. \A v \in Updates : (Settled(v) <=> Settled(v)') /\ (Pending(v) <=> Pending(v)')
                          /\ (Busy(v) <=> Busy(v)') /\ (pc[v] = "queued" <=> pc'[v] = "queued")
  BY <1>1 DEF Settled, Pending, Busy
<1>3. /\ tail # NoUpdate => tail \in Queued
      /\ \A v \in Queued : before[v] \subseteq Queued /\ previous[v] \in Queued \union {NoUpdate}
      /\ Queued \subseteq Updates
  BY DEF ChainInv, TypeOK, Queued
<1>4. TailLast'
  <2>1. CASE tail = u
    <3>1. \A v \in Queued : Pending(v) => Settled(v)
      <4> SUFFICES ASSUME NEW v \in Queued, Pending(v) PROVE Settled(v)
        OBVIOUS
      <4>1. u \in Queued /\ Settled(u) /\ (v = u \/ v \in before[u])
        BY <2>1, <1>1, <1>3, UpdateAssumption DEF TailLast, ChainInv, Settled
      <4> QED
        BY <4>1 DEF InOrder, ChainInv
    <3> QED
      BY <2>1, <3>1, <1>1, <1>2, <1>3 DEF TailLast
  <2>2. CASE tail # u
    BY <2>2, <1>1, <1>2, <1>3 DEF TailLast, ChainInv, Pending
  <2> QED
    BY <2>1, <2>2
<1>5. WaitsForLast'
  BY <1>1, <1>2, <1>3 DEF WaitsForLast, ChainInv, Pending
<1>6. Chained'
  BY <1>1, <1>2, <1>3 DEF Chained, ChainInv
<1>7. InOrder'
  BY <1>1, <1>2, <1>3 DEF InOrder, ChainInv
<1> QED
  BY <1>4, <1>5, <1>6, <1>7

LEMMA ChainStep == ChainInv /\ [Next]_vars => ChainInv'
<1> SUFFICES ASSUME ChainInv, [Next]_vars PROVE ChainInv'
  OBVIOUS
<1>1. TypeOK'
  BY TypeStep DEF ChainInv
<1>2. CASE UNCHANGED vars
  BY <1>1, <1>2 DEF ChainInv, vars, TailLast, WaitsForLast, Chained, InOrder, Pending, Settled, Busy
<1>3. CASE Next
  BY <1>1, <1>3, ChainEnqueue, ChainAdvance, ChainRelease DEF Next, Step, ChainInv
<1> QED
  BY <1>2, <1>3

LEMMA ChainInvariant == Spec => []ChainInv
  BY ChainInit, ChainStep, PTL DEF Spec

\* No two calls in the chain are between their read and their write.
LEMMA Exclusive == ChainInv => QueuedAlone
  BY DEF ChainInv, Chained, InOrder, QueuedAlone, Busy, Settled, Pending

\* The callers of upsertThread never overlap.
THEOREM Isolated == Spec => []QueuedAlone
  BY ChainInvariant, Exclusive, PTL

\* The callers of upsertThread reach the store in the order of their calls.
THEOREM Ordered == Spec => []InOrder
<1>1. ChainInv => InOrder
  BY DEF ChainInv
<1> QED
  BY ChainInvariant, <1>1, PTL

-----------------------------------------------------------------------------
(* The record. *)
LEMMA StoredInit == Init => StoredSettled /\ CopyCurrent
  BY DEF Init, StoredSettled, CopyCurrent, Queued

LEMMA StoredStep == ChainInv /\ StoredSettled /\ [Next]_vars => StoredSettled'
<1> SUFFICES ASSUME ChainInv, StoredSettled, [Next]_vars PROVE StoredSettled'
  OBVIOUS
<1>t. TypeOK
  BY DEF ChainInv
<1>1. CASE UNCHANGED vars
  BY <1>1 DEF vars, StoredSettled, Settled
<1>2. CASE Next
  <2>1. PICK u \in Updates : Step(u)
    BY <1>2 DEF Next
  <2>2. \A v \in Updates : Settled(v) => Settled(v)'
    BY <1>t, <2>1 DEF TypeOK, Settled, Step, Enqueue, Begin, BeginDirect, Read, Write, Fail, Release
  <2>3. /\ \A i \in DOMAIN record : record[i] \in Updates
        /\ \A v \in Updates : \A i \in DOMAIN snapshot[v] : snapshot[v][i] \in Updates
    BY <1>t DEF TypeOK
  <2>4. CASE Enqueue(u) \/ Begin(u) \/ BeginDirect(u) \/ Fail(u) \/ Release(u)
    <3>1. record' = record /\ snapshot' = snapshot
      BY <2>4 DEF Enqueue, Begin, BeginDirect, Fail, Release
    <3> QED
      BY <3>1, <2>2, <2>3 DEF StoredSettled
  <2>5. CASE Read(u)
    <3>1. /\ record' = record
          /\ \A v \in Updates : snapshot'[v] = IF v = u THEN record ELSE snapshot[v]
      BY <1>t, <2>5 DEF Read, TypeOK
    <3> QED
      BY <3>1, <2>2, <2>3 DEF StoredSettled
  <2>6. CASE Write(u)
    <3>1. /\ snapshot' = snapshot /\ record' = Append(snapshot[u], u)
          /\ Settled(u)' /\ snapshot[u] \in Seq(Updates)
      BY <1>t, <2>6 DEF Write, TypeOK, Settled
    <3>2. \A i \in DOMAIN record' : record'[i] = u \/ \E j \in DOMAIN snapshot[u] : record'[i] = snapshot[u][j]
      BY <3>1
    <3> QED
      BY <3>1, <3>2, <2>2, <2>3 DEF StoredSettled
  <2> QED
    BY <2>1, <2>4, <2>5, <2>6 DEF Step
<1> QED
  BY <1>1, <1>2

LEMMA CopyStep == ChainInv /\ CopyCurrent /\ [Next]_vars => CopyCurrent'
<1> SUFFICES ASSUME ChainInv, CopyCurrent, [Next]_vars,
                    \A d \in Direct : ~Settled(d)',
                    NEW v \in Queued, pc'[v] = "writing"
             PROVE  snapshot'[v] = record'
  BY DEF CopyCurrent
<1>t. TypeOK /\ QueuedAlone /\ v \in Updates
  BY Exclusive DEF ChainInv, Queued
<1>1. CASE UNCHANGED vars
  BY <1>1 DEF vars, CopyCurrent, Settled
<1>2. CASE Next
  <2>1. PICK u \in Updates : Step(u)
    BY <1>2 DEF Next
  <2>2. \A d \in Updates : Settled(d) => Settled(d)'
    BY <1>t, <2>1 DEF TypeOK, Settled, Step, Enqueue, Begin, BeginDirect, Read, Write, Fail, Release
  <2>3. \A w \in Queued : pc[w] = "writing" => snapshot[w] = record
    BY <2>2, UpdateAssumption DEF CopyCurrent
  <2>4. CASE Enqueue(u) \/ Begin(u) \/ BeginDirect(u) \/ Fail(u) \/ Release(u)
    BY <1>t, <2>3, <2>4 DEF TypeOK, Enqueue, Begin, BeginDirect, Fail, Release
  <2>5. CASE Read(u)
    BY <1>t, <2>3, <2>5 DEF TypeOK, Read
  <2>6. CASE Write(u)
    <3>1. pc[u] = "writing" /\ Settled(u)' /\ \A w \in Updates : w # u => pc'[w] = pc[w]
      BY <1>t, <2>6 DEF Write, TypeOK, Settled
    <3>2. u \in Queued /\ v # u /\ pc[v] = "writing"
      BY <3>1, <1>t DEF Queued, Settled
    <3> QED
      BY <3>1, <3>2, <1>t DEF QueuedAlone, Busy
  <2> QED
    BY <2>1, <2>4, <2>5, <2>6 DEF Step
<1> QED
  BY <1>1, <1>2

LEMMA Invariant == Spec => []Inv
<1>1. Init => Inv
  BY ChainInit, StoredInit DEF Inv
<1>2. Inv /\ [Next]_vars => Inv'
  BY ChainStep, StoredStep, CopyStep DEF Inv
<1> QED
  BY <1>1, <1>2, PTL DEF Spec

-----------------------------------------------------------------------------
(* Refinement. *)

\* A step of the detailed specification is a step of the abstract one, or leaves
\* the record alone, as long as no caller outside the chain has come to its end.
LEMMA StepIsAtomic ==
  ASSUME Inv, [Next]_vars, \A d \in Direct : ~Settled(d)'
  PROVE  [Atomic!Next]_record
<1>1. CASE UNCHANGED vars
  BY <1>1 DEF vars
<1>2. CASE Next
  <2>1. PICK u \in Updates : Step(u)
    BY <1>2 DEF Next
  <2>t. TypeOK
    BY DEF Inv, ChainInv
  <2>2. CASE Write(u)
    <3>1. pc[u] = "writing" /\ Settled(u)' /\ record' = Append(snapshot[u], u)
      BY <2>t, <2>2 DEF Write, TypeOK, Settled
    <3>2. u \in Queued
      BY <3>1 DEF Queued
    <3>3. \A d \in Updates : Settled(d) => Settled(d)'
      BY <2>t, <2>2 DEF TypeOK, Settled, Write
    <3>4. snapshot[u] = record
      BY <3>1, <3>2, <3>3, UpdateAssumption DEF Inv, CopyCurrent
    <3>5. \A i \in DOMAIN record : record[i] # u
      BY <3>1 DEF Inv, StoredSettled, Settled
    <3> QED
      BY <3>1, <3>4, <3>5 DEF Atomic!Next, Atomic!Apply, Atomic!Holds
  <2>3. CASE ~Write(u)
    BY <2>1, <2>3 DEF Step, Enqueue, Begin, BeginDirect, Read, Fail, Release
  <2> QED
    BY <2>2, <2>3
<1> QED
  BY <1>1, <1>2

\* The callers of upsertThread update the record in one step each, until a caller
\* outside the chain comes to its end.
THEOREM NothingLost == Spec => AtomicUntilDirect
<1>1. Init => Atomic!Init
  BY DEF Init, Atomic!Init
<1>2. Inv /\ [Next]_vars => [Atomic!Next \/ \E d \in Direct : Settled(d)']_record
  BY StepIsAtomic
<1> QED
  BY <1>1, <1>2, Invariant, PTL DEF Spec, AtomicUntilDirect

\* With every caller in the chain, upsertThread implements AtomicUpdates.
THEOREM Implements ==
  ASSUME Direct = {}
  PROVE  Spec => Atomic!Spec
<1>1. Init => Atomic!Init
  BY DEF Init, Atomic!Init
<1>2. Inv /\ [Next]_vars => [Atomic!Next]_record
  BY StepIsAtomic
<1> QED
  BY <1>1, <1>2, Invariant, PTL DEF Spec, Atomic!Spec

-----------------------------------------------------------------------------
(* The tasks of the desktop scheduler. *)

RunStages == {"idle", "mark", "ask", "started", "watch", "done", "broke", "notOk", "thrown"}
Ends      == {"notOk", "done", "broke"}
Kept      == [Tasks -> TaskRecords \union {Deleted}]

TaskTypeOK ==
  /\ kind \in [Tasks -> {"at", "interval"}] /\ blank \in SUBSET Tasks
  /\ enabled \in [Places -> BOOLEAN]
  /\ atPassed \in BOOLEAN /\ disturbed \in BOOLEAN
  /\ cache \in Kept /\ disk \in Kept /\ draft \in [Procs -> Kept]
  /\ running \in SUBSET Tasks /\ stale \in SUBSET Procs
  /\ stage \in [Procs -> RunStages \union {"ensure", "due", "call", "sync", "over"}]
  /\ wr \in [Procs -> {"load", "land", "disk"}]
  /\ starts \in [Tasks -> Nat]

\* A run that has not ended is in the set, and waits for the runtime with nothing to write.
RunsInSet ==
  \A t \in Tasks : /\ stage[t] \in RunStages
                   /\ stage[t] # "idle" => t \in running
                   /\ stage[t] \in {"idle", "ask", "watch"} => wr[t] = "load"

\* What is about to be written enables no one-time task that is disabled, unless it
\* has been overtaken.
DraftsKeepOff ==
  ~disturbed => \A p \in Procs : wr[p] = "land" /\ p \notin stale =>
    \A t \in Tasks : /\ draft[p][t] # Deleted
                     /\ kind[t] = "at" /\ draft[p][t].on => cache[t].on

\* A one-time task that has started a turn is in its run, or disabled.
StartedOrOff(t) ==
  /\ starts[t] <= 1
  /\ stage[t] \in {"mark", "ask", "notOk"} => starts[t] = 0
  /\ stage[t] = "idle" => starts[t] = 0 \/ ~cache[t].on
  /\ stage[t] # "thrown"
  /\ stage[t] \in Ends /\ wr[t] = "land" => ~draft[t][t].on
  /\ stage[t] \in Ends /\ wr[t] = "disk" => ~cache[t].on

NoneStartsTwice ==
  ~disturbed => \A t \in Tasks : cache[t] # Deleted /\ (kind[t] = "at" => StartedOrOff(t))

TaskInv == TaskTypeOK /\ RunsInSet /\ DraftsKeepOff /\ NoneStartsTwice

\* What the changes make of a task: a task, and none that is disabled is enabled.
LEMMA RunWritesTask ==
  ASSUME TaskTypeOK, NEW t \in Tasks, NEW task \in TaskRecords,
         stage[t] \in {"mark", "notOk", "thrown", "started", "done", "broke"}
  PROVE  /\ RunWrites(t, task) \in TaskRecords
         /\ RunWrites(t, task).on => task.on
         /\ kind[t] = "at" /\ stage[t] \in Ends => ~RunWrites(t, task).on
<1>1. NextRunAt(t, task) \in {"none", "future", "past"}
  BY DEF NextRunAt
<1>2. CASE stage[t] \in {"mark", "started"}
  <2>1. RunWrites(t, task) = [task EXCEPT !.next = "none", !.status = "running"]
    BY <1>2 DEF RunWrites
  <2> QED
    BY <1>2, <2>1 DEF TaskRecords, Ends
<1>3. CASE stage[t] \in Ends
  <2>1. RunWrites(t, task) = Over(t, task)
    BY <1>3 DEF RunWrites, Ends
  <2>2. CASE kind[t] = "at"
    BY <2>1, <2>2 DEF Over, TaskRecords
  <2>3. CASE kind[t] # "at"
    BY <1>1, <2>1, <2>3 DEF Over, TaskRecords
  <2> QED
    BY <2>2, <2>3
<1>4. CASE stage[t] = "thrown"
  <2>1. RunWrites(t, task) = [task EXCEPT !.next = NextRunAt(t, task), !.status = "ended"]
    BY <1>4 DEF RunWrites
  <2> QED
    BY <1>1, <1>4, <2>1 DEF TaskRecords, Ends
<1> QED
  BY <1>2, <1>3, <1>4 DEF Ends

LEMMA EnsuredTask ==
  ASSUME TaskTypeOK, NEW t \in Tasks, NEW task \in TaskRecords
  PROVE  Ensured(t, task) \in TaskRecords /\ (Ensured(t, task).on => task.on)
<1>1. NextRunAt(t, task) \in {"none", "future", "past"}
  BY DEF NextRunAt
<1>2. [task EXCEPT !.next = NextRunAt(t, task)] \in TaskRecords
  BY <1>1 DEF TaskRecords
<1>3. [[task EXCEPT !.status = "ended"] EXCEPT !.next = NextRunAt(t, task)] \in TaskRecords
  BY <1>1 DEF TaskRecords
<1>4. CASE ~task.on
  <2>1. Over(t, task) \in TaskRecords /\ ~Over(t, task).on
    <3>1. CASE kind[t] = "at"
      BY <3>1 DEF Over, TaskRecords
    <3>2. CASE kind[t] # "at"
      BY <1>1, <1>4, <3>2 DEF Over, TaskRecords
    <3> QED
      BY <3>1, <3>2
  <2> QED
    BY <1>4, <2>1 DEF Ensured
<1>5. CASE task.on
  BY <1>2, <1>3, <1>5 DEF Ensured
<1> QED
  BY <1>4, <1>5 DEF TaskRecords

\* A load changes the tasks that are there, and enables none of them.
LEMMA ChangedTasks ==
  ASSUME TaskTypeOK, NEW p \in Procs, NEW tasks \in Kept,
         p \in Tasks => stage[p] \in {"mark", "notOk", "thrown", "started", "done", "broke"}
  PROVE  /\ Changed(p, tasks) \in Kept
         /\ \A t \in Tasks : tasks[t] # Deleted =>
              Changed(p, tasks)[t] # Deleted /\ (Changed(p, tasks)[t].on => tasks[t].on)
         /\ p \in Tasks /\ kind[p] = "at" /\ stage[p] \in Ends /\ tasks[p] # Deleted =>
              ~Changed(p, tasks)[p].on
<1>1. ASSUME NEW t \in Tasks
      PROVE  /\ Changed(p, tasks)[t] \in TaskRecords \union {Deleted}
             /\ tasks[t] # Deleted =>
                  Changed(p, tasks)[t] # Deleted /\ (Changed(p, tasks)[t].on => tasks[t].on)
  <2>1. CASE tasks[t] = Deleted
    BY <2>1 DEF Changed
  <2>2. CASE tasks[t] # Deleted
    <3>1. tasks[t] \in TaskRecords
      BY <2>2 DEF Kept
    <3>2. CASE p = t
      <4>1. Changed(p, tasks)[t] = RunWrites(t, tasks[t])
        BY <2>2, <3>2 DEF Changed
      <4> QED
        BY <3>1, <3>2, <4>1, RunWritesTask, TaskAssumption
    <3>3. CASE p # t /\ ~(p \notin Tasks /\ EnabledAt(p))
      BY <2>2, <3>1, <3>3, TaskAssumption DEF Changed
    <3>4. CASE p \notin Tasks /\ EnabledAt(p)
      <4>1. Changed(p, tasks)[t] = Ensured(t, tasks[t])
        BY <2>2, <3>4 DEF Changed
      <4> QED
        BY <3>1, <4>1, EnsuredTask, TaskAssumption
    <3> QED
      BY <3>2, <3>3, <3>4
  <2> QED
    BY <2>1, <2>2
<1>2. Changed(p, tasks) \in Kept
  BY <1>1 DEF Changed, Kept
<1>3. ASSUME p \in Tasks, kind[p] = "at", stage[p] \in Ends, tasks[p] # Deleted
      PROVE  ~Changed(p, tasks)[p].on
  <2>1. tasks[p] \in TaskRecords
    BY <1>3 DEF Kept
  <2>2. Changed(p, tasks)[p] = RunWrites(p, tasks[p])
    BY <1>3 DEF Changed
  <2> QED
    BY <1>3, <2>1, <2>2, RunWritesTask
<1> QED
  BY <1>1, <1>2, <1>3

LEMMA TaskInvInit == TaskInit => TaskInv
<1> SUFFICES ASSUME TaskInit PROVE TaskInv
  OBVIOUS
<1>1. NewTask \in TaskRecords
  BY DEF NewTask, TaskRecords
<1>2. TaskTypeOK
  BY <1>1 DEF TaskInit, TaskTypeOK, Kept, RunStages, AllGone, Procs
<1>3. RunsInSet
  BY DEF TaskInit, RunsInSet, RunStages, Procs
<1>4. DraftsKeepOff
  BY DEF TaskInit, DraftsKeepOff
<1>5. NoneStartsTwice
  <2>1. \A t \in Tasks : starts[t] = 0 /\ stage[t] = "idle" /\ cache[t] = NewTask
    BY DEF TaskInit, Procs
  <2>2. NewTask # Deleted
    BY <1>1, TaskAssumption
  <2>3. ASSUME NEW t \in Tasks PROVE StartedOrOff(t)
    <3>1. starts[t] = 0 /\ stage[t] = "idle"
      BY <2>1
    <3> QED
      BY <3>1 DEF StartedOrOff, Ends
  <2> QED
    BY <2>1, <2>2, <2>3 DEF NoneStartsTwice
<1> QED
  BY <1>2, <1>3, <1>4, <1>5 DEF TaskInv

-----------------------------------------------------------------------------
(* The writes. *)

\* Where a run goes after its write.
LEMMA AfterRun ==
  ASSUME NEW t \in Tasks, stage[t] \in RunStages, stage[t] \notin {"idle", "ask", "watch"}
  PROVE  /\ stage[t] = "mark" => After(t) = "ask"
         /\ stage[t] = "started" => After(t) = "watch"
         /\ stage[t] \in Ends \union {"thrown"} => After(t) = "idle"
         /\ AfterFailure(t) \in RunStages \ {"ask", "watch"}
  BY TaskAssumption DEF After, AfterFailure, Ends, RunStages

LEMMA AfterType ==
  ASSUME TaskTypeOK, NEW p \in Procs
  PROVE  /\ After(p) \in RunStages \union {"ensure", "due", "call", "sync", "over"}
         /\ AfterFailure(p) \in RunStages \union {"ensure", "due", "call", "sync", "over"}
  BY DEF After, AfterFailure, RunStages

\* Starting a write of tasks that keep to what is in the settings.
LEMMA StartsWriteStep ==
  ASSUME TaskInv, NEW p \in Procs, NEW tasks \in Kept, NEW on \in BOOLEAN, StartsWrite(p, tasks, on),
         kind' = kind, blank' = blank, cache' = cache, disk' = disk, running' = running, starts' = starts,
         atPassed' = atPassed, disturbed' \in BOOLEAN, disturbed => disturbed',
         stage' \in [Procs -> RunStages \union {"ensure", "due", "call", "sync", "over"}],
         \A t \in Tasks : stage'[t] = stage[t],
         p \in Tasks => stage[p] \notin {"idle", "ask", "watch"},
         ~disturbed' /\ Base(p) = cache =>
           \A t \in Tasks : tasks[t] # Deleted /\ (tasks[t].on => cache[t].on),
         ~disturbed' /\ p \in Tasks /\ stage[p] \in Ends /\ kind[p] = "at" => ~tasks[p].on
  PROVE  TaskInv'
<1> USE DEF TaskInv
<1>1. TaskTypeOK'
  BY DEF TaskTypeOK, StartsWrite
<1>2. Tasks \subseteq Procs
  BY DEF Procs
<1>3. RunsInSet'
  BY <1>2 DEF RunsInSet, StartsWrite, TaskTypeOK
<1>4. DraftsKeepOff'
  <2> SUFFICES ASSUME ~disturbed', NEW q \in Procs, wr'[q] = "land", q \notin stale', NEW t \in Tasks
               PROVE  draft'[q][t] # Deleted /\ (kind[t] = "at" /\ draft'[q][t].on => cache[t].on)
    BY DEF DraftsKeepOff
  <2>1. CASE q = p
    BY <2>1 DEF StartsWrite, TaskTypeOK
  <2>2. CASE q # p
    <3>1. wr[q] = "land" /\ q \notin stale /\ draft'[q] = draft[q]
      BY <2>2 DEF StartsWrite, TaskTypeOK
    <3> QED
      BY <3>1 DEF DraftsKeepOff
  <2> QED
    BY <2>1, <2>2
<1>5. NoneStartsTwice'
  <2> SUFFICES ASSUME ~disturbed', NEW t \in Tasks
               PROVE  cache[t] # Deleted /\ (kind[t] = "at" => StartedOrOff(t)')
    BY DEF NoneStartsTwice
  <2>1. cache[t] # Deleted /\ (kind[t] = "at" => StartedOrOff(t))
    BY DEF NoneStartsTwice
  <2>2. CASE t = p
    <3>1. wr'[t] = "land" /\ draft'[t][t] = tasks[p]
      BY <1>2, <2>2 DEF StartsWrite, TaskTypeOK
    <3> QED
      BY <2>1, <2>2, <3>1 DEF StartedOrOff
  <2>3. CASE t # p
    <3>1. wr'[t] = wr[t] /\ draft'[t] = draft[t]
      BY <1>2, <2>3 DEF StartsWrite, TaskTypeOK
    <3> QED
      BY <2>1, <3>1 DEF StartedOrOff
  <2> QED
    BY <2>2, <2>3
<1> QED
  BY <1>1, <1>3, <1>4, <1>5

LEMMA LoadStep == ASSUME TaskInv, NEW p \in Procs, Load(p) PROVE TaskInv'
<1> USE DEF TaskInv
<1>1. Tasks \subseteq Procs /\ stage[p] \notin {"idle", "ask", "watch"} /\ Base(p) \in Kept
  BY DEF Load, Procs, Base, TaskTypeOK
<1>2. p \in Tasks => /\ stage[p] \in {"mark", "notOk", "thrown", "started", "done", "broke"}
                     /\ Base(p) = cache
  BY DEF Load, RunsInSet, RunStages, Base
<1>3. Changed(p, Base(p)) \in Kept
  BY <1>1, <1>2, ChangedTasks
<1>4. CASE StartsWrite(p, Changed(p, Base(p)), EnabledAt(p)) /\ UNCHANGED stage
  <2>1. ~disturbed /\ Base(p) = cache =>
          \A t \in Tasks : Changed(p, Base(p))[t] # Deleted
                           /\ (Changed(p, Base(p))[t].on => cache[t].on)
    BY <1>1, <1>2, ChangedTasks DEF NoneStartsTwice
  <2>2. ~disturbed /\ p \in Tasks /\ stage[p] \in Ends /\ kind[p] = "at" =>
          ~Changed(p, Base(p))[p].on
    BY <1>1, <1>2, ChangedTasks DEF NoneStartsTwice
  <2>3. UNCHANGED <<kind, blank, atPassed, cache, disk, running, starts, disturbed>>
    BY DEF Load
  <2>4. EnabledAt(p) \in BOOLEAN
    BY DEF EnabledAt, TaskTypeOK, Places
  <2>5. stage' \in [Procs -> RunStages \union {"ensure", "due", "call", "sync", "over"}]
    BY <1>4 DEF TaskTypeOK
  <2> HIDE DEF TaskInv
  <2> QED
    BY <1>1, <1>3, <1>4, <2>1, <2>2, <2>3, <2>4, <2>5, StartsWriteStep DEF TaskInv, TaskTypeOK
<1>5. CASE p \notin Tasks /\ Goto(p, After(p)) /\ UNCHANGED <<wr, draft, enabled, stale>>
  <2>1. UNCHANGED <<kind, blank, atPassed, cache, disk, enabled, running, starts, disturbed, wr, draft, stale>>
    BY <1>5 DEF Load
  <2>2. TaskTypeOK'
    BY <1>5, <2>1, AfterType DEF TaskTypeOK, Goto
  <2>3. \A t \in Tasks : stage'[t] = stage[t]
    BY <1>1, <1>5 DEF Goto, TaskTypeOK
  <2> QED
    BY <2>1, <2>2, <2>3 DEF RunsInSet, DraftsKeepOff, NoneStartsTwice, StartedOrOff
<1> QED
  BY <1>4, <1>5 DEF Load

LEMMA LandStep == ASSUME TaskInv, NEW p \in Procs, Land(p) PROVE TaskInv'
<1> USE DEF TaskInv
<1>1. Tasks \subseteq Procs
  BY DEF Procs
<1>2. /\ cache' = draft[p] /\ wr[p] = "land" /\ wr' = [wr EXCEPT ![p] = "disk"]
      /\ UNCHANGED <<kind, blank, atPassed, disk, running, stage, draft, starts>>
      /\ disturbed' = (disturbed \/ p \in stale)
  BY DEF Land
<1>3. TaskTypeOK'
  <2>1. enabled' \in [Places -> BOOLEAN]
    BY DEF Land, TaskTypeOK, Places
  <2> QED
    BY <2>1 DEF Land, TaskTypeOK
<1>4. RunsInSet'
  BY <1>1, <1>2 DEF RunsInSet, TaskTypeOK
<1>5. DraftsKeepOff'
  <2>1. \A q \in Procs : ~(wr'[q] = "land" /\ q \notin stale')
    BY <1>2 DEF Land, TaskTypeOK
  <2> QED
    BY <2>1 DEF DraftsKeepOff
<1>6. NoneStartsTwice'
  <2> SUFFICES ASSUME ~disturbed', NEW t \in Tasks
               PROVE  cache'[t] # Deleted /\ (kind[t] = "at" => StartedOrOff(t)')
    BY <1>2 DEF NoneStartsTwice
  <2>1. cache[t] # Deleted /\ (kind[t] = "at" => StartedOrOff(t))
    BY <1>2 DEF NoneStartsTwice
  <2>2. cache'[t] # Deleted /\ (kind[t] = "at" /\ cache'[t].on => cache[t].on)
    BY <1>2 DEF DraftsKeepOff
  <2>3. CASE t = p
    BY <1>1, <1>2, <2>1, <2>2, <2>3 DEF StartedOrOff, TaskTypeOK
  <2>4. CASE t # p
    <3>1. wr'[t] = wr[t]
      BY <1>1, <1>2, <2>4 DEF TaskTypeOK
    <3> QED
      BY <1>2, <2>1, <2>2, <3>1 DEF StartedOrOff
  <2> QED
    BY <2>3, <2>4
<1> QED
  BY <1>3, <1>4, <1>5, <1>6

LEMMA WrittenStep == ASSUME TaskInv, NEW p \in Procs, Written(p) PROVE TaskInv'
<1> USE DEF TaskInv
<1>1. Tasks \subseteq Procs
  BY DEF Procs
<1>2. /\ wr[p] = "disk" /\ wr' = [wr EXCEPT ![p] = "load"]
      /\ stage' = [stage EXCEPT ![p] = After(p)]
      /\ UNCHANGED <<kind, blank, atPassed, cache, stale, starts, disturbed>>
      /\ \A q \in Procs \ {p} : draft'[q] = draft[q]
  BY DEF Written, Goto, TaskTypeOK
<1>3. p \in Tasks => /\ stage[p] \in RunStages \ {"idle", "ask", "watch"}
                     /\ stage[p] = "mark" => After(p) = "ask"
                     /\ stage[p] = "started" => After(p) = "watch"
                     /\ stage[p] \in Ends \union {"thrown"} => After(p) = "idle"
  BY <1>2, AfterRun DEF RunsInSet
<1>4. TaskTypeOK'
  <2>1. AllGone \in Kept
    BY DEF AllGone, Kept
  <2>2. enabled[p] \in BOOLEAN /\ (stage[p] = "call" /\ enabled[p]) \in BOOLEAN
    BY DEF TaskTypeOK, Places
  <2>3. enabled' = [[enabled EXCEPT !["disk"] = enabled[p]] EXCEPT ![p] = stage[p] = "call" /\ @]
    BY DEF Written
  <2>4. enabled' \in [Places -> BOOLEAN]
    BY <2>2, <2>3 DEF TaskTypeOK
  <2>5. /\ draft' \in [Procs -> Kept] /\ disk' \in Kept /\ running' \in SUBSET Tasks
        /\ stage' \in [Procs -> RunStages \union {"ensure", "due", "call", "sync", "over"}]
        /\ wr' \in [Procs -> {"load", "land", "disk"}]
    BY <1>2, <2>1, AfterType DEF Written, OffTheSet, TaskTypeOK
  <2> QED
    BY <1>2, <2>4, <2>5 DEF TaskTypeOK
<1>5. RunsInSet'
  <2> SUFFICES ASSUME NEW t \in Tasks
               PROVE  /\ stage'[t] \in RunStages
                      /\ stage'[t] # "idle" => t \in running'
                      /\ stage'[t] \in {"idle", "ask", "watch"} => wr'[t] = "load"
    BY DEF RunsInSet
  <2>1. running' = IF p \in Tasks /\ After(p) = "idle" THEN running \ {p} ELSE running
    BY DEF Written, OffTheSet
  <2>2. CASE t = p
    BY <1>1, <1>2, <1>3, <2>1, <2>2 DEF RunsInSet, RunStages, Ends, TaskTypeOK
  <2>3. CASE t # p
    BY <1>1, <1>2, <2>1, <2>3 DEF RunsInSet, TaskTypeOK
  <2> QED
    BY <2>2, <2>3
<1>6. DraftsKeepOff'
  BY <1>2 DEF DraftsKeepOff, TaskTypeOK
<1>7. NoneStartsTwice'
  <2> SUFFICES ASSUME ~disturbed, NEW t \in Tasks
               PROVE  cache[t] # Deleted /\ (kind[t] = "at" => StartedOrOff(t)')
    BY <1>2 DEF NoneStartsTwice
  <2>1. cache[t] # Deleted /\ (kind[t] = "at" => StartedOrOff(t))
    BY DEF NoneStartsTwice
  <2>2. CASE t = p
    BY <1>1, <1>2, <1>3, <2>1, <2>2 DEF StartedOrOff, TaskTypeOK, RunStages, Ends
  <2>3. CASE t # p
    <3>1. wr'[t] = wr[t] /\ draft'[t] = draft[t] /\ stage'[t] = stage[t]
      BY <1>1, <1>2, <2>3 DEF TaskTypeOK
    <3> QED
      BY <1>2, <2>1, <3>1 DEF StartedOrOff
  <2> QED
    BY <2>2, <2>3
<1> QED
  BY <1>4, <1>5, <1>6, <1>7

\* What is disturbed keeps the types and the set.
LEMMA DisturbedStep ==
  ASSUME TaskTypeOK', RunsInSet', disturbed' = TRUE PROVE TaskInv'
  BY DEF TaskInv, DraftsKeepOff, NoneStartsTwice

LEMMA WriteFailsStep == ASSUME TaskInv, NEW p \in Procs, WriteFails(p) PROVE TaskInv'
<1> USE DEF TaskInv
<1>1. Tasks \subseteq Procs
  BY DEF Procs
<1>2. /\ wr[p] = "disk" /\ wr' = [wr EXCEPT ![p] = "load"] /\ disturbed' = TRUE
      /\ stage' = [stage EXCEPT ![p] = AfterFailure(p)]
  BY DEF WriteFails, Goto
<1>3. TaskTypeOK'
  <2>1. AllGone \in Kept
    BY DEF AllGone, Kept
  <2> QED
    BY <2>1, AfterType DEF WriteFails, Goto, OffTheSet, TaskTypeOK
<1>4. RunsInSet'
  <2> SUFFICES ASSUME NEW t \in Tasks
               PROVE  /\ stage'[t] \in RunStages
                      /\ stage'[t] # "idle" => t \in running'
                      /\ stage'[t] \in {"idle", "ask", "watch"} => wr'[t] = "load"
    BY DEF RunsInSet
  <2>1. running' = IF stage[p] = "broke" /\ p \in Tasks THEN running \ {p} ELSE running
    BY DEF WriteFails, OffTheSet
  <2>2. CASE t = p
    <3>1. stage[t] \in RunStages \ {"idle", "ask", "watch"} /\ t \in running
      BY <1>2, <2>2 DEF RunsInSet
    <3>2. AfterFailure(t) \in RunStages \ {"ask", "watch"}
          /\ (stage[t] = "broke" => AfterFailure(t) = "idle")
      BY <3>1, AfterRun, TaskAssumption DEF AfterFailure
    <3> QED
      BY <1>1, <1>2, <2>1, <2>2, <3>1, <3>2 DEF TaskTypeOK
  <2>3. CASE t # p
    BY <1>1, <1>2, <2>1, <2>3 DEF RunsInSet, TaskTypeOK
  <2> QED
    BY <2>2, <2>3
<1> QED
  BY <1>2, <1>3, <1>4, DisturbedStep

-----------------------------------------------------------------------------
(* Ticks, runs and calls. *)

\* A tick begins, or the sync after a call ends.
LEMMA TickStep ==
  ASSUME TaskInv, NEW k \in Procs \ Tasks, Goto(k, "ensure") \/ Goto(k, "over"),
         UNCHANGED <<kind, blank, atPassed, cache, disk, enabled, running, wr, draft, stale, starts, disturbed>>
  PROVE  TaskInv'
<1>1. \A t \in Tasks : stage'[t] = stage[t]
  BY DEF Goto, TaskInv, TaskTypeOK, Procs
<1>2. TaskTypeOK'
  BY DEF TaskInv, TaskTypeOK, Goto
<1> QED
  BY <1>1, <1>2 DEF TaskInv, RunsInSet, DraftsKeepOff, NoneStartsTwice, StartedOrOff

\* Runs that begin: of tasks that are not in the set, which have no turn to start or are on.
LEMMA BeginStep ==
  ASSUME TaskInv, NEW ts \in SUBSET (Tasks \ running), NEW p \in Procs \ Tasks, BeginRuns(ts, p),
         UNCHANGED <<kind, blank, atPassed, cache, disk, enabled, wr, draft, stale, starts>>,
         disturbed' \in BOOLEAN, disturbed => disturbed',
         ~disturbed' => \A t \in ts : cache[t].on
  PROVE  TaskInv'
<1> USE DEF TaskInv
<1>1. /\ running' = running \union (ts \ blank)
      /\ stage' = [q \in Procs |-> IF q \in ts \ blank THEN "mark" ELSE IF q = p THEN After(p) ELSE stage[q]]
  BY DEF BeginRuns
<1>2. \A t \in Tasks : stage'[t] = IF t \in ts \ blank THEN "mark" ELSE stage[t]
  BY <1>1 DEF Procs
<1>3. TaskTypeOK'
  BY <1>1, AfterType DEF TaskTypeOK, RunStages
<1>4. RunsInSet'
  BY <1>1, <1>2 DEF RunsInSet, RunStages
<1>5. DraftsKeepOff'
  BY DEF DraftsKeepOff
<1>6. NoneStartsTwice'
  <2> SUFFICES ASSUME ~disturbed', NEW t \in Tasks
               PROVE  cache[t] # Deleted /\ (kind[t] = "at" => StartedOrOff(t)')
    BY DEF NoneStartsTwice
  <2>1. cache[t] # Deleted /\ (kind[t] = "at" => StartedOrOff(t))
    BY DEF NoneStartsTwice
  <2>2. CASE t \in ts \ blank
    <3>1. stage[t] = "idle" /\ cache[t].on /\ stage'[t] = "mark"
      BY <1>2, <2>2 DEF RunsInSet
    <3> QED
      BY <2>1, <3>1 DEF StartedOrOff, Ends
  <2>3. CASE t \notin ts \ blank
    BY <1>2, <2>1, <2>3 DEF StartedOrOff
  <2> QED
    BY <2>2, <2>3
<1> QED
  BY <1>3, <1>4, <1>5, <1>6

LEMMA StartDueStep == ASSUME TaskInv, NEW k \in Ticks, StartDue(k) PROVE TaskInv'
<1> DEFINE ts == {t \in Tasks : Due(t)}
<1>1. ts \in SUBSET (Tasks \ running) /\ \A t \in ts : cache[t].on
  BY DEF Due
<1>2. k \in Procs \ Tasks
  BY TaskAssumption DEF Procs
<1>3. /\ BeginRuns(ts, k)
      /\ UNCHANGED <<kind, blank, atPassed, cache, disk, enabled, wr, draft, stale, starts, disturbed>>
  BY DEF StartDue
<1> HIDE DEF ts
<1> QED
  BY <1>1, <1>2, <1>3, BeginStep DEF TaskInv, TaskTypeOK

LEMMA RunNowStep ==
  ASSUME TaskInv, NEW c \in Calls, NEW t \in Tasks, RunNow(c, t) PROVE TaskInv'
<1>1. c \in Procs \ Tasks /\ {t} \in SUBSET (Tasks \ running)
  BY TaskAssumption DEF Procs, RunNow
<1>2. /\ BeginRuns({t}, c) /\ disturbed' = TRUE
      /\ UNCHANGED <<kind, blank, atPassed, cache, disk, enabled, wr, draft, stale, starts>>
  BY DEF RunNow
<1> QED
  BY <1>1, <1>2, BeginStep

LEMMA AskStep == ASSUME TaskInv, NEW t \in Tasks, Ask(t) PROVE TaskInv'
<1> USE DEF TaskInv
<1>1. /\ stage[t] = "ask" /\ t \in running /\ wr[t] = "load" /\ t \in Procs
      /\ UNCHANGED <<kind, blank, atPassed, cache, disk, enabled, running, wr, draft, stale>>
  BY DEF Ask, RunsInSet, Procs
<1>2. PICK place \in {"started", "notOk", "thrown"} : stage' = [stage EXCEPT ![t] = place]
  BY DEF Ask, Goto
<1>3. TaskTypeOK'
  <2>1. starts[t] \in Nat /\ (IF starts[t] < 2 THEN starts[t] + 1 ELSE starts[t]) \in Nat
    BY DEF TaskTypeOK
  <2>2. starts' \in [Tasks -> Nat]
    BY <2>1 DEF Ask, TaskTypeOK
  <2>3. disturbed' \in BOOLEAN
    BY DEF Ask, TaskTypeOK
  <2> QED
    BY <1>1, <1>2, <2>2, <2>3 DEF TaskTypeOK, RunStages
<1>4. RunsInSet'
  BY <1>1, <1>2 DEF RunsInSet, RunStages, TaskTypeOK
<1>5. CASE disturbed' = TRUE
  BY <1>3, <1>4, <1>5, DisturbedStep
<1>6. CASE disturbed' # TRUE
  <2>1. UNCHANGED disturbed /\ place # "thrown"
        /\ starts' = IF place = "started" THEN [starts EXCEPT ![t] = IF @ < 2 THEN @ + 1 ELSE @]
                     ELSE starts
    BY <1>1, <1>2, <1>6 DEF Ask, Goto, TaskTypeOK
  <2>2. DraftsKeepOff'
    BY <1>1, <2>1 DEF DraftsKeepOff
  <2>3. NoneStartsTwice'
    <3> SUFFICES ASSUME ~disturbed, NEW u \in Tasks
                 PROVE  cache[u] # Deleted /\ (kind[u] = "at" => StartedOrOff(u)')
      BY <1>1, <2>1 DEF NoneStartsTwice
    <3>1. cache[u] # Deleted /\ (kind[u] = "at" => StartedOrOff(u))
      BY DEF NoneStartsTwice
    <3>2. CASE u = t
      BY <1>1, <1>2, <2>1, <3>1, <3>2 DEF StartedOrOff, TaskTypeOK, Ends
    <3>3. CASE u # t
      <4>1. stage'[u] = stage[u] /\ starts'[u] = starts[u]
        BY <1>2, <2>1, <3>3 DEF TaskTypeOK
      <4> QED
        BY <1>1, <3>1, <4>1 DEF StartedOrOff
    <3> QED
      BY <3>2, <3>3
  <2> QED
    BY <1>3, <1>4, <2>2, <2>3
<1> QED
  BY <1>5, <1>6

LEMMA AnswerStep == ASSUME TaskInv, NEW t \in Tasks, Answer(t) PROVE TaskInv'
<1> USE DEF TaskInv
<1>1. /\ stage[t] = "watch" /\ t \in running /\ wr[t] = "load" /\ t \in Procs
      /\ UNCHANGED <<kind, blank, atPassed, cache, disk, enabled, running, wr, draft, stale, starts, disturbed>>
  BY DEF Answer, RunsInSet, Procs
<1>2. PICK place \in {"done", "broke"} : stage' = [stage EXCEPT ![t] = place]
  BY DEF Answer, Goto
<1>3. \A u \in Tasks \ {t} : stage'[u] = stage[u]
  BY <1>2
<1>4. stage'[t] = place
  BY <1>1, <1>2 DEF TaskTypeOK
<1>5. TaskTypeOK'
  BY <1>1, <1>2 DEF TaskTypeOK, RunStages
<1>6. RunsInSet'
  BY <1>1, <1>3, <1>4 DEF RunsInSet, RunStages
<1>7. NoneStartsTwice'
  BY <1>1, <1>3, <1>4 DEF NoneStartsTwice, StartedOrOff
<1> QED
  BY <1>1, <1>5, <1>6, <1>7 DEF DraftsKeepOff

LEMMA CallStep ==
  ASSUME TaskInv, NEW c \in Calls, NEW o \in Ops, NEW ts \in SUBSET Tasks, Call(c, o, ts)
  PROVE  TaskInv'
<1> DEFINE written == [t \in Tasks |-> IF t \in ts THEN CallWrites(o, cache[t]) ELSE cache[t]]
<1> USE DEF TaskInv
<1>1. c \in Procs /\ c \notin Tasks
  BY TaskAssumption DEF Procs
<1>2. /\ Goto(c, "call") /\ \E on \in BOOLEAN : StartsWrite(c, written, on)
      /\ disturbed' = (disturbed \/ ts # {})
      /\ UNCHANGED <<kind, blank, atPassed, cache, disk, running, starts, faults>>
  BY DEF Call
<1>3. written \in Kept
  <2>1. ASSUME NEW t \in ts PROVE CallWrites(o, cache[t]) \in TaskRecords \union {Deleted}
    <3>1. CASE o = "create"
      BY <3>1 DEF CallWrites, NewTask, TaskRecords
    <3>2. CASE o = "delete"
      BY <3>2 DEF CallWrites
    <3>3. CASE o \in {"enable", "disable"}
      <4>1. cache[t] \in TaskRecords
        BY <3>3, TaskAssumption DEF Call, Live, TaskTypeOK, Kept
      <4>2. CASE o = "enable"
        BY <4>1, <4>2 DEF CallWrites, TaskRecords
      <4>3. CASE o = "disable"
        BY <4>1, <4>3 DEF CallWrites, TaskRecords
      <4> QED
        BY <3>3, <4>2, <4>3
    <3> QED
      BY <3>1, <3>2, <3>3 DEF Ops
  <2> QED
    BY <2>1 DEF TaskTypeOK, Kept
<1>4. ~disturbed' => \A t \in Tasks : written[t] = cache[t] /\ cache[t] # Deleted
  BY <1>2 DEF NoneStartsTwice
<1>5. stage' \in [Procs -> RunStages \union {"ensure", "due", "call", "sync", "over"}]
      /\ \A t \in Tasks : stage'[t] = stage[t]
  BY <1>1, <1>2 DEF Goto, TaskTypeOK, Procs
<1> HIDE DEF written
<1>6. disturbed' \in BOOLEAN /\ (disturbed => disturbed')
  BY <1>2 DEF TaskTypeOK
<1> QED
  BY <1>1, <1>2, <1>3, <1>4, <1>5, <1>6, StartsWriteStep

\* The clock enables and disables nothing.
LEMMA PassTasks ==
  ASSUME NEW tasks \in Kept
  PROVE  /\ Pass(tasks) \in Kept
         /\ \A t \in Tasks : /\ tasks[t] # Deleted => Pass(tasks)[t] # Deleted
                             /\ Pass(tasks)[t].on = tasks[t].on
<1>1. ASSUME NEW t \in Tasks
      PROVE  /\ Pass(tasks)[t] \in TaskRecords \union {Deleted}
             /\ tasks[t] # Deleted => Pass(tasks)[t] # Deleted
             /\ Pass(tasks)[t].on = tasks[t].on
  <2>1. CASE tasks[t] = Deleted
    BY <2>1 DEF Pass
  <2>2. CASE tasks[t] # Deleted
    <3>1. tasks[t] \in TaskRecords
      BY <2>2 DEF Kept
    <3>2. Pass(tasks)[t] \in TaskRecords /\ Pass(tasks)[t].on = tasks[t].on
      BY <3>1 DEF Pass, TaskRecords
    <3> QED
      BY <3>2, TaskAssumption
  <2> QED
    BY <2>1, <2>2
<1> QED
  BY <1>1 DEF Pass, Kept

LEMMA TimePassesStep == ASSUME TaskInv, TimePasses PROVE TaskInv'
<1> USE DEF TaskInv
<1>1. /\ cache' = Pass(cache) /\ disk' = Pass(disk) /\ draft' = [p \in Procs |-> Pass(draft[p])]
      /\ atPassed' = TRUE /\ UNCHANGED <<kind, blank, enabled, running, stage, wr, stale, starts, disturbed>>
  BY DEF TimePasses
<1>2. Tasks \subseteq Procs
  BY DEF Procs
<1>3. TaskTypeOK'
  BY <1>1, PassTasks DEF TaskTypeOK
<1>4. RunsInSet'
  BY <1>1 DEF RunsInSet
<1>5. cache \in Kept /\ \A p \in Procs : draft[p] \in Kept /\ draft'[p] = Pass(draft[p])
  BY <1>1 DEF TaskTypeOK
<1>6. NoneStartsTwice'
  <2> SUFFICES ASSUME ~disturbed, NEW t \in Tasks
               PROVE  cache'[t] # Deleted /\ (kind[t] = "at" => StartedOrOff(t)')
    BY <1>1 DEF NoneStartsTwice
  <2>1. cache[t] # Deleted /\ (kind[t] = "at" => StartedOrOff(t))
    BY DEF NoneStartsTwice
  <2>2. cache'[t] # Deleted /\ cache'[t].on = cache[t].on
    BY <1>1, <1>5, <2>1, PassTasks
  <2>3. draft'[t][t].on = draft[t][t].on
    <3>1. draft[t] \in Kept /\ draft'[t] = Pass(draft[t])
      BY <1>2, <1>5
    <3> QED
      BY <3>1, PassTasks
  <2> QED
    BY <1>1, <2>1, <2>2, <2>3 DEF StartedOrOff
<1>7. DraftsKeepOff'
  <2> SUFFICES ASSUME ~disturbed, NEW p \in Procs, wr[p] = "land", p \notin stale, NEW t \in Tasks
               PROVE  draft'[p][t] # Deleted /\ (kind[t] = "at" /\ draft'[p][t].on => cache'[t].on)
    BY <1>1 DEF DraftsKeepOff
  <2>1. draft[p][t] # Deleted /\ (kind[t] = "at" /\ draft[p][t].on => cache[t].on)
        /\ cache[t] # Deleted
    BY DEF DraftsKeepOff, NoneStartsTwice
  <2> QED
    BY <1>1, <1>5, <2>1, PassTasks
<1> QED
  BY <1>3, <1>4, <1>6, <1>7

LEMMA RestartStep == ASSUME TaskInv, Restart PROVE TaskInv'
<1>1. TaskTypeOK'
  <2>1. AllGone \in Kept
    BY DEF AllGone, Kept
  <2> QED
    BY <2>1 DEF TaskInv, TaskTypeOK, Restart, RunStages
<1>2. RunsInSet'
  BY TaskAssumption DEF Restart, RunsInSet, RunStages, Procs
<1> QED
  BY <1>1, <1>2, DisturbedStep DEF Restart

LEMMA TaskInvStep == TaskInv /\ [TaskNext]_taskVars => TaskInv'
<1> SUFFICES ASSUME TaskInv, [TaskNext]_taskVars PROVE TaskInv'
  OBVIOUS
<1>1. CASE UNCHANGED taskVars
  BY <1>1 DEF taskVars, TaskInv, TaskTypeOK, RunsInSet, DraftsKeepOff, NoneStartsTwice, StartedOrOff
<1>2. ASSUME NEW p \in Procs, Load(p) \/ Land(p) \/ Written(p) \/ WriteFails(p) PROVE TaskInv'
  BY <1>2, LoadStep, LandStep, WrittenStep, WriteFailsStep
<1>3. ASSUME NEW k \in Ticks, Tick(k) \/ StartDue(k) PROVE TaskInv'
  <2>1. k \in Procs \ Tasks
    BY TaskAssumption DEF Procs
  <2> QED
    BY <1>3, <2>1, TickStep, StartDueStep DEF Tick
<1>4. ASSUME NEW t \in Tasks, Ask(t) \/ Answer(t) PROVE TaskInv'
  BY <1>4, AskStep, AnswerStep
<1>5. ASSUME NEW c \in Calls, NEW t \in Tasks, RunNow(c, t) PROVE TaskInv'
  BY <1>5, RunNowStep
<1>6. ASSUME NEW c \in Calls, NEW o \in Ops, NEW ts \in SUBSET Tasks, Call(c, o, ts) PROVE TaskInv'
  BY <1>6, CallStep
<1>7. ASSUME NEW c \in Calls, EndSync(c) PROVE TaskInv'
  <2>1. c \in Procs \ Tasks
    BY TaskAssumption DEF Procs
  <2> QED
    BY <1>7, <2>1, TickStep DEF EndSync
<1>8. CASE TimePasses \/ Restart
  BY <1>8, TimePassesStep, RestartStep
<1> QED
  <2>1. "enable" \in Ops /\ {} \in SUBSET Tasks /\ \A t \in Tasks : {t} \in SUBSET Tasks
    BY DEF Ops
  <2> QED
    BY <1>1, <1>2, <1>3, <1>4, <1>5, <1>6, <1>7, <1>8, <2>1 DEF TaskNext

\* The tasks, the writes and the runs keep the types the code gives them.
THEOREM TasksTypeCorrect == TaskSpec => []TaskTypeOK
<1>1. TaskInv => TaskTypeOK
  BY DEF TaskInv
<1> QED
  BY <1>1, TaskInvInit, TaskInvStep, PTL DEF TaskSpec

\* For any tasks, ticks and calls: a one-time task starts one turn, as long as nobody
\* calls on it, and no write is lost or fails.
THEOREM StartsOnce == TaskSpec => []OneTimeOnce
<1>1. TaskInv => OneTimeOnce
  BY DEF TaskInv, NoneStartsTwice, StartedOrOff, OneTimeOnce
<1> QED
  BY <1>1, TaskInvInit, TaskInvStep, PTL DEF TaskSpec
=============================================================================
