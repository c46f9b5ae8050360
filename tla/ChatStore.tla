------------------------------ MODULE ChatStore ------------------------------
(***************************************************************************)
(* The store of the desktop's chat (renderer/src/store): which thread is     *)
(* shown, the stream of events that feeds it, the messages that wait for     *)
(* the end of a turn, and the asynchronous operations on them: selectThread, *)
(* recoverActiveTurn, sendMessage, interrupt, drainQueuedMessages.           *)
(*                                                                          *)
(* What the code does between two awaits is a function from one state of the *)
(* store to the next. A turn of the runtime is known by the place of its     *)
(* first event; its text is one delta. Blocks other than text, and threads   *)
(* yet to be created, are left out.                                          *)
(***************************************************************************)
EXTENDS Naturals, Sequences, FiniteSets, FiniteSetsExt

CONSTANTS Threads, Messages,
          MaxOps,      \* bound of the operations under way at once
          MaxStreams,  \* bound of the streams open at once
          MaxAttempts, \* MAX_BUSY_RECOVERY_ATTEMPTS
          MaxCalls,    \* bound of the selections and interrupts of the user
          MaxFaults,   \* bound of failed requests and streams
          MaxLog,      \* bound of the events of a thread
          Nil

ASSUME ChatAssumption ==
  /\ MaxOps \in Nat /\ MaxStreams \in Nat /\ MaxLog \in Nat /\ MaxAttempts \in Nat
  /\ Nil \notin Threads /\ Nil \notin Messages /\ Nil \notin Nat
  /\ Nil \notin [thread : Threads, at : Nat, recovers : BOOLEAN]

Ops     == 1..MaxOps
Streams == 1..MaxStreams

VARIABLES ui,     \* the store
          log,    \* the events of each thread
          typed,  \* history: the thread a message was typed in
          sent,   \* history: the threads whose runtime took it, in order
          crossed,\* history: a send failed, or a recovery ended, when another thread was active
          overlap,\* history: a load or a send began while another was under way
          early,  \* history: the store took a turn for ended that had not, or not for it:
                  \*   an interrupt was answered before the events of its turn were shown,
                  \*   or came when that turn had ended, the stream broke off before that
                  \*   with an error that reads like an interrupt, the watchdog gave up,
                  \*   or the answer to a send was lost
          calls, faults

chatVars == <<ui, log, typed, sent, crossed, overlap, early, calls, faults>>

Idle == [kind |-> "none"]

ChatInit ==
  /\ \E t \in Threads :
       ui = [active |-> t, seq |-> 0, busy |-> FALSE, turn |-> Nil, queue |-> <<>>,
             ref |-> Nil, streams |-> [s \in Streams |-> Nil], armed |-> FALSE, attempts |-> 0,
             draining |-> Nil, op |-> [o \in Ops |-> Idle], base |-> 0, shown |-> <<>>]
  /\ log = [t \in Threads |-> <<>>] /\ typed = [m \in Messages |-> Nil] /\ sent = [m \in Messages |-> <<>>]
  /\ crossed = FALSE /\ overlap = FALSE /\ early = FALSE
  /\ calls = 0 /\ faults = 0

\* How a turn ends: turn_completed or turn_aborted; turn_failed; turn_failed with an
\* error that reads like an interrupt (isInterruptSettledError).
EndKinds == {"done", "failed", "cancelled"}

\* The turns of a thread that had begun and not ended with its n-th event.
RunningAt(t, n) ==
  {i \in 1..n : log[t][i].kind = "user"
                /\ \A j \in 1..n : ~(log[t][j].kind \in EndKinds /\ log[t][j].turn = i)}

-----------------------------------------------------------------------------
(* Operations and streams                                                   *)

FreeOps(u)     == {o \in Ops : u.op[o] = Idle}
FreeStreams(u) == {s \in Streams : u.streams[s] = Nil}
Begin(u, rec)  == [u EXCEPT !.op[Min(FreeOps(u))] = rec]
Over(u, o)     == [u EXCEPT !.op[o] = Idle]

\* sseAbortRef.current?.abort()
Abort(u) ==
  IF u.ref = Nil THEN u ELSE [u EXCEPT !.streams[u.ref] = Nil, !.ref = Nil]

\* The new stream takes the place of what sseAbortRef holds, which goes on.
Subscribe(u, t, after, recovers) ==
  LET s == Min(FreeStreams(u))
  IN  [u EXCEPT !.ref = s, !.streams[s] = [thread |-> t, at |-> after, recovers |-> recovers]]

-----------------------------------------------------------------------------
(* sendMessage and drainQueuedMessages                                      *)

\* `rest` is the queue without the message, if it was taken from there.
BeginSend(u, m, rest) ==
  Begin([Abort(u) EXCEPT !.busy = TRUE, !.armed = FALSE, !.attempts = 0, !.queue = rest],
        [kind |-> "send", at |-> "asking", thread |-> u.active, msg |-> m,
         saved |-> u.queue, seq |-> u.seq, turn |-> Nil])

\* Nothing is done while another drain is under way, or the thread is busy.
Drain(u) ==
  IF u.draining # Nil \/ u.busy \/ u.queue = <<>> THEN u
  ELSE [BeginSend(u, Head(u.queue), Tail(u.queue)) EXCEPT !.draining = Min(FreeOps(u))]

\* The loop of the drain that sent with `o` goes on, or ends.
DrainOn(u, o, started) ==
  IF u.draining # o THEN u
  ELSE IF started THEN Drain([u EXCEPT !.draining = Nil]) ELSE [u EXCEPT !.draining = Nil]

\* A failed send puts the queue back as it found it.
FailedSend(u, o) ==
  DrainOn([Over(u, o) EXCEPT !.armed = FALSE, !.busy = FALSE, !.turn = Nil, !.queue = u.op[o].saved],
          o, FALSE)

EndedSend(u, o) ==
  DrainOn([Subscribe(Over(u, o), u.op[o].thread, u.op[o].seq, TRUE) EXCEPT !.turn = u.op[o].turn, !.armed = TRUE],
          o, TRUE)

-----------------------------------------------------------------------------
(* selectThread, recoverActiveTurn, interrupt                               *)

BeginLoad(u, kind, t) ==
  Begin([Abort(u) EXCEPT !.armed = FALSE, !.attempts = IF kind = "select" THEN 0 ELSE @],
        [kind |-> kind, thread |-> t, turn |-> u.turn, busy |-> u.busy, from |-> Len(log[t])])

BeginRecover(u) == BeginLoad(u, "recover", u.active)

\* What a load found: the status of the thread as of one event, the last event as of another.
Loaded(u, t, status, n, turn) ==
  [u EXCEPT !.active = t, !.seq = n, !.base = n, !.shown = <<>>,
            !.busy = RunningAt(t, status) # {},
            !.turn = IF RunningAt(t, status) = {} THEN Nil ELSE turn,
            !.armed = @ \/ RunningAt(t, status) # {}]

Latest(t, n) == IF RunningAt(t, n) = {} THEN Nil ELSE Max(RunningAt(t, n))

Selected(u, o, status, n) ==
  LET t == u.op[o].thread
  IN  [Subscribe(Loaded(Over(u, o), t, status, n, Latest(t, status)), t, n, TRUE) EXCEPT !.queue = <<>>]

\* Mutant: the events since the last one shown come again.
RecoveredFromSeq(u, o, status, n) ==
  LET t == u.op[o].thread
      v == Subscribe(Loaded(Over(u, o), t, status, n,
                            IF u.op[o].turn # Nil THEN u.op[o].turn ELSE Latest(t, status)), t, u.seq, FALSE)
  IN  IF v.busy THEN v ELSE Drain([v EXCEPT !.attempts = 0])

\* The thread of the recovery is the active one (again), with the queue there is.
Recovered(u, o, status, n) ==
  LET t == u.op[o].thread
      v == Subscribe(Loaded(Over(u, o), t, status, n,
                            IF u.op[o].turn # Nil THEN u.op[o].turn ELSE Latest(t, status)), t, n, FALSE)
  IN  IF v.busy THEN v ELSE Drain([v EXCEPT !.attempts = 0])

\* A load that fails: a recovery sets the watchdog again, a selection does not.
FailedLoad(u, o) ==
  [Over(u, o) EXCEPT !.armed = @ \/ (u.op[o].kind = "recover" /\ u.op[o].busy)]

Interrupted(u, o) ==
  Drain([Over(u, o) EXCEPT !.attempts = 0, !.armed = FALSE, !.busy = FALSE, !.turn = Nil])

-----------------------------------------------------------------------------
(* buildThreadEventSink                                                     *)

\* onTurnComplete
Completed(u) == Drain([u EXCEPT !.armed = FALSE, !.busy = FALSE, !.turn = Nil])

\* Mutant: an error frees the store.
ErroredFree(u, cancelled) == [u EXCEPT !.attempts = 0, !.armed = FALSE, !.busy = FALSE, !.turn = Nil]

\* onError: a store that is busy stays so, with its turn, until the watchdog has it load
\* the thread - unless the error reads like an interrupt. The queue is not drained.
Errored(u, cancelled) ==
  LET waits == u.busy /\ ~cancelled
  IN  [u EXCEPT !.attempts = 0, !.armed = waits, !.busy = waits, !.turn = IF waits THEN @ ELSE Nil]

\* One event of a stream that is not aborted; `n` is its place.
Apply(u, s, event, n) ==
  IF u.streams[s] = Nil THEN u
  ELSE CASE event.kind = "user"  -> [u EXCEPT !.busy = TRUE, !.turn = event.turn, !.armed = TRUE]
         [] event.kind = "delta" -> [u EXCEPT !.shown = Append(@, n), !.armed = @ \/ ~u.busy, !.busy = TRUE]
         [] event.kind = "done"  -> Completed(u)
         [] event.kind \in {"failed", "cancelled"} -> Errored(u, event.kind = "cancelled")

\* A batch, up to event n: first the cursor moves, then the events are dispatched.
Dispatched(u, s, n) ==
  LET t     == u.streams[s].thread
      first == u.streams[s].at
      v     == [u EXCEPT !.streams[s].at = n]
      after[k \in first..n] == IF k = first THEN [v EXCEPT !.seq = n, !.attempts = 0]
                               ELSE Apply(after[k - 1], s, log[t][k], k)
  IN  IF u.active # t THEN v ELSE after[n]

-----------------------------------------------------------------------------
\* There is room for what a step may begin.
Room(u)    == FreeOps(u) # {}
Loading(u) == {o \in Ops : u.op[o].kind \in {"select", "recover", "send"}}

\* A step of the store.
Store(u) ==
  /\ ui' = u
  /\ overlap' = (overlap \/ Cardinality(Loading(u)) > 1)

Fault == faults < MaxFaults /\ faults' = faults + 1

\* The user sends a message; it is queued if the thread is busy.
Type(m) ==
  /\ typed[m] = Nil /\ typed' = [typed EXCEPT ![m] = ui.active]
  /\ IF ui.busy THEN Store([ui EXCEPT !.queue = Append(@, m)])
     ELSE Room(ui) /\ Store(BeginSend(ui, m, ui.queue))
  /\ UNCHANGED <<log, sent, crossed, early, calls, faults>>

Select(t) ==
  /\ calls < MaxCalls /\ calls' = calls + 1 /\ Room(ui)
  /\ Store(BeginLoad(ui, "select", t))
  /\ UNCHANGED <<log, typed, sent, crossed, early, faults>>

Interrupt ==
  /\ ui.turn # Nil /\ calls < MaxCalls /\ calls' = calls + 1 /\ Room(ui)
  /\ Store(Begin(ui, [kind |-> "interrupt", at |-> "asking", thread |-> ui.active, turn |-> ui.turn]))
  /\ UNCHANGED <<log, typed, sent, crossed, early, faults>>

\* The thread is read: its status, then its last event.
EndLoad(o) ==
  /\ ui.op[o].kind \in {"select", "recover"} /\ FreeStreams(ui) # {}
  /\ \E n \in ui.op[o].from..Len(log[ui.op[o].thread]) : \E status \in ui.op[o].from..n :
       Store(IF ui.op[o].kind = "select" THEN Selected(ui, o, status, n) ELSE Recovered(ui, o, status, n))
  /\ crossed' = (crossed \/ (ui.op[o].kind = "recover" /\ ui.op[o].thread # ui.active))
  /\ UNCHANGED <<log, typed, sent, early, calls, faults>>

FailLoad(o) ==
  /\ ui.op[o].kind \in {"select", "recover"} /\ Fault /\ Store(FailedLoad(ui, o))
  /\ UNCHANGED <<log, typed, sent, crossed, early, calls>>

\* Mutant: the thread is the one that is active when the request is made.
TargetActive(o) == ui.active

\* The thread a request is for: the active one when it was begun.
Target(o) == ui.op[o].thread

\* The runtime takes a message: a turn begins. Or it ends the turn it is asked to.
Answer(o) ==
  LET t == Target(o) IN
  /\ ui.op[o].kind \in {"send", "interrupt"} /\ ui.op[o].at = "asking" /\ Len(log[t]) < MaxLog
  /\ IF ui.op[o].kind = "send"
     THEN /\ log' = [log EXCEPT ![t] = Append(@, [kind |-> "user", turn |-> Len(@) + 1])]
          /\ ui' = [ui EXCEPT !.op[o].at = "answered", !.op[o].turn = Len(log[t]) + 1]
          /\ sent' = [sent EXCEPT ![ui.op[o].msg] = Append(@, t)] /\ UNCHANGED early
     ELSE /\ log' = [log EXCEPT ![t] = Append(@, [kind |-> "done", turn |-> ui.op[o].turn])]
          /\ ui' = [ui EXCEPT !.op[o].at = "answered"] /\ UNCHANGED sent
          /\ early' = (early \/ ui.op[o].turn \notin RunningAt(t, Len(log[t])))
  /\ UNCHANGED <<typed, crossed, overlap, calls, faults>>

\* The interrupt settles whatever is active by now: another thread, the next message of
\* the queue, or events that are still to come.
SettlesEarly(o) ==
  \/ ui.active # ui.op[o].thread \/ ui.seq < Len(log[ui.active])
  \/ Loading(ui) # {} \/ ui.turn \notin {Nil, ui.op[o].turn}

Return(o) ==
  /\ ui.op[o].kind \in {"send", "interrupt"} /\ ui.op[o].at = "answered" /\ FreeStreams(ui) # {}
  /\ Store(IF ui.op[o].kind = "send" THEN EndedSend(ui, o) ELSE Interrupted(ui, o))
  /\ early' = (early \/ (ui.op[o].kind = "interrupt" /\ SettlesEarly(o)))
  /\ UNCHANGED <<log, typed, sent, crossed, calls, faults>>

\* The request, or its answer, is lost.
FailSend(o) ==
  /\ ui.op[o].kind = "send" /\ Fault /\ Store(FailedSend(ui, o))
  /\ crossed' = (crossed \/ ui.op[o].thread # ui.active)
  /\ early' = (early \/ ui.op[o].at = "answered")
  /\ UNCHANGED <<log, typed, sent, calls>>

\* An interrupt that fails tells the user, and changes nothing else.
FailInterrupt(o) ==
  /\ ui.op[o].kind = "interrupt" /\ Fault /\ Store(Over(ui, o))
  /\ UNCHANGED <<log, typed, sent, crossed, early, calls>>

-----------------------------------------------------------------------------
Deliver(s) ==
  /\ ui.streams[s] # Nil /\ (ui.queue = <<>> \/ Room(ui))
  /\ \E n \in (ui.streams[s].at + 1)..Len(log[ui.streams[s].thread]) : Store(Dispatched(ui, s, n))
  /\ UNCHANGED <<log, typed, sent, crossed, early, calls, faults>>

\* The turn of the thread has not ended, or its end has not been shown.
StillTurning(t) == RunningAt(t, Len(log[t])) # {} \/ ui.seq < Len(log[t])

\* The stream ends, with an error or without; one of a send or a selection then recovers,
\* if the store is still busy.
StreamFails(s) ==
  LET t == ui.streams[s].thread
      u == [ui EXCEPT !.streams[s] = Nil, !.ref = IF @ = s THEN Nil ELSE @]
      v(how) == IF ui.active # t \/ how = "closed" THEN u ELSE Errored(u, how = "cancelled")
  IN
  /\ ui.streams[s] # Nil /\ Room(ui) /\ Fault
  /\ \E how \in {"closed", "failed", "cancelled"} :
       /\ Store(IF ui.streams[s].recovers /\ ui.active = t /\ v(how).busy THEN BeginRecover(v(how)) ELSE v(how))
       /\ early' = (early \/ (how = "cancelled" /\ ui.active = t /\ ui.busy /\ StillTurning(t)))
  /\ UNCHANGED <<log, typed, sent, crossed, calls>>

\* Three minutes without an event.
Watchdog ==
  LET u == [ui EXCEPT !.armed = FALSE] IN
  /\ ui.armed /\ Room(ui)
  /\ Store(IF ~u.busy THEN u
           ELSE IF u.attempts < MaxAttempts THEN BeginRecover([u EXCEPT !.attempts = @ + 1])
           ELSE [u EXCEPT !.attempts = @ + 1, !.busy = FALSE, !.turn = Nil])
  /\ early' = (early \/ (u.busy /\ u.attempts >= MaxAttempts))
  /\ UNCHANGED <<log, typed, sent, crossed, calls, faults>>

\* A turn writes its text, if it gets that far, and ends.
Emit(t) ==
  /\ Len(log[t]) < MaxLog
  /\ \E i \in RunningAt(t, Len(log[t])), kind \in {"delta"} \cup EndKinds :
       /\ kind = "delta" => \A k \in DOMAIN log[t] : log[t][k] # [kind |-> "delta", turn |-> i]
       /\ log' = [log EXCEPT ![t] = Append(@, [kind |-> kind, turn |-> i])]
  /\ UNCHANGED <<ui, typed, sent, crossed, overlap, early, calls, faults>>

ChatNext == \/ \E m \in Messages : Type(m)
            \/ \E t \in Threads : Select(t) \/ Emit(t)
            \/ \E o \in Ops : EndLoad(o) \/ FailLoad(o) \/ Answer(o) \/ Return(o)
                            \/ FailSend(o) \/ FailInterrupt(o)
            \/ \E s \in Streams : Deliver(s) \/ StreamFails(s)
            \/ Interrupt \/ Watchdog

ChatSpec == ChatInit /\ [][ChatNext]_chatVars

\* Requests are answered, streams deliver, the watchdog fires, and turns end.
ChatFairness == /\ \A o \in Ops : WF_chatVars(EndLoad(o) \/ FailLoad(o)) /\ WF_chatVars(Answer(o)) /\ WF_chatVars(Return(o))
                /\ \A s \in Streams : WF_chatVars(Deliver(s))
                /\ WF_chatVars(Watchdog) /\ \A t \in Threads : WF_chatVars(Emit(t))
ChatFairSpec == ChatSpec /\ ChatFairness

-----------------------------------------------------------------------------
\* A message runs in the thread it was typed in - unless a send failed, or a recovery
\* ended, when another thread had become the active one.
SentWhereTyped ==
  ~crossed => \A m \in Messages : \A i \in DOMAIN sent[m] : sent[m][i] = typed[m]

\* The text shown since the thread was loaded is that of the events up to the cursor,
\* each once and in order, whatever streams broke and were taken up again - unless
\* loads and sends overlapped, or a turn was taken for ended early.
ShownOnce ==
  ~(overlap \/ early) =>
    /\ {ui.shown[i] : i \in DOMAIN ui.shown} =
         {k \in (ui.base + 1)..ui.seq : log[ui.active][k].kind = "delta"}
    /\ \A i, j \in DOMAIN ui.shown : i < j => ui.shown[i] < ui.shown[j]

\* A thread has one turn at a time: what was queued waits for the end of the turn
\* before it, with the same exceptions.
TurnAfterTurn ==
  ~(overlap \/ early) => \A t \in Threads : Cardinality(RunningAt(t, Len(log[t]))) <= 1

\* The chat is not busy for ever: the watchdog frees it (what onError's comments say).
\* A selection that fails has aborted the stream and stopped the watchdog of the
\* thread that stays active.
FreeAgain == ui.busy ~> ~ui.busy
=============================================================================
