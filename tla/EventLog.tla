------------------------------ MODULE EventLog ------------------------------
(***************************************************************************)
(* The event path of one Kun thread: RuntimeEventRecorder.record stamps an *)
(* event, the in-memory bus fans it out, FileSessionStore appends it to    *)
(* events.jsonl, and the SSE route replays the file and then follows the   *)
(* bus for one desktop client, which reconnects with the highest seq it    *)
(* has received.                                                           *)
(*                                                                         *)
(* A step is what runs between two awaits; every await is a point where    *)
(* another call, the stream, the client or a crash can step in.  The log   *)
(* is taken to stay below the usage-compaction threshold (FileSessionStore *)
(* models what happens above it).                                          *)
(***************************************************************************)
EXTENDS Naturals, Sequences, FiniteSets, SequencesExt

CONSTANTS Events,         \* the calls of record() on this thread
          Streams,        \* the SSE connections the client may open
          NoStream,       \* the client has not connected yet
          Heartbeat,      \* the payload of a heartbeat frame
          MaxHeartbeats,  \* bound: heartbeat frames sent
          MaxRestarts     \* bound: restarts of the runtime

ASSUME EventLogAssumption ==
  /\ NoStream \notin Streams
  /\ Heartbeat \notin Events
  /\ IsFiniteSet(Events)
  /\ MaxHeartbeats \in Nat
  /\ MaxRestarts \in Nat

VARIABLES
  counter,    \* InMemoryEventBus.nextSeq of the thread (0: nothing allocated)
  pc,         \* where each call of record() is
  alloc,      \* allocatedSeq, the local of each call (0: out of scope)
  persisted,  \* persistedSeq, the local of each call (0: out of scope)
  seq,        \* the seq stamped on the event (0: none yet)
  began,      \* history: the calls that had returned when this call began
  log,        \* the events in events.jsonl
  stream,     \* the server side of each SSE connection
  cur,        \* the connection the client opened last
  attached,   \* whether the client still reads it
  wire,       \* frames enqueued on cur and not yet read by the client
  cursor,     \* nextSinceSeq, the client's resume position
  seen,       \* the events handed to the renderer, in order
  beats,      \* heartbeat frames sent so far
  restarts    \* restarts so far

recVars    == <<pc, alloc, persisted, seq, began>>
clientVars == <<cur, attached, cursor, seen>>
bounds     == <<beats, restarts>>
vars == <<counter, recVars, log, stream, wire, clientVars, bounds>>

InFlight == {"reading", "read", "published"}
Done     == {e \in Events : pc[e] = "done"}
FreshStream == [at |-> "unused", since |-> 0, backlog |-> <<>>, before |-> {}]

Init ==
  /\ counter = 0
  /\ pc = [e \in Events |-> "idle"]
  /\ alloc = [e \in Events |-> 0]
  /\ persisted = [e \in Events |-> 0]
  /\ seq = [e \in Events |-> 0]
  /\ began = [e \in Events |-> {}]
  /\ log = {}
  /\ stream = [k \in Streams |-> FreshStream]
  /\ cur = NoStream
  /\ attached = FALSE
  /\ wire = <<>>
  /\ cursor = 0
  /\ seen = <<>>
  /\ beats = 0
  /\ restarts = 0

-----------------------------------------------------------------------------
(* RuntimeEventRecorder.record *)

\* record(): the seq is allocated before the first await.
AllocateSeq(e) ==
  /\ pc[e] = "idle"
  /\ counter' = counter + 1
  /\ alloc' = [alloc EXCEPT ![e] = counter + 1]
  /\ began' = [began EXCEPT ![e] = Done]
  /\ pc' = [pc EXCEPT ![e] = "reading"]
  /\ UNCHANGED <<persisted, seq, log, stream, wire, clientVars, bounds>>

\* The value FileSessionStore.highestSeq computes from the file.
IsHighestSeq(p) ==
  /\ p = 0 \/ \E e \in log : seq[e] = p
  /\ \A e \in log : seq[e] <= p

\* The read of events.jsonl takes effect.
ReadHighestSeq(e) ==
  /\ pc[e] = "reading"
  /\ \E p \in {0} \union {seq[f] : f \in log} :
       IsHighestSeq(p) /\ persisted' = [persisted EXCEPT ![e] = p]
  /\ pc' = [pc EXCEPT ![e] = "read"]
  /\ UNCHANGED <<counter, alloc, seq, began, log, stream, wire, clientVars, bounds>>

\* Mutant: the persisted seq is read and then ignored.
StampedSeqUnread(e) == alloc[e]

StampedSeq(e) ==
  IF alloc[e] >= persisted[e] + 1 THEN alloc[e] ELSE persisted[e] + 1

Subscribed(k) == stream[k].at = "live"
Attached(k) == attached /\ cur = k
Listening == attached /\ Subscribed(cur)

\* Back in record(): stamp the event and publish it to the subscribers.
Publish(e) ==
  /\ pc[e] = "read"
  /\ seq' = [seq EXCEPT ![e] = StampedSeq(e)]
  /\ wire' = IF Listening THEN Append(wire, [ev |-> e, seq |-> StampedSeq(e)]) ELSE wire
  /\ pc' = [pc EXCEPT ![e] = "published"]
  /\ alloc' = [alloc EXCEPT ![e] = 0]
  /\ persisted' = [persisted EXCEPT ![e] = 0]
  /\ UNCHANGED <<counter, began, log, stream, clientVars, bounds>>

\* FileSessionStore.appendEvent: the line is in the file and record() returns.
AppendEvent(e) ==
  /\ pc[e] = "published"
  /\ log' = log \union {e}
  /\ pc' = [pc EXCEPT ![e] = "done"]
  /\ UNCHANGED <<counter, alloc, persisted, seq, began, stream, wire, clientVars, bounds>>

-----------------------------------------------------------------------------
(* buildEventStreamResponse and the client's reconnect loop *)

\* The client opens a connection once the previous one is gone; what it had
\* not read of that one is lost.
Connect(k) ==
  /\ stream[k].at = "unused"
  /\ ~attached
  /\ stream' = [stream EXCEPT ![k] =
                  [FreshStream EXCEPT !.at = "loading", !.since = cursor, !.before = Done]]
  /\ cur' = k
  /\ attached' = TRUE
  /\ wire' = <<>>
  /\ UNCHANGED <<counter, recVars, log, cursor, seen, bounds>>

\* Mutants: no sort; one event too many skipped.
BacklogsUnsorted(since) == SetToSeqs({e \in log : seq[e] > since})
BacklogsSkipOne(since) ==
  {b \in SetToSeqs({e \in log : seq[e] > since + 1}) :
     \A i, j \in DOMAIN b : i < j => seq[b[i]] <= seq[b[j]]}

\* The file's events above since, in seq order (equal seqs in any order).
Backlogs(since) ==
  {b \in SetToSeqs({e \in log : seq[e] > since}) :
     \A i, j \in DOMAIN b : i < j => seq[b[i]] <= seq[b[j]]}

\* await loadEventsSince(): the read takes effect.
LoadBacklog(k) ==
  /\ stream[k].at = "loading"
  /\ \E b \in Backlogs(stream[k].since) :
       stream' = [stream EXCEPT ![k].at = "loaded", ![k].backlog = b]
  /\ UNCHANGED <<counter, recVars, log, wire, clientVars, bounds>>

Frames(b) == [i \in DOMAIN b |-> [ev |-> b[i], seq |-> seq[b[i]]]]

\* The backlog is enqueued and the bus subscribed.
Subscribe(k) ==
  /\ stream[k].at = "loaded"
  /\ stream' = [stream EXCEPT ![k].at = "live", ![k].backlog = <<>>]
  /\ wire' = IF Attached(k) THEN wire \o Frames(stream[k].backlog) ELSE wire
  /\ UNCHANGED <<counter, recVars, log, clientVars, bounds>>

\* The heartbeat timer of a stream, whether its client is there or not: a
\* frame with an allocated seq that is never persisted.
SendHeartbeat(k) ==
  /\ Subscribed(k)
  /\ beats < MaxHeartbeats
  /\ beats' = beats + 1
  /\ counter' = counter + 1
  /\ wire' = IF Attached(k)
              THEN Append(wire, [ev |-> Heartbeat, seq |-> counter + 1])
              ELSE wire
  /\ UNCHANGED <<recVars, log, stream, clientVars, restarts>>

\* The client reads a frame: its position moves to the highest seq received.
Receive ==
  /\ wire # <<>>
  /\ cursor' = IF Head(wire).seq > cursor THEN Head(wire).seq ELSE cursor
  /\ seen' = IF Head(wire).ev \in Events THEN Append(seen, Head(wire).ev) ELSE seen
  /\ wire' = Tail(wire)
  /\ UNCHANGED <<counter, recVars, log, stream, cur, attached, bounds>>

\* The connection drops, or the client gives it up.  toFetchRequest links no
\* AbortSignal to the socket and writeFetchResponse goes on reading the body,
\* so nothing changes on the server.
Drop ==
  /\ attached
  /\ attached' = FALSE
  /\ UNCHANGED <<counter, recVars, log, stream, wire, cur, cursor, seen, bounds>>

\* The runtime dies and starts again: the bus, the calls in progress and the
\* streams are gone, the file stays.
Restart ==
  /\ restarts < MaxRestarts
  /\ restarts' = restarts + 1
  /\ counter' = 0
  /\ pc' = [e \in Events |-> IF pc[e] \in InFlight THEN "lost" ELSE pc[e]]
  /\ stream' = [k \in Streams |->
                  IF stream[k].at = "unused" THEN stream[k]
                  ELSE [FreshStream EXCEPT !.at = "ended"]]
  /\ attached' = FALSE
  /\ alloc' = [e \in Events |-> 0]
  /\ persisted' = [e \in Events |-> 0]
  /\ UNCHANGED <<seq, began, log, wire, cur, cursor, seen, beats>>

Next ==
  \/ \E e \in Events : AllocateSeq(e)
  \/ \E e \in Events : ReadHighestSeq(e)
  \/ \E e \in Events : Publish(e)
  \/ \E e \in Events : AppendEvent(e)
  \/ \E k \in Streams : Connect(k)
  \/ \E k \in Streams : LoadBacklog(k)
  \/ \E k \in Streams : Subscribe(k)
  \/ \E k \in Streams : SendHeartbeat(k)
  \/ Receive
  \/ Drop
  \/ Restart

Spec == Init /\ [][Next]_vars

\* The runtime's own steps are not put off for ever: promises settle and a
\* started stream goes on.
Fairness ==
  /\ \A e \in Events :
       WF_vars(ReadHighestSeq(e)) /\ WF_vars(Publish(e)) /\ WF_vars(AppendEvent(e))
  /\ \A k \in Streams : WF_vars(LoadBacklog(k)) /\ WF_vars(Subscribe(k))
  /\ WF_vars(Receive)
FairSpec == Spec /\ Fairness

-----------------------------------------------------------------------------
(* Properties *)

Frame == [ev : Events \union {Heartbeat}, seq : Nat]
StreamState ==
  [at : {"unused", "loading", "loaded", "live", "ended"}, since : Nat,
   backlog : Seq(Events), before : SUBSET Events]

\* Every variable stays in the range the code gives it.
TypeOK ==
  /\ counter \in Nat
  /\ pc \in [Events -> {"idle", "reading", "read", "published", "done", "lost"}]
  /\ alloc \in [Events -> Nat]
  /\ persisted \in [Events -> Nat]
  /\ seq \in [Events -> Nat]
  /\ began \in [Events -> SUBSET Events]
  /\ log \in SUBSET Events
  /\ stream \in [Streams -> StreamState]
  /\ cur \in Streams \union {NoStream}
  /\ attached \in BOOLEAN
  /\ attached => cur # NoStream
  /\ wire \in Seq(Frame)
  /\ cursor \in Nat
  /\ seen \in Seq(Events)
  /\ beats \in 0..MaxHeartbeats
  /\ restarts \in 0..MaxRestarts

\* A call of record() that begins after another has returned stamps a larger
\* seq, whatever restarts, heartbeats and other calls come in between.
SeqFollowsRealTime ==
  \A e \in Events : seq[e] # 0 => \A f \in began[e] : seq[f] < seq[e]

\* No event reaches the renderer twice, however often the client reconnects and
\* whatever seqs two events share, and none before an event whose record() had
\* returned when its own began.
SeenOnceInOrder ==
  \A i, j \in DOMAIN seen : i < j => seen[i] # seen[j] /\ seen[j] \notin began[seen[i]]

\* An open stream owes its client every event above its since_seq that had
\* been recorded when the client connected: each is read or on its way.
BacklogComplete ==
  Listening =>
    \A e \in stream[cur].before :
      seq[e] > stream[cur].since =>
        \/ \E i \in DOMAIN wire : wire[i].ev = e
        \/ \E i \in DOMAIN seen : seen[i] = e

\* What was recorded when the client connected, above its position, reaches the
\* renderer if the connection lasts.
BacklogDelivered ==
  \A e \in Events, k \in Streams :
    (Attached(k) /\ e \in stream[k].before /\ seq[e] > stream[k].since)
      ~> (~Attached(k) \/ \E i \in DOMAIN seen : seen[i] = e)

-----------------------------------------------------------------------------
(* What the documentation says and the code does not do *)

\* "A late-joining client passes since_seq to receive the backlog before live
\* events flow": nothing recorded falls between the backlog and the live part.
NothingBetweenBacklogAndLive ==
  Listening =>
    \A e \in Done :
      seq[e] > stream[cur].since =>
        \/ \E i \in DOMAIN wire : wire[i].ev = e
        \/ \E i \in DOMAIN seen : seen[i] = e
=============================================================================
