--------------------------- MODULE EventLogProofs ---------------------------
(***************************************************************************)
(* EventLog for any number of events, connections, heartbeats and          *)
(* restarts: its types, the order of the seqs it stamps, and what of it    *)
(* reaches the renderer, in which order.                                   *)
(***************************************************************************)
EXTENDS EventLog, FiniteSetTheorems, SequenceTheorems, TLAPS

-----------------------------------------------------------------------------
(* Types *)

\* A backlog is a sequence of recorded events.
LEMMA BacklogsType ==
  ASSUME log \in SUBSET Events, NEW since, NEW b \in Backlogs(since)
  PROVE  b \in Seq(Events)
<1> DEFINE S == {e \in log : seq[e] > since}
<1>1. IsFiniteSet(S)
  BY EventLogAssumption, FS_Subset DEF EventLogAssumption
<1>2. Cardinality(S) \in Nat
  BY <1>1, FS_CardinalityType
<1>3. b \in [1..Cardinality(S) -> S]
  BY DEF Backlogs, SetToSeqs
<1>4. b \in [1..Cardinality(S) -> Events]
  BY <1>3
<1>5. b \in UNION {[1..n -> Events] : n \in Nat}
  BY <1>2, <1>4, Zenon
<1> QED
  BY <1>5, SeqDef, Zenon

\* A fresh stream, and a stream with one part replaced, are streams.
LEMMA FreshStreamType == FreshStream \in StreamState
  BY EmptySeq DEF FreshStream, StreamState

\* The frames of a backlog can go on the wire.
LEMMA FramesType ==
  ASSUME TypeOK, NEW b \in Seq(Events) PROVE Frames(b) \in Seq(Frame)
<1>1. DOMAIN b = 1..Len(b) /\ Len(b) \in Nat /\ \A i \in 1..Len(b) : b[i] \in Events
  BY LenProperties, ElementOfSeq
<1>2. \A i \in 1..Len(b) : seq[b[i]] \in Nat
  BY <1>1 DEF TypeOK
<1>3. Frames(b) \in [1..Len(b) -> Frame]
  BY <1>1, <1>2 DEF Frames, Frame
<1> QED
  BY <1>1, <1>3, SeqDef

\* The initial state is well typed.
LEMMA TypeInit == Init => TypeOK
<1> SUFFICES ASSUME Init PROVE TypeOK
  OBVIOUS
<1> USE EventLogAssumption DEF Init, EventLogAssumption
<1>1. stream \in [Streams -> StreamState]
  BY FreshStreamType
<1>2. wire \in Seq(Frame) /\ seen \in Seq(Events)
  BY EmptySeq
<1>3. beats \in 0..MaxHeartbeats /\ restarts \in 0..MaxRestarts
  OBVIOUS
<1>4. began \in [Events -> SUBSET Events]
  OBVIOUS
<1> QED
  BY <1>1, <1>2, <1>3, <1>4 DEF TypeOK

\* Every variable stays in the range the code gives it.
THEOREM TypeCorrect == Spec => []TypeOK
<1>1. Init => TypeOK
  BY TypeInit
<1>2. TypeOK /\ [Next]_vars => TypeOK'
  <2> SUFFICES ASSUME TypeOK, [Next]_vars PROVE TypeOK'
    OBVIOUS
  <2> USE EventLogAssumption DEF TypeOK, EventLogAssumption
  <2>1. ASSUME NEW e \in Events, AllocateSeq(e) PROVE TypeOK'
    BY <2>1 DEF AllocateSeq, Done, clientVars, bounds
  <2>2. ASSUME NEW e \in Events, ReadHighestSeq(e) PROVE TypeOK'
    BY <2>2 DEF ReadHighestSeq, clientVars, bounds
  <2>3. ASSUME NEW e \in Events, Publish(e) PROVE TypeOK'
    <3>1. StampedSeq(e) \in Nat
      BY DEF StampedSeq
    <3>2. [ev |-> e, seq |-> StampedSeq(e)] \in Frame
      BY <3>1 DEF Frame
    <3>3. wire' \in Seq(Frame)
      BY <2>3, <3>2, AppendProperties DEF Publish
    <3> QED
      BY <2>3, <3>1, <3>3 DEF Publish, clientVars, bounds
  <2>4. ASSUME NEW e \in Events, AppendEvent(e) PROVE TypeOK'
    BY <2>4 DEF AppendEvent, clientVars, bounds
  <2>5. ASSUME NEW k \in Streams, Connect(k) PROVE TypeOK'
    <3>1. [FreshStream EXCEPT !.at = "loading", !.since = cursor, !.before = Done] \in StreamState
      BY EmptySeq DEF FreshStream, StreamState, Done
    <3> QED
      BY <2>5, <3>1, EmptySeq DEF Connect, recVars, bounds
  <2>6. ASSUME NEW k \in Streams, LoadBacklog(k) PROVE TypeOK'
    <3>1. PICK b \in Backlogs(stream[k].since) :
            stream' = [stream EXCEPT ![k].at = "loaded", ![k].backlog = b]
      BY <2>6 DEF LoadBacklog
    <3>2. b \in Seq(Events)
      BY <3>1, BacklogsType
    <3>3. [stream[k] EXCEPT !.at = "loaded", !.backlog = b] \in StreamState
      BY <3>2 DEF StreamState
    <3>4. stream' \in [Streams -> StreamState]
      BY <3>1, <3>3
    <3> QED
      BY <2>6, <3>4 DEF LoadBacklog, recVars, clientVars, bounds
  <2>7. ASSUME NEW k \in Streams, Subscribe(k) PROVE TypeOK'
    <3>1. stream[k].backlog \in Seq(Events)
      BY DEF StreamState
    <3>2. wire' \in Seq(Frame)
      BY <2>7, <3>1, FramesType, ConcatProperties DEF Subscribe
    <3>3. [stream[k] EXCEPT !.at = "live", !.backlog = <<>>] \in StreamState
      BY EmptySeq DEF StreamState
    <3>4. stream' \in [Streams -> StreamState]
      BY <2>7, <3>3 DEF Subscribe
    <3> QED
      BY <2>7, <3>2, <3>4 DEF Subscribe, recVars, clientVars, bounds
  <2>8. ASSUME NEW k \in Streams, SendHeartbeat(k) PROVE TypeOK'
    <3>1. [ev |-> Heartbeat, seq |-> counter + 1] \in Frame
      BY DEF Frame
    <3>2. wire' \in Seq(Frame)
      BY <2>8, <3>1, AppendProperties DEF SendHeartbeat
    <3> QED
      BY <2>8, <3>2 DEF SendHeartbeat, recVars, clientVars
  <2>9. CASE Receive
    <3>1. Head(wire) \in Frame /\ Tail(wire) \in Seq(Frame)
      BY <2>9, HeadTailProperties DEF Receive
    <3>2. Head(wire).seq \in Nat
      BY <3>1 DEF Frame
    <3>3. cursor' \in Nat
      BY <2>9, <3>2 DEF Receive
    <3>4. seen' \in Seq(Events)
      BY <2>9, AppendProperties DEF Receive
    <3> QED
      BY <2>9, <3>1, <3>3, <3>4 DEF Receive, recVars, bounds
  <2>10. CASE Drop
    BY <2>10 DEF Drop, recVars, bounds
  <2>11. CASE Restart
    <3>1. [FreshStream EXCEPT !.at = "ended"] \in StreamState
      BY EmptySeq DEF FreshStream, StreamState
    <3>2. stream' \in [Streams -> StreamState]
      BY <2>11, <3>1 DEF Restart
    <3>3. pc' \in [Events -> {"idle", "reading", "read", "published", "done", "lost"}]
      BY <2>11 DEF Restart, InFlight
    <3>4. alloc' \in [Events -> Nat] /\ persisted' \in [Events -> Nat]
      BY <2>11 DEF Restart
    <3>5. restarts' \in 0..MaxRestarts /\ beats' \in 0..MaxHeartbeats
      BY <2>11 DEF Restart
    <3> QED
      BY <2>11, <3>2, <3>3, <3>4, <3>5 DEF Restart
  <2>12. CASE UNCHANGED vars
    BY <2>12 DEF vars, recVars, clientVars, bounds
  <2> QED
    BY <2>1, <2>2, <2>3, <2>4, <2>5, <2>6, <2>7, <2>8, <2>9, <2>10, <2>11, <2>12 DEF Next
<1> QED
  BY <1>1, <1>2, PTL DEF Spec

-----------------------------------------------------------------------------
(* The order of the stamped seqs *)

\* A call that has returned is in the file, and nothing else is.
LogHoldsReturned == \A e \in Events : pc[e] = "done" <=> e \in log

\* A call is stamped only after it has begun.
IdleUnstamped == \A e \in Events : pc[e] = "idle" => seq[e] = 0

\* Whoever is counted as returned stays so.
BeganAfterReturned == \A e \in Events : began[e] \subseteq Done

\* What a call read from the file bounds the seqs of those before it.
ReadCoversReturned ==
  \A e \in Events : pc[e] = "read" =>
    \A f \in began[e] : seq[f] <= persisted[e]

SeqInv ==
  /\ TypeOK
  /\ LogHoldsReturned
  /\ IdleUnstamped
  /\ BeganAfterReturned
  /\ ReadCoversReturned
  /\ SeqFollowsRealTime

LEMMA SeqAlways == Spec => []SeqInv
<1>1. Init => SeqInv
  <2>1. Init => TypeOK
    BY TypeInit
  <2> QED
    BY <2>1 DEF Init, SeqInv, LogHoldsReturned, IdleUnstamped, BeganAfterReturned,
               ReadCoversReturned, SeqFollowsRealTime, Done
<1>2. SeqInv /\ TypeOK' /\ [Next]_vars => SeqInv'
  <2> SUFFICES ASSUME SeqInv, TypeOK', [Next]_vars PROVE SeqInv'
    OBVIOUS
  <2> DEFINE Rest == LogHoldsReturned /\ IdleUnstamped /\ BeganAfterReturned
                       /\ ReadCoversReturned /\ SeqFollowsRealTime
  <2>t. /\ alloc \in [Events -> Nat] /\ persisted \in [Events -> Nat] /\ seq \in [Events -> Nat]
        /\ pc \in [Events -> {"idle", "reading", "read", "published", "done", "lost"}]
        /\ began \in [Events -> SUBSET Events]
        /\ log \in SUBSET Events
    BY DEF SeqInv, TypeOK
  <2>0. Rest
    BY DEF SeqInv
  <2> USE DEF LogHoldsReturned, IdleUnstamped, BeganAfterReturned,
              ReadCoversReturned, SeqFollowsRealTime, Done
  <2>1. ASSUME NEW e \in Events, AllocateSeq(e) PROVE Rest'
    <3>1. seq' = seq /\ log' = log /\ persisted' = persisted
      BY <2>1 DEF AllocateSeq
    <3>2. \A g \in Events : g # e => pc'[g] = pc[g] /\ began'[g] = began[g]
      BY <2>0, <2>t, <2>1 DEF AllocateSeq
    <3>3. pc[e] = "idle" /\ pc'[e] = "reading" /\ began'[e] = Done
      BY <2>0, <2>t, <2>1 DEF AllocateSeq
    <3>4. seq[e] = 0 /\ e \notin Done
      BY <2>0, <3>3
    <3>5. (LogHoldsReturned /\ IdleUnstamped)'
      BY <2>0, <3>1, <3>2, <3>3
    <3>6. Done' = Done
      BY <3>2, <3>3
    <3>7. BeganAfterReturned'
      BY <2>0, <3>2, <3>3, <3>6
    <3>8. SeqFollowsRealTime'
      BY <2>0, <3>1, <3>2, <3>4
    <3>9. ReadCoversReturned'
      BY <2>0, <3>1, <3>2, <3>3
    <3> QED
      BY <3>5, <3>7, <3>8, <3>9
  <2>2. ASSUME NEW e \in Events, ReadHighestSeq(e) PROVE Rest'
    <3>1. \A f \in log : seq[f] <= persisted'[e]
      BY <2>0, <2>t, <2>2 DEF ReadHighestSeq, IsHighestSeq
    <3>2. seq' = seq /\ log' = log /\ began' = began
      BY <2>2 DEF ReadHighestSeq
    <3>3. \A g \in Events : g # e => pc'[g] = pc[g] /\ persisted'[g] = persisted[g]
      BY <2>0, <2>t, <2>2 DEF ReadHighestSeq
    <3>4. pc[e] = "reading" /\ pc'[e] = "read"
      BY <2>0, <2>t, <2>2 DEF ReadHighestSeq
    <3>5. Done' = Done
      BY <3>3, <3>4
    <3>6. (LogHoldsReturned /\ IdleUnstamped /\ SeqFollowsRealTime)'
      BY <2>0, <3>2, <3>3, <3>4
    <3>7. BeganAfterReturned'
      BY <2>0, <3>2, <3>5
    <3>8. \A f \in began[e] : f \in log
      BY <2>0
    <3>9. ReadCoversReturned'
      BY <2>0, <3>1, <3>2, <3>3, <3>8
    <3> QED
      BY <3>6, <3>7, <3>9
  <2>3. ASSUME NEW e \in Events, Publish(e) PROVE Rest'
    <3>0. alloc[e] \in Nat /\ persisted[e] \in Nat
      BY <2>t
    <3>1. StampedSeq(e) \in Nat /\ StampedSeq(e) > persisted[e]
      BY <3>0 DEF StampedSeq
    <3>2. \A f \in Events : f # e => seq'[f] = seq[f]
      BY <2>0, <2>t, <2>3 DEF Publish
    <3>3. seq'[e] = StampedSeq(e) /\ began' = began /\ log' = log
      BY <2>0, <2>t, <2>3 DEF Publish
    <3>4. \A g \in Events : e \notin began[g]
      BY <2>0, <2>3 DEF Publish
    <3>5. SeqFollowsRealTime'
      <4> SUFFICES ASSUME NEW g \in Events, seq'[g] # 0, NEW f \in began[g]
                   PROVE  seq'[f] < seq'[g]
        BY <3>3
      <4>1. f \in Events /\ f # e
        BY <2>0, <3>4
      <4>2. CASE g = e
        <5>1. seq[f] <= persisted[e]
          BY <2>0, <2>3, <4>2 DEF Publish
        <5>2. seq[f] \in Nat /\ persisted[e] \in Nat
          BY <2>t, <4>1
        <5>3. seq[f] < StampedSeq(e)
          BY <3>1, <5>1, <5>2
        <5> QED
          BY <3>2, <3>3, <4>1, <4>2, <5>3
      <4>3. CASE g # e
        BY <2>0, <3>2, <4>1, <4>3
      <4> QED
        BY <4>2, <4>3
    <3>6. ReadCoversReturned'
      BY <2>0, <2>t, <2>3, <3>2, <3>4 DEF Publish
    <3>7. (LogHoldsReturned /\ IdleUnstamped /\ BeganAfterReturned)'
      BY <2>0, <2>t, <2>3, <3>2 DEF Publish
    <3> QED
      BY <3>5, <3>6, <3>7
  <2>4. ASSUME NEW e \in Events, AppendEvent(e) PROVE Rest'
    BY <2>0, <2>t, <2>4 DEF AppendEvent
  <2>5. ASSUME UNCHANGED recVars, UNCHANGED log PROVE Rest'
    BY <2>0, <2>5 DEF recVars
  <2>6. CASE Restart
    <3>1. seq' = seq /\ began' = began /\ log' = log
      BY <2>6 DEF Restart
    <3>2. \A e \in Events : pc'[e] # "read" /\ (pc'[e] = "done" <=> pc[e] = "done")
                             /\ (pc'[e] = "idle" => pc[e] = "idle")
      BY <2>0, <2>t, <2>6 DEF Restart, InFlight
    <3>3. (LogHoldsReturned /\ IdleUnstamped /\ SeqFollowsRealTime)'
      BY <2>0, <3>1, <3>2
    <3>4. BeganAfterReturned'
      BY <2>0, <3>1, <3>2
    <3>5. ReadCoversReturned'
      BY <3>2
    <3> QED
      BY <3>3, <3>4, <3>5 DEF SeqInv
  <2>7. \/ \E k \in Streams : Connect(k) \/ LoadBacklog(k) \/ Subscribe(k) \/ SendHeartbeat(k)
        \/ Receive \/ Drop \/ UNCHANGED vars
        => Rest'
    BY <2>5 DEF Connect, LoadBacklog, Subscribe, SendHeartbeat, Receive, Drop, vars
  <2> QED
    BY <2>1, <2>2, <2>3, <2>4, <2>6, <2>7 DEF Next, SeqInv
<1> QED
  BY <1>1, <1>2, TypeCorrect, PTL DEF Spec

\* A call of record() that begins after another has returned stamps a larger
\* seq, for any number of calls, connections, heartbeats and restarts.
THEOREM SeqOrder == Spec => []SeqFollowsRealTime
<1>1. SeqInv => SeqFollowsRealTime
  BY DEF SeqInv
<1> QED
  BY <1>1, SeqAlways, PTL

-----------------------------------------------------------------------------
(* What reaches the renderer *)

\* The event has been stamped and published.
Sent(e) == pc[e] \in {"published", "done", "lost"} /\ seq[e] # 0
PublishedStamped == \A e \in Events : pc[e] \in {"published", "done"} => seq[e] # 0

\* f may follow e: it is another event and had not returned when e began.
Follows(e, f) == e # f /\ f \notin began[e]

\* What the client has seen lies at or below its position; what is on its way has
\* the seq it was stamped with.
SeenBelow == \A i \in DOMAIN seen : Sent(seen[i]) /\ seq[seen[i]] <= cursor
WireStamped ==
  \A i \in DOMAIN wire : wire[i].ev \in Events => Sent(wire[i].ev) /\ wire[i].seq = seq[wire[i].ev]

\* The order of what is on its way, and after what has been seen.
WireInOrder ==
  \A i, j \in DOMAIN wire :
    i < j /\ wire[i].ev \in Events /\ wire[j].ev \in Events => Follows(wire[i].ev, wire[j].ev)
WireAfterSeen ==
  \A i \in DOMAIN seen, j \in DOMAIN wire : wire[j].ev \in Events => Follows(seen[i], wire[j].ev)

\* Until its stream is live the client has nothing to read, and the backlog is
\* asked for from where the client is.
NothingUntilLive ==
  attached /\ stream[cur].at \in {"loading", "loaded"} => wire = <<>> /\ stream[cur].since = cursor

\* A backlog holds events of the file above since, sorted, each once, and every
\* one that had been recorded when the client connected.
BacklogLoaded ==
  \A k \in Streams : stream[k].at = "loaded" =>
    LET b == stream[k].backlog IN
    /\ \A i \in DOMAIN b : b[i] \in log /\ seq[b[i]] > stream[k].since
    /\ \A i, j \in DOMAIN b : i < j => b[i] # b[j] /\ seq[b[i]] <= seq[b[j]]
    /\ \A e \in stream[k].before : seq[e] > stream[k].since => \E i \in DOMAIN b : b[i] = e
RecordedBefore == \A k \in Streams : stream[k].before \subseteq log

Order  == SeenBelow /\ WireStamped /\ WireInOrder /\ WireAfterSeen /\ SeenOnceInOrder
Supply == NothingUntilLive /\ BacklogLoaded /\ RecordedBefore /\ BacklogComplete

\* What loadEventsSince returns: every event of the file above since, once, sorted.
LEMMA BacklogHolds ==
  ASSUME log \in SUBSET Events, NEW since, NEW b \in Backlogs(since)
  PROVE  /\ \A i \in DOMAIN b : b[i] \in log /\ seq[b[i]] > since
         /\ \A i, j \in DOMAIN b : i < j => b[i] # b[j] /\ seq[b[i]] <= seq[b[j]]
         /\ \A e \in log : seq[e] > since => \E i \in DOMAIN b : b[i] = e
<1> DEFINE S == {e \in log : seq[e] > since}
<1>1. IsFiniteSet(S)
  BY EventLogAssumption, FS_Subset DEF EventLogAssumption
<1>2. Cardinality(S) \in Nat
  BY <1>1, FS_CardinalityType
<1>3. /\ b \in [1..Cardinality(S) -> S]
      /\ \A i, j \in 1..Cardinality(S) : i # j => b[i] # b[j]
      /\ \A i, j \in DOMAIN b : i < j => seq[b[i]] <= seq[b[j]]
  BY DEF Backlogs, SetToSeqs
<1>4. b \in Injection(1..Cardinality(S), S)
  BY <1>3 DEF Injection, IsInjective
<1>5. Cardinality(1..Cardinality(S)) = Cardinality(S)
  <2> HIDE DEF S
  <2> QED
    BY <1>2, FS_Interval
<1>6. b \in Surjection(1..Cardinality(S), S)
  <2> HIDE DEF S
  <2> QED
    BY <1>1, <1>4, <1>5, FS_Injection
<1>7. \A e \in S : \E i \in DOMAIN b : b[i] = e
  BY <1>3, <1>6 DEF Surjection
<1> QED
  BY <1>2, <1>3, <1>7

\* A step that touches neither the client nor what was published keeps the order.
LEMMA OrderKept ==
  ASSUME Order, SeqInv, UNCHANGED <<wire, cursor, seen>>,
         \A e \in Events : Sent(e) => Sent(e)' /\ began'[e] = began[e] /\ seq'[e] = seq[e]
  PROVE  Order'
<1> USE DEF SeqInv, TypeOK, Frame
<1>1. \A i \in DOMAIN seen : seen[i] \in Events /\ Sent(seen[i])
  BY DEF Order, SeenBelow
<1>2. \A i \in DOMAIN wire : wire[i].ev \in Events => Sent(wire[i].ev)
  BY DEF Order, WireStamped
<1>3. (SeenBelow /\ WireStamped)'
  BY <1>1, <1>2 DEF Order, SeenBelow, WireStamped
<1>4. WireInOrder'
  <2> SUFFICES ASSUME NEW i \in DOMAIN wire, NEW j \in DOMAIN wire, i < j,
                      wire[i].ev \in Events, wire[j].ev \in Events
               PROVE  Follows(wire[i].ev, wire[j].ev)'
    BY DEF WireInOrder
  <2>1. Follows(wire[i].ev, wire[j].ev)
    BY DEF Order, WireInOrder
  <2> QED
    BY <1>2, <2>1 DEF Follows
<1>5. WireAfterSeen'
  <2> SUFFICES ASSUME NEW i \in DOMAIN seen, NEW j \in DOMAIN wire, wire[j].ev \in Events
               PROVE  Follows(seen[i], wire[j].ev)'
    BY DEF WireAfterSeen
  <2>1. Follows(seen[i], wire[j].ev)
    BY DEF Order, WireAfterSeen
  <2> QED
    BY <1>1, <2>1 DEF Follows
<1>6. SeenOnceInOrder'
  BY <1>1 DEF Order, SeenOnceInOrder
<1> QED
  BY <1>3, <1>4, <1>5, <1>6 DEF Order

\* A frame joins the wire: a published event or a heartbeat.
LEMMA OrderAppend ==
  ASSUME Order, SeqInv, NEW f \in Frame, wire' = Append(wire, f), UNCHANGED <<seen, cursor, began>>,
         \A e \in Events : Sent(e) => Sent(e)' /\ seq'[e] = seq[e],
         f.ev \in Events => pc[f.ev] = "read" /\ Sent(f.ev)' /\ seq'[f.ev] = f.seq
  PROVE  Order'
<1>t. wire \in Seq(Frame) /\ seen \in Seq(Events) /\ BeganAfterReturned /\ cursor \in Nat
  BY DEF SeqInv, TypeOK
<1>1. \A i \in DOMAIN seen : seen[i] \in Events /\ Sent(seen[i])
  BY <1>t DEF Order, SeenBelow
<1>2. \A i \in DOMAIN wire : wire[i].ev \in Events => Sent(wire[i].ev)
  BY DEF Order, WireStamped
<1>3. /\ DOMAIN wire' = 1..(Len(wire) + 1) /\ DOMAIN wire = 1..Len(wire) /\ Len(wire) \in Nat
      /\ wire'[Len(wire) + 1] = f /\ \A i \in 1..Len(wire) : wire'[i] = wire[i]
  BY <1>t
<1>4. ASSUME f.ev \in Events, NEW e \in Events, Sent(e) PROVE Follows(e, f.ev)
  <2>1. f.ev \notin Done
    BY <1>4 DEF Done, Sent
  <2> QED
    BY <1>t, <1>4, <2>1 DEF Follows, BeganAfterReturned, Sent
<1>5. SeenBelow'
  BY <1>1 DEF Order, SeenBelow
<1>6. WireStamped'
  BY <1>2, <1>3 DEF Order, WireStamped
<1>7. WireInOrder'
  <2> SUFFICES ASSUME NEW i \in DOMAIN wire', NEW j \in DOMAIN wire', i < j,
                      wire'[i].ev \in Events, wire'[j].ev \in Events
               PROVE  Follows(wire'[i].ev, wire'[j].ev)
    BY DEF WireInOrder, Follows
  <2>1. i \in 1..Len(wire) /\ wire'[i] = wire[i] /\ (j \in 1..Len(wire) \/ j = Len(wire) + 1)
    BY <1>3
  <2>2. CASE j \in 1..Len(wire)
    BY <1>3, <2>1, <2>2 DEF Order, WireInOrder
  <2>3. CASE j = Len(wire) + 1
    BY <1>2, <1>3, <1>4, <2>1, <2>3
  <2> QED
    BY <2>1, <2>2, <2>3
<1>8. WireAfterSeen'
  <2> SUFFICES ASSUME NEW i \in DOMAIN seen, NEW j \in DOMAIN wire', wire'[j].ev \in Events
               PROVE  Follows(seen[i], wire'[j].ev)
    BY DEF WireAfterSeen, Follows
  <2>1. CASE j \in 1..Len(wire)
    BY <1>3, <2>1 DEF Order, WireAfterSeen
  <2>2. CASE j = Len(wire) + 1
    BY <1>1, <1>3, <1>4, <2>2
  <2> QED
    BY <1>3, <2>1, <2>2
<1>9. SeenOnceInOrder'
  BY DEF Order, SeenOnceInOrder
<1> QED
  BY <1>5, <1>6, <1>7, <1>8, <1>9 DEF Order

\* The client reads a frame.
LEMMA OrderReceive ==
  ASSUME Order, SeqInv, Receive PROVE Order'
<1>t. wire \in Seq(Frame) /\ seen \in Seq(Events) /\ cursor \in Nat /\ seq \in [Events -> Nat]
  BY DEF SeqInv, TypeOK
<1>u. UNCHANGED <<pc, seq, began>>
  BY DEF Receive, recVars
<1>1. /\ wire # <<>> /\ wire' = Tail(wire) /\ Head(wire) = wire[1] /\ wire[1] \in Frame
      /\ DOMAIN wire = 1..Len(wire) /\ Len(wire) \in Nat \ {0} /\ 1 \in DOMAIN wire
      /\ DOMAIN wire' = 1..(Len(wire) - 1)
      /\ \A i \in DOMAIN wire' : i + 1 \in DOMAIN wire /\ wire'[i] = wire[i + 1]
  BY <1>t, HeadTailProperties DEF Receive
<1>2. wire[1].seq \in Nat /\ cursor' \in Nat /\ cursor <= cursor' /\ wire[1].seq <= cursor'
  BY <1>t, <1>1 DEF Receive, Frame
<1>3. \A i \in DOMAIN seen : seen[i] \in Events /\ Sent(seen[i]) /\ seq[seen[i]] <= cursor
  BY <1>t DEF Order, SeenBelow
<1>4. WireStamped' /\ WireInOrder'
  <2>1. WireStamped'
    BY <1>1, <1>u DEF Order, WireStamped, Sent
  <2>2. WireInOrder'
    BY <1>1, <1>u DEF Order, WireInOrder, Follows
  <2> QED
    BY <2>1, <2>2
<1>5. CASE wire[1].ev \notin Events
  <2>1. seen' = seen
    BY <1>1, <1>5 DEF Receive
  <2>2. SeenBelow'
    BY <1>t, <1>u, <1>2, <1>3, <2>1 DEF SeenBelow, Sent
  <2>3. WireAfterSeen' /\ SeenOnceInOrder'
    BY <1>1, <1>u, <2>1 DEF Order, WireAfterSeen, SeenOnceInOrder, Follows
  <2> QED
    BY <1>4, <2>2, <2>3 DEF Order
<1>6. CASE wire[1].ev \in Events
  <2>1. /\ DOMAIN seen' = 1..(Len(seen) + 1) /\ DOMAIN seen = 1..Len(seen) /\ Len(seen) \in Nat
        /\ seen'[Len(seen) + 1] = wire[1].ev /\ \A i \in 1..Len(seen) : seen'[i] = seen[i]
    BY <1>t, <1>1, <1>6 DEF Receive
  <2>2. Sent(wire[1].ev) /\ seq[wire[1].ev] <= cursor'
    BY <1>1, <1>2, <1>6 DEF Order, WireStamped
  <2>3. SeenBelow'
    <3>1. \A i \in 1..Len(seen) : Sent(seen[i]) /\ seq[seen[i]] <= cursor'
      <4>1. ASSUME NEW e \in Events, seq[e] <= cursor PROVE seq[e] <= cursor'
        BY <1>t, <1>2, <4>1
      <4> QED
        BY <1>3, <2>1, <4>1
    <3> QED
      BY <1>u, <2>1, <2>2, <3>1 DEF SeenBelow, Sent
  <2>4. WireAfterSeen'
    <3> SUFFICES ASSUME NEW i \in DOMAIN seen', NEW j \in DOMAIN wire', wire'[j].ev \in Events
                 PROVE  Follows(seen'[i], wire'[j].ev)
      BY <1>u DEF WireAfterSeen, Follows
    <3>1. CASE i \in 1..Len(seen)
      BY <1>1, <2>1, <3>1 DEF Order, WireAfterSeen
    <3>2. CASE i = Len(seen) + 1
      <4>1. j + 1 \in DOMAIN wire /\ 1 < j + 1 /\ wire'[j] = wire[j + 1]
        BY <1>1
      <4> QED
        BY <1>1, <1>6, <2>1, <3>2, <4>1 DEF Order, WireInOrder
    <3> QED
      BY <2>1, <3>1, <3>2
  <2>5. SeenOnceInOrder'
    <3> SUFFICES ASSUME NEW i \in DOMAIN seen', NEW j \in DOMAIN seen', i < j
                 PROVE  Follows(seen'[i], seen'[j])
      BY <1>u DEF SeenOnceInOrder, Follows
    <3>1. i \in 1..Len(seen) /\ (j \in 1..Len(seen) \/ j = Len(seen) + 1)
      BY <2>1
    <3>2. CASE j \in 1..Len(seen)
      BY <2>1, <3>1, <3>2 DEF Order, SeenOnceInOrder, Follows
    <3>3. CASE j = Len(seen) + 1
      BY <1>1, <1>6, <2>1, <3>1, <3>3 DEF Order, WireAfterSeen
    <3> QED
      BY <3>1, <3>2, <3>3
  <2> QED
    BY <1>4, <2>3, <2>4, <2>5 DEF Order
<1> QED
  BY <1>5, <1>6

\* The backlog goes on the wire.
LEMMA OrderSubscribe ==
  ASSUME Order, Supply, PublishedStamped, SeqInv, NEW k \in Streams, Subscribe(k), Attached(k)
  PROVE  Order'
<1> DEFINE b == stream[k].backlog
<1>t. /\ seen \in Seq(Events) /\ cursor \in Nat /\ seq \in [Events -> Nat] /\ b \in Seq(Events)
      /\ stream[k].since \in Nat /\ log \subseteq Events
  BY DEF SeqInv, TypeOK, StreamState
<1>u. UNCHANGED <<pc, seq, began, seen, cursor>>
  BY DEF Subscribe, recVars, clientVars
<1>1. attached /\ cur = k /\ stream[k].at = "loaded"
  BY DEF Subscribe, Attached
<1>2. /\ wire = <<>> /\ stream[k].since = cursor
      /\ \A i \in DOMAIN b : b[i] \in log /\ seq[b[i]] > cursor
      /\ \A i, j \in DOMAIN b : i < j => b[i] # b[j] /\ seq[b[i]] <= seq[b[j]]
  BY <1>1 DEF Supply, NothingUntilLive, BacklogLoaded
<1>3. Frames(b) \in Seq(Frame)
  BY FramesType, <1>t DEF SeqInv
<1>4. wire' = Frames(b)
  BY <1>2, <1>3 DEF Subscribe
<1>5. DOMAIN wire' = DOMAIN b /\ \A i \in DOMAIN b : wire'[i].ev = b[i] /\ wire'[i].seq = seq[b[i]]
  BY <1>4 DEF Frames
<1>b. DOMAIN b = 1..Len(b) /\ Len(b) \in Nat
  BY <1>t
<1>6. \A i \in DOMAIN b : b[i] \in Events /\ Sent(b[i]) /\ seq[b[i]] \in Nat
  BY <1>t, <1>2 DEF SeqInv, LogHoldsReturned, PublishedStamped, Sent
<1>7. ASSUME NEW e \in Events, NEW f \in Events, Sent(e), f # e, seq[f] >= seq[e]
      PROVE  Follows(e, f)
  <2>1. \A g \in began[e] : seq[g] < seq[e]
    BY <1>7 DEF SeqInv, SeqFollowsRealTime, Sent
  <2>2. seq[e] \in Nat /\ seq[f] \in Nat
    BY <1>t
  <2> QED
    BY <1>7, <2>1, <2>2 DEF Follows
<1>8. \A i \in DOMAIN seen : seen[i] \in Events /\ Sent(seen[i]) /\ seq[seen[i]] <= cursor
  BY <1>t DEF Order, SeenBelow
<1>9. SeenBelow' /\ SeenOnceInOrder'
  BY <1>u DEF Order, SeenBelow, SeenOnceInOrder, Sent
<1>10. WireStamped'
  BY <1>5, <1>6, <1>u DEF WireStamped, Sent
<1>11. WireInOrder'
  <2>1. \A i, j \in DOMAIN b : i < j => Follows(b[i], b[j])
    BY <1>2, <1>6, <1>7
  <2> QED
    BY <1>5, <1>u, <2>1 DEF WireInOrder, Follows
<1>12. WireAfterSeen'
  <2> SUFFICES ASSUME NEW i \in DOMAIN seen, NEW j \in DOMAIN b PROVE Follows(seen[i], b[j])
    BY <1>5, <1>u DEF WireAfterSeen, Follows
  <2>1. seq[b[j]] > cursor /\ seq[seen[i]] <= cursor /\ seq[b[j]] \in Nat /\ seq[seen[i]] \in Nat
    BY <1>t, <1>2, <1>6, <1>8
  <2>2. b[j] # seen[i] /\ seq[b[j]] >= seq[seen[i]]
    BY <1>t, <2>1
  <2> QED
    BY <1>6, <1>7, <1>8, <2>2
<1> QED
  BY <1>9, <1>10, <1>11, <1>12 DEF Order

\* A step that moves no stream and leaves the client its frames and the file its
\* events.
LEMMA SupplyKept ==
  ASSUME Supply, SeqInv, UNCHANGED <<wire, cursor, seen, stream, cur>>, attached' => attached,
         log \subseteq log', \A e \in log : seq'[e] = seq[e]
  PROVE  Supply'
<1> USE DEF Supply
<1>1. RecordedBefore' /\ NothingUntilLive'
  BY DEF RecordedBefore, NothingUntilLive
<1>2. BacklogLoaded'
  BY DEF BacklogLoaded, RecordedBefore
<1>3. BacklogComplete'
  <2> SUFFICES ASSUME Listening', NEW e \in stream[cur].before, seq'[e] > stream[cur].since
               PROVE  (\E i \in DOMAIN wire : wire[i].ev = e) \/ \E i \in DOMAIN seen : seen[i] = e
    BY DEF BacklogComplete
  <2>1. Listening /\ cur \in Streams
    BY EventLogAssumption DEF Listening, Subscribed, SeqInv, TypeOK
  <2>2. seq'[e] = seq[e]
    BY <2>1 DEF RecordedBefore
  <2> QED
    BY <2>1, <2>2 DEF BacklogComplete
<1> QED
  BY <1>1, <1>2, <1>3

\* A frame joins the wire of a live stream.
LEMMA SupplyAppend ==
  ASSUME Supply, SeqInv, NEW f \in Frame, UNCHANGED <<cursor, seen, stream, cur, attached, log>>,
         Listening, wire' = Append(wire, f), \A e \in log : seq'[e] = seq[e]
  PROVE  Supply'
<1> USE DEF Supply
<1>t. wire \in Seq(Frame) /\ (attached => cur \in Streams)
  BY EventLogAssumption DEF SeqInv, TypeOK
<1>1. RecordedBefore' /\ NothingUntilLive'
  BY DEF RecordedBefore, NothingUntilLive, Listening, Subscribed
<1>2. BacklogLoaded'
  BY DEF BacklogLoaded, RecordedBefore
<1>3. BacklogComplete'
  <2> SUFFICES ASSUME NEW e \in stream[cur].before, seq'[e] > stream[cur].since
               PROVE  (\E i \in DOMAIN wire' : wire'[i].ev = e) \/ \E i \in DOMAIN seen : seen[i] = e
    BY DEF BacklogComplete
  <2>1. seq'[e] = seq[e]
    BY <1>t DEF RecordedBefore, Listening
  <2>2. \A i \in DOMAIN wire : i \in DOMAIN wire' /\ wire'[i] = wire[i]
    BY <1>t
  <2> QED
    BY <2>1, <2>2 DEF BacklogComplete
<1> QED
  BY <1>1, <1>2, <1>3

\* The client reads a frame: what was on its way has been seen.
LEMMA SupplyReceive ==
  ASSUME Supply, SeqInv, Receive PROVE Supply'
<1> USE DEF Supply
<1>t. wire \in Seq(Frame) /\ seen \in Seq(Events) /\ log \subseteq Events /\ (attached => cur \in Streams)
  BY EventLogAssumption DEF SeqInv, TypeOK
<1>u. UNCHANGED <<seq, log, stream, cur, attached>> /\ wire # <<>>
  BY DEF Receive, recVars
<1>1. RecordedBefore' /\ NothingUntilLive'
  BY <1>u DEF RecordedBefore, NothingUntilLive
<1>2. BacklogLoaded'
  BY <1>u DEF BacklogLoaded
<1>3. BacklogComplete'
  <2> SUFFICES ASSUME Listening', NEW e \in stream[cur].before, seq[e] > stream[cur].since
               PROVE  (\E i \in DOMAIN wire' : wire'[i].ev = e) \/ \E i \in DOMAIN seen' : seen'[i] = e
    BY <1>u DEF BacklogComplete
  <2>0. Listening /\ e \in Events
    BY <1>t, <1>u DEF Listening, Subscribed, RecordedBefore
  <2>1. \A i \in DOMAIN seen : i \in DOMAIN seen' /\ seen'[i] = seen[i]
    BY <1>t DEF Receive
  <2>2. CASE \E i \in DOMAIN seen : seen[i] = e
    BY <2>1, <2>2
  <2>3. ASSUME NEW i \in DOMAIN wire, wire[i].ev = e
        PROVE  (\E j \in DOMAIN wire' : wire'[j].ev = e) \/ \E j \in DOMAIN seen' : seen'[j] = e
    <3>1. CASE i = 1
      <4>1. seen' = Append(seen, e)
        BY <2>0, <2>3, <3>1, <1>t DEF Receive
      <4>2. Len(seen) + 1 \in DOMAIN seen' /\ seen'[Len(seen) + 1] = e
        BY <1>t, <2>0, <4>1
      <4> QED
        BY <4>2
    <3>2. CASE i # 1
      <4>1. i - 1 \in DOMAIN wire' /\ wire'[i - 1] = wire[i]
        BY <1>t, <2>3, <3>2 DEF Receive
      <4> QED
        BY <2>3, <4>1
    <3> QED
      BY <3>1, <3>2
  <2> QED
    BY <2>0, <2>2, <2>3 DEF BacklogComplete
<1> QED
  BY <1>1, <1>2, <1>3

\* The client connects, a backlog is read, and it goes on the wire.
LEMMA SupplyConnect ==
  ASSUME Supply, SeqInv, NEW k \in Streams, Connect(k) PROVE Supply'
<1> USE DEF Supply
<1>t. stream \in [Streams -> StreamState]
  BY DEF SeqInv, TypeOK
<1>1. UNCHANGED <<seq, log, pc, cursor, seen>> /\ wire' = <<>> /\ cur' = k
  BY DEF Connect, recVars
<1>2. /\ stream'[k].at = "loading" /\ stream'[k].since = cursor /\ stream'[k].before = Done
      /\ \A m \in Streams : m # k => stream'[m] = stream[m]
  BY <1>t DEF Connect, FreshStream
<1>3. RecordedBefore'
  BY <1>1, <1>2 DEF RecordedBefore, SeqInv, LogHoldsReturned, Done
<1>4. NothingUntilLive' /\ BacklogComplete'
  BY <1>1, <1>2 DEF NothingUntilLive, BacklogComplete, Listening, Subscribed
<1>5. BacklogLoaded'
  BY <1>1, <1>2 DEF BacklogLoaded
<1> QED
  BY <1>3, <1>4, <1>5

LEMMA SupplyLoad ==
  ASSUME Supply, SeqInv, NEW k \in Streams, LoadBacklog(k) PROVE Supply'
<1> USE DEF Supply
<1>t. stream \in [Streams -> StreamState] /\ log \in SUBSET Events
  BY DEF SeqInv, TypeOK
<1>1. UNCHANGED <<seq, log, cursor, seen, wire, cur, attached>>
  BY DEF LoadBacklog, recVars, clientVars
<1>2. PICK b \in Backlogs(stream[k].since) :
        stream' = [stream EXCEPT ![k].at = "loaded", ![k].backlog = b]
  BY DEF LoadBacklog
<1>3. /\ stream[k].at = "loading" /\ stream'[k].at = "loaded" /\ stream'[k].since = stream[k].since
      /\ stream'[k].before = stream[k].before /\ stream'[k].backlog = b
      /\ \A m \in Streams : m # k => stream'[m] = stream[m]
  BY <1>t, <1>2 DEF StreamState, LoadBacklog
<1>4. RecordedBefore'
  BY <1>1, <1>3 DEF RecordedBefore
<1>5. NothingUntilLive'
  BY <1>1, <1>3, EventLogAssumption DEF NothingUntilLive, SeqInv, TypeOK
<1>6. BacklogComplete'
  BY <1>1, <1>3, EventLogAssumption DEF BacklogComplete, Listening, Subscribed, SeqInv, TypeOK
<1>7. /\ \A i \in DOMAIN b : b[i] \in log /\ seq[b[i]] > stream[k].since
      /\ \A i, j \in DOMAIN b : i < j => b[i] # b[j] /\ seq[b[i]] <= seq[b[j]]
      /\ \A e \in log : seq[e] > stream[k].since => \E i \in DOMAIN b : b[i] = e
  BY <1>t, <1>2, BacklogHolds
<1>8. BacklogLoaded'
  <2> SUFFICES ASSUME NEW m \in Streams, stream'[m].at = "loaded"
               PROVE  LET c == stream'[m].backlog IN
                      /\ \A i \in DOMAIN c : c[i] \in log /\ seq[c[i]] > stream'[m].since
                      /\ \A i, j \in DOMAIN c : i < j => c[i] # c[j] /\ seq[c[i]] <= seq[c[j]]
                      /\ \A e \in stream'[m].before :
                           seq[e] > stream'[m].since => \E i \in DOMAIN c : c[i] = e
    BY <1>1 DEF BacklogLoaded
  <2>1. CASE m = k
    BY <1>3, <1>7, <2>1 DEF RecordedBefore
  <2>2. CASE m # k
    BY <1>3, <2>2 DEF BacklogLoaded
  <2> QED
    BY <2>1, <2>2
<1> QED
  BY <1>4, <1>5, <1>6, <1>8

LEMMA SupplySubscribe ==
  ASSUME Supply, SeqInv, NEW k \in Streams, Subscribe(k) PROVE Supply'
<1> USE DEF Supply
<1>t. /\ stream \in [Streams -> StreamState] /\ (attached => cur \in Streams)
      /\ \A m \in Streams : stream[m].backlog \in Seq(Events)
  BY EventLogAssumption DEF SeqInv, TypeOK, StreamState
<1>1. UNCHANGED <<seq, log, cursor, seen, cur, attached>> /\ stream[k].at = "loaded"
  BY DEF Subscribe, recVars, clientVars
<1>2. /\ stream'[k].at = "live" /\ stream'[k].since = stream[k].since
      /\ stream'[k].before = stream[k].before
      /\ \A m \in Streams : m # k => stream'[m] = stream[m]
  BY <1>t DEF StreamState, Subscribe
<1>3. RecordedBefore' /\ BacklogLoaded'
  BY <1>1, <1>2 DEF RecordedBefore, BacklogLoaded
<1>4. CASE ~Attached(k)
  <2>1. wire' = wire
    BY <1>4 DEF Subscribe
  <2>2. attached => cur # k
    BY <1>4 DEF Attached
  <2>3. NothingUntilLive'
    BY <1>t, <1>1, <1>2, <2>1, <2>2 DEF NothingUntilLive
  <2>4. BacklogComplete'
    BY <1>t, <1>1, <1>2, <2>1, <2>2 DEF BacklogComplete, Listening, Subscribed
  <2> QED
    BY <1>3, <2>3, <2>4
<1>5. CASE Attached(k)
  <2>1. attached /\ cur = k /\ wire = <<>>
    BY <1>1, <1>5 DEF Attached, NothingUntilLive
  <2>2. Frames(stream[k].backlog) \in Seq(Frame)
    BY <1>t, FramesType DEF SeqInv
  <2>3. wire' = Frames(stream[k].backlog)
    BY <1>5, <2>1, <2>2 DEF Subscribe
  <2>4. NothingUntilLive'
    BY <1>1, <1>2, <2>1 DEF NothingUntilLive
  <2>5. ASSUME NEW e \in stream[k].before, seq[e] > stream[k].since
        PROVE  \E i \in DOMAIN wire' : wire'[i].ev = e
    <3>1. PICK i \in DOMAIN stream[k].backlog : stream[k].backlog[i] = e
      BY <1>1, <2>5 DEF BacklogLoaded
    <3> QED
      BY <2>3, <3>1 DEF Frames
  <2>6. BacklogComplete'
    BY <1>1, <1>2, <2>1, <2>5 DEF BacklogComplete
  <2> QED
    BY <1>3, <2>4, <2>6
<1> QED
  BY <1>4, <1>5

Delivery == PublishedStamped /\ Order /\ Supply

LEMMA DeliveryInit == Init => Delivery
  BY DEF Init, Delivery, PublishedStamped, Order, SeenBelow, WireStamped, WireInOrder, WireAfterSeen,
         SeenOnceInOrder, Supply, NothingUntilLive, BacklogLoaded, RecordedBefore, BacklogComplete,
         Listening, FreshStream

LEMMA DeliveryNext == SeqInv /\ SeqInv' /\ Delivery /\ [Next]_vars => Delivery'
<1> SUFFICES ASSUME SeqInv, SeqInv', Delivery, [Next]_vars PROVE Delivery'
  OBVIOUS
<1> USE DEF Delivery
<1>t. /\ alloc \in [Events -> Nat] /\ persisted \in [Events -> Nat] /\ seq \in [Events -> Nat]
      /\ pc \in [Events -> {"idle", "reading", "read", "published", "done", "lost"}]
      /\ began \in [Events -> SUBSET Events] /\ log \subseteq Events
  BY DEF SeqInv, TypeOK
<1>l. \A e \in log : pc[e] = "done"
  BY <1>t DEF SeqInv, LogHoldsReturned
<1>1. ASSUME NEW e \in Events, AllocateSeq(e) \/ ReadHighestSeq(e) \/ AppendEvent(e) PROVE Delivery'
  <2>1. UNCHANGED <<seq, wire, cursor, seen, stream, cur, attached>> /\ log \subseteq log'
    BY <1>1 DEF AllocateSeq, ReadHighestSeq, AppendEvent, clientVars
  <2>2. \A g \in Events : Sent(g) => Sent(g)' /\ began'[g] = began[g]
    BY <1>t, <1>1 DEF AllocateSeq, ReadHighestSeq, AppendEvent, Sent
  <2>3. PublishedStamped'
    BY <1>t, <1>1 DEF AllocateSeq, ReadHighestSeq, AppendEvent, PublishedStamped
  <2> QED
    BY <2>1, <2>2, <2>3, OrderKept, SupplyKept
<1>2. ASSUME NEW e \in Events, Publish(e) PROVE Delivery'
  <2> DEFINE f == [ev |-> e, seq |-> StampedSeq(e)]
  <2>1. StampedSeq(e) \in Nat \ {0} /\ f \in Frame
    BY <1>t DEF StampedSeq, Frame
  <2>2. /\ pc[e] = "read" /\ pc'[e] = "published" /\ seq'[e] = StampedSeq(e) /\ Sent(e)'
        /\ \A g \in Events : g # e => pc'[g] = pc[g] /\ seq'[g] = seq[g]
        /\ UNCHANGED <<began, log, stream, cur, attached, cursor, seen>>
    BY <1>t, <1>2, <2>1 DEF Publish, clientVars, Sent
  <2>3. \A g \in Events : Sent(g) => Sent(g)' /\ seq'[g] = seq[g]
    BY <2>2 DEF Sent
  <2>4. PublishedStamped'
    BY <2>1, <2>2 DEF PublishedStamped
  <2>5. \A g \in log : seq'[g] = seq[g]
    BY <1>t, <1>l, <2>2
  <2>6. CASE Listening
    <3>1. wire' = Append(wire, f)
      BY <1>2, <2>6 DEF Publish
    <3>2. Order'
      BY <2>1, <2>2, <2>3, <3>1, OrderAppend
    <3>3. Supply'
      BY <2>1, <2>2, <2>5, <2>6, <3>1, SupplyAppend
    <3> QED
      BY <2>4, <3>2, <3>3
  <2>7. CASE ~Listening
    <3>1. wire' = wire
      BY <1>2, <2>7 DEF Publish
    <3>2. Supply'
      BY <2>2, <2>5, <3>1, SupplyKept
    <3>3. Order'
      BY <2>2, <2>3, <3>1, OrderKept
    <3> QED
      BY <2>4, <3>2, <3>3
  <2> QED
    BY <2>6, <2>7
<1>3. ASSUME NEW k \in Streams, Connect(k) PROVE Delivery'
  <2>1. UNCHANGED <<pc, seq, began, seen, cursor>> /\ wire' = <<>>
    BY <1>3 DEF Connect, recVars
  <2>2. Order' /\ PublishedStamped'
    BY <2>1 DEF Order, SeenBelow, WireStamped, WireInOrder, WireAfterSeen, SeenOnceInOrder, Sent,
                PublishedStamped
  <2> QED
    BY <1>3, <2>2, SupplyConnect
<1>4. ASSUME NEW k \in Streams, LoadBacklog(k) PROVE Delivery'
  <2>1. UNCHANGED <<pc, seq, began, wire, seen, cursor>>
    BY <1>4 DEF LoadBacklog, recVars, clientVars
  <2>2. Order' /\ PublishedStamped'
    BY <2>1, OrderKept DEF Sent, PublishedStamped
  <2> QED
    BY <1>4, <2>2, SupplyLoad
<1>5. ASSUME NEW k \in Streams, Subscribe(k) PROVE Delivery'
  <2>1. UNCHANGED <<pc, seq, began, seen, cursor>> /\ (Attached(k) \/ wire' = wire)
    BY <1>5 DEF Subscribe, recVars, clientVars
  <2>2. Order'
    BY <1>5, <2>1, OrderKept, OrderSubscribe DEF Sent
  <2> QED
    BY <1>5, <2>1, <2>2, SupplySubscribe DEF PublishedStamped
<1>6. ASSUME NEW k \in Streams, SendHeartbeat(k) PROVE Delivery'
  <2> DEFINE f == [ev |-> Heartbeat, seq |-> counter + 1]
  <2>1. f \in Frame /\ f.ev \notin Events
    BY EventLogAssumption DEF Frame, SeqInv, TypeOK, EventLogAssumption
  <2>2. UNCHANGED <<pc, seq, began, seen, cursor, stream, cur, attached, log>>
    BY <1>6 DEF SendHeartbeat, recVars, clientVars
  <2>3. PublishedStamped' /\ \A g \in Events : Sent(g)' = Sent(g)
    BY <2>2 DEF PublishedStamped, Sent
  <2>4. CASE Attached(k)
    <3>1. Listening /\ wire' = Append(wire, f)
      BY <1>6, <2>4 DEF SendHeartbeat, Attached, Listening
    <3>2. Order'
      BY <2>1, <2>2, <2>3, <3>1, OrderAppend
    <3>3. Supply'
      BY <2>1, <2>2, <3>1, SupplyAppend
    <3> QED
      BY <2>3, <3>2, <3>3
  <2>5. CASE ~Attached(k)
    <3>1. wire' = wire
      BY <1>6, <2>5 DEF SendHeartbeat
    <3> QED
      BY <2>2, <2>3, <3>1, OrderKept, SupplyKept
  <2> QED
    BY <2>4, <2>5
<1>7. CASE Receive
  <2>1. PublishedStamped'
    BY <1>7 DEF Receive, recVars, PublishedStamped
  <2> QED
    BY <1>7, <2>1, OrderReceive, SupplyReceive
<1>8. CASE Drop \/ UNCHANGED vars
  <2>1. UNCHANGED <<pc, seq, began, wire, seen, cursor, stream, cur, log>> /\ (attached' => attached)
    BY <1>8 DEF Drop, vars, recVars, clientVars
  <2> QED
    BY <2>1, OrderKept, SupplyKept DEF Sent, PublishedStamped
<1>9. CASE Restart
  <2>1. UNCHANGED <<seq, began, wire, seen, cursor, log>> /\ attached' = FALSE
    BY <1>9 DEF Restart
  <2>2. \A e \in Events : /\ Sent(e) => Sent(e)'
                          /\ pc'[e] \in {"published", "done"} => pc[e] = pc'[e]
    BY <1>t, <1>9, <2>1 DEF Restart, InFlight, Sent
  <2>3. Order' /\ PublishedStamped'
    BY <2>1, <2>2, OrderKept DEF PublishedStamped
  <2>4. \A k \in Streams : /\ stream'[k].before \in {stream[k].before, {}}
                            /\ stream'[k].at \in {"unused", "ended"}
    BY <1>9 DEF Restart, FreshStream
  <2>5. Supply'
    BY <2>1, <2>4 DEF Supply, NothingUntilLive, BacklogLoaded, RecordedBefore, BacklogComplete, Listening
  <2> QED
    BY <2>3, <2>5
<1> QED
  BY <1>1, <1>2, <1>3, <1>4, <1>5, <1>6, <1>7, <1>8, <1>9 DEF Next

LEMMA DeliveryAlways == Spec => []Delivery
  BY DeliveryInit, DeliveryNext, SeqAlways, PTL DEF Spec

\* However often the client reconnects and the runtime restarts, the renderer sees
\* no event twice and none before one that was recorded before its own record().
THEOREM SeenOnce == Spec => []SeenOnceInOrder
<1>1. Delivery => SeenOnceInOrder
  BY DEF Delivery, Order
<1> QED
  BY <1>1, DeliveryAlways, PTL

\* An open stream has sent, or holds, all that was recorded above its position when
\* its client connected.
THEOREM BacklogWhole == Spec => []BacklogComplete
<1>1. Delivery => BacklogComplete
  BY DEF Delivery, Supply
<1> QED
  BY <1>1, DeliveryAlways, PTL
=============================================================================
