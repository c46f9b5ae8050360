----------------------------- MODULE MCProgress -----------------------------
(* What must come to its end: questions to the user (UserInputGate), the     *)
(* calls of the file queue and lock (FileMutationLock), the delivery of      *)
(* recorded events (EventLog) and a turn (TurnLifecycle), each on a small    *)
(* instance. They share no state: one of them is chosen in the initial       *)
(* state, and the others stay as they are. The fairness is that of the four  *)
(* modules, each for its part.                                               *)
EXTENDS UserInputGate, TLC

CONSTANTS c1, c2, c3, p1, p2

VARIABLES part,
          exists, alive, lockPc, key, previous, tail, made, owner, old,
          before, lockSeen, raced, kept,
          counter, eventPc, alloc, persisted, seq, began, log, stream, cur, attached, wire,
          cursor, seen, beats, restarts,
          record, threadStatus, open, terminal, inflightTurns, signalled, inflight,
          queueTurn, buffer, sentTo, late, injected, alone, start, loop, decided, caught, steps,
          approval, intr

lockVars  == <<exists, alive, lockPc, key, previous, tail, made, owner, old, before,
               lockSeen, raced, kept>>
eventVars == <<counter, eventPc, alloc, persisted, seq, began, log, stream, cur, attached, wire,
               cursor, seen, beats, restarts>>
turnVars  == <<record, threadStatus, open, terminal, inflightTurns, signalled, inflight,
               queueTurn, buffer, sentTo, late, injected, alone, start, loop, decided, caught, steps,
               approval, intr>>

Lock == INSTANCE FileMutationLock WITH
          pc <- lockPc, seen <- lockSeen, Calls <- {c1, c2, c3}, Procs <- {p1, p2},
          ProcOf <- (c1 :> p1) @@ (c2 :> p1) @@ (c3 :> p2), Linked <- {c2, c3}, Crashes <- {p2}

Events == INSTANCE EventLog WITH
            pc <- eventPc, Events <- {"event1", "event2"}, Streams <- {"stream1", "stream2"},
            NoStream <- "none", Heartbeat <- "heartbeat", MaxHeartbeats <- 0, MaxRestarts <- 1

Life == INSTANCE TurnLifecycle WITH
          aborted <- signalled, outcome <- decided,
          Turns <- {"turn"}, Threads <- {"thread"}, ThreadOf <- [t \in {"turn"} |-> "thread"],
          Texts <- {"text"}, NoTurn <- "none", MaxSteps <- 2

ProgressInit ==
  /\ part \in {"questions", "lock", "events", "turn"}
  /\ Init /\ Lock!Init /\ Events!Init /\ Life!Init
  /\ part # "lock" => exists

ProgressNext ==
  /\ UNCHANGED part
  /\ \/ part = "questions" /\ Next        /\ UNCHANGED <<lockVars, eventVars, turnVars>>
     \/ part = "lock"      /\ Lock!Next   /\ UNCHANGED <<vars, eventVars, turnVars>>
     \/ part = "events"    /\ Events!Next /\ UNCHANGED <<vars, lockVars, turnVars>>
     \/ part = "turn"      /\ Life!Next   /\ UNCHANGED <<vars, lockVars, eventVars>>

Locks(A)    == part = "lock" /\ A
Delivers(A) == part = "events" /\ A
Lives(A)    == part = "turn" /\ A

ProgressSpec ==
  /\ ProgressInit /\ [][ProgressNext]_<<part, vars, lockVars, eventVars, turnVars>>
  /\ Fairness
  /\ \A c \in {c1, c2, c3} :
       /\ WF_lockVars(Locks(Lock!Enter(c) \/ Lock!Leave(c) \/ Lock!LockStep(c)))
       /\ SF_lockVars(Locks(Lock!GiveUp(c)))
  /\ \A k \in Lock!Keys : WF_lockVars(Locks(Lock!Age(k)))
  /\ \A e \in {"event1", "event2"} :
       /\ WF_eventVars(Delivers(Events!ReadHighestSeq(e)))
       /\ WF_eventVars(Delivers(Events!Publish(e)))
       /\ WF_eventVars(Delivers(Events!AppendEvent(e)))
  /\ \A k \in {"stream1", "stream2"} :
       /\ WF_eventVars(Delivers(Events!LoadBacklog(k)))
       /\ WF_eventVars(Delivers(Events!Subscribe(k)))
  /\ WF_eventVars(Delivers(Events!Receive))
  /\ WF_turnVars(Lives(Life!LoopStep("turn")))

-----------------------------------------------------------------------------
\* What FileMutationLock, EventLog and TurnLifecycle say must happen.
CallsEnd         == Lock!CallsEnd
BacklogDelivered == Events!BacklogDelivered
EndsOrWaits      == Life!EndsOrWaits
=============================================================================
