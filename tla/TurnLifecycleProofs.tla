------------------------ MODULE TurnLifecycleProofs ------------------------
(***************************************************************************)
(* TurnLifecycle for any number of turns, threads, texts and model steps:  *)
(* its types, and every safety property of it that is model-checked.       *)
(***************************************************************************)
EXTENDS TurnLifecycle, SequenceTheorems, TLAPS

-----------------------------------------------------------------------------
(* Types *)

LEMMA TypeInit == Init => TypeOK
<1> SUFFICES ASSUME Init PROVE TypeOK
  OBVIOUS
<1>1. <<>> \in Seq(Terminal) /\ <<>> \in Seq(Texts)
  BY EmptySeq
<1> QED
  BY <1>1, TurnAssumption DEF Init, TypeOK, LoopStates, TurnAssumption

\* startTurn.
LEMMA TypeStart ==
  ASSUME TypeOK, NEW t \in Turns, StartStep(t) PROVE TypeOK'
<1> USE TurnAssumption DEF TypeOK, TurnAssumption
<1>1. CASE AddTurn(t)
  BY <1>1 DEF AddTurn, KeepAlone, trackVars, queueVars, loopVars
<1>2. CASE AnnounceTurn(t)
  BY <1>2 DEF AnnounceTurn, statusVars, trackVars, queueVars, textVars, loopVars
<1>3. CASE RegisterTurn(t)
  <2>1. <<>> \in Seq(Texts)
    BY EmptySeq
  <2> QED
    BY <1>3, <2>1 DEF RegisterTurn, SetTurn, statusVars, textVars, loopVars
<1> QED
  BY <1>1, <1>2, <1>3 DEF StartStep

\* steerTurn, interruptTurn and the decision of an approval.
LEMMA TypeClient ==
  ASSUME TypeOK, NEW t \in Turns,
         \/ \E x \in Texts : Steer(x, t)
         \/ Interrupt(t)
         \/ \E decision \in {"allow", "deny"} : Decide(t, decision)
         \/ InterruptStep(t)
  PROVE  TypeOK'
<1> USE TurnAssumption DEF TypeOK, TurnAssumption
<1>0. <<>> \in Seq(Texts)
  BY EmptySeq
<1>1. ASSUME NEW x \in Texts, Steer(x, t) PROVE TypeOK'
  <2>1. <<x>> \in Seq(Texts) /\ Append(buffer, x) \in Seq(Texts)
    BY AppendProperties
  <2> QED
    BY <1>1, <2>1 DEF Steer, KeepAlone, statusVars, trackVars, loopVars
<1>2. ASSUME Interrupt(t) PROVE TypeOK'
  BY <1>0, <1>2 DEF Interrupt, ClearSteering, KeepAlone, statusVars, loopVars
<1>3. ASSUME NEW decision \in {"allow", "deny"}, Decide(t, decision) PROVE TypeOK'
  BY <1>3 DEF Decide, statusVars, trackVars, queueVars, textVars, loopVars
<1>4. CASE AnnounceInterrupt(t)
  <2>1. Append(terminal[t], "aborted") \in Seq(Terminal)
    BY AppendProperties DEF Terminal
  <2> QED
    BY <1>4, <2>1 DEF AnnounceInterrupt, statusVars, trackVars, queueVars, textVars, loopVars
<1>5. CASE FinishInterrupt(t)
  BY <1>5 DEF FinishInterrupt, Terminal, trackVars, queueVars, textVars, loopVars
<1> QED
  BY <1>1, <1>2, <1>3, <1>4, <1>5 DEF InterruptStep

-----------------------------------------------------------------------------
(* What a step of the loop does *)

Working == LoopStates \ {"off", "finishing", "closing", "announcing", "over", "rejected"}

\* It changes nothing but its own turn.
Alters(t) ==
  /\ UNCHANGED <<start, intr, aborted, sentTo, late, alone, threadStatus>>
  /\ record' = record /\ terminal' = terminal
  /\ loop' = [loop EXCEPT ![t] = loop'[t]]
  /\ outcome' = [outcome EXCEPT ![t] = outcome'[t]]
  /\ caught' = [caught EXCEPT ![t] = caught'[t]]
  /\ open' = [open EXCEPT ![t] = open'[t]]
  /\ \A i \in inflight' : i \in inflight \/ (i = <<t, "tool">> /\ loop'[t] \in Working)

\* The loop begins its run or goes on with it; at two places it empties the queue.
Goes(t) ==
  /\ loop[t] = "off" => start[t] = "started"
  /\ loop[t] \in Working \union {"off"}
  /\ loop'[t] \in Working
  /\ loop'[t] \in ToolStates => loop[t] \in ToolStates \/ t \notin aborted
  /\ UNCHANGED <<inflightTurns, outcome, caught, queueTurn>>
  /\ \/ UNCHANGED <<buffer, injected>>
     \/ loop[t] # "off" /\ Drain(t)

\* The run comes to its outcome.
Ends(t) == Throw(t) \/ \E status \in Terminal : Return(t, status)
Finishes(t) ==
  /\ loop[t] = "off" => start[t] = "started"
  /\ loop[t] \in Working \union {"off"}
  /\ Ends(t)
  /\ UNCHANGED <<open, injected>>

LEMMA EndsFirst ==
  ASSUME TypeOK, NEW t \in Turns, Ends(t) PROVE loop'[t] = "finishing"
  BY DEF TypeOK, Ends, Return, Throw, BeginFinish

LEMMA ModelStepKind ==
  ASSUME TypeOK, NEW t \in Turns, ModelStep(t) PROVE Alters(t) /\ (Goes(t) \/ Finishes(t))
<1> USE DEF TypeOK, Alters, Goes, Finishes, Working, LoopStates, ToolStates, Terminal, trackVars,
            queueVars, textVars, statusVars, loopVars
<1>1. CASE RunTurn(t)
  BY <1>1 DEF RunTurn, Advance, Ends, Fail, Return, Throw, BeginFinish, ClearSteering
<1>2. CASE FirstDrain(t)
  BY <1>2 DEF FirstDrain, Drain, Ends, Throw, BeginFinish, ClearSteering
<1>3. CASE NextStep(t)
  BY <1>3 DEF NextStep, Ends, Fail, Return, Throw, BeginFinish, ClearSteering, Drain
<1>4. CASE PrepareRequest(t)
  BY <1>4 DEF PrepareRequest, Advance, Ends, Fail, Return, Throw, BeginFinish, ClearSteering
<1>5. CASE ReceiveChunk(t)
  BY <1>5 DEF ReceiveChunk, Advance, Ends, Fail, Return, Throw, BeginFinish, ClearSteering
<1>6. CASE AddToolCall(t)
  BY <1>6 DEF AddToolCall, Advance
<1>7. CASE EndStream(t)
  BY <1>7 DEF EndStream, Advance, Ends, Fail, Return, Throw, BeginFinish, ClearSteering
<1> QED
  BY <1>1, <1>2, <1>3, <1>4, <1>5, <1>6, <1>7 DEF ModelStep

LEMMA ToolStepKind ==
  ASSUME TypeOK, NEW t \in Turns, ToolStep(t) \/ EndWait(t) PROVE Alters(t) /\ (Goes(t) \/ Finishes(t))
<1> USE DEF TypeOK, Alters, Goes, Finishes, Working, LoopStates, ToolStates, Terminal, trackVars,
            queueVars, textVars, statusVars, loopVars, Advance
<1>1. CASE DispatchTool(t)
  BY <1>1 DEF DispatchTool, Ends, Fail, Return, Throw, BeginFinish, ClearSteering
<1>2. CASE EnterHost(t)
  BY <1>2 DEF EnterHost, Ends, Fail, Return, Throw, BeginFinish, ClearSteering
<1>3. CASE CheckTool(t)
  BY <1>3 DEF CheckTool
<1>4. CASE ResumeTool(t)
  BY <1>4 DEF ResumeTool
<1>5. CASE RunTool(t)
  BY <1>5 DEF RunTool, Ends, Fail, Return, Throw, BeginFinish, ClearSteering
<1>6. CASE EndTool(t)
  BY <1>6 DEF EndTool, Ends, Fail, Return, Throw, BeginFinish, ClearSteering
<1>7. CASE PersistResult(t)
  BY <1>7 DEF PersistResult, Ends, Throw, BeginFinish, ClearSteering
<1>8. CASE EndWait(t)
  BY <1>8 DEF EndWait
<1> QED
  BY <1>1, <1>2, <1>3, <1>4, <1>5, <1>6, <1>7, <1>8 DEF ToolStep

\* Any step of a run before finishTurn.
Works(t) == ModelStep(t) \/ ToolStep(t) \/ EndWait(t)

LEMMA WorksKind ==
  ASSUME TypeOK, NEW t \in Turns, Works(t) PROVE Alters(t) /\ (Goes(t) \/ Finishes(t))
  BY ModelStepKind, ToolStepKind DEF Works

\* What a run of the loop works with, and the rest.
LoopTyped ==
  /\ loop \in [Turns -> LoopStates] /\ outcome \in [Turns -> {"none"} \union Terminal]
  /\ caught \in [Turns -> BOOLEAN]
  /\ steps \in [Turns -> 0..MaxSteps] /\ inflightTurns \subseteq Turns
  /\ queueTurn \in Turns \union {NoTurn} /\ buffer \in Seq(Texts)
RestTyped ==
  /\ open \in [Turns -> SUBSET {"call", "approval"}]
  /\ inflight \subseteq Turns \X {"model", "tool"}
  /\ injected \in [Texts -> Turns \union {NoTurn}]
  /\ approval \in [Turns -> {"none", "pending", "allow", "deny"}]
KeptTyped ==
  UNCHANGED <<statusVars, terminal, aborted, sentTo, late, alone, start, intr>>

LEMMA TypeFinish ==
  ASSUME TypeOK, NEW t \in Turns, Ends(t)
  PROVE  LoopTyped' /\ inflight' \subseteq Turns \X {"model", "tool"}
<1>1. <<>> \in Seq(Texts)
  BY EmptySeq
<1>2. caught' \in [Turns -> BOOLEAN]
  BY DEF TypeOK, Ends, Return, Throw
<1>3. PICK status \in Terminal : BeginFinish(t, status)
  BY DEF Ends, Return, Throw, Terminal
<1> QED
  BY <1>1, <1>2, <1>3 DEF TypeOK, BeginFinish, ClearSteering, LoopTyped, LoopStates

LEMMA TypeAdvance ==
  ASSUME TypeOK, NEW t \in Turns, NEW from, NEW to \in LoopStates, Advance(t, from, to)
  PROVE  LoopTyped'
  BY DEF TypeOK, Advance, LoopTyped, queueVars

LEMMA TypeDrain ==
  ASSUME TypeOK, NEW t \in Turns, Drain(t)
  PROVE  /\ injected' \in [Texts -> Turns \union {NoTurn}] /\ buffer' \in Seq(Texts)
         /\ UNCHANGED <<queueTurn, sentTo, late, alone>>
<1>1. <<>> \in Seq(Texts)
  BY EmptySeq
<1> QED
  BY <1>1 DEF TypeOK, Drain

LEMMA TypeModel ==
  ASSUME TypeOK, NEW t \in Turns, ModelStep(t) PROVE TypeOK'
<1> USE TurnAssumption DEF TypeOK, textVars, statusVars, TurnAssumption
<1>1. CASE RunTurn(t)
  <2>1. LoopTyped'
    BY <1>1, TypeFinish, TypeAdvance DEF RunTurn, LoopStates, ToolStates, Ends, Fail, Terminal
  <2>2. RestTyped' /\ KeptTyped
    BY <1>1, TypeFinish DEF RunTurn, TypeOK, RestTyped, Ends, Fail, Terminal, KeptTyped
  <2> QED
    BY <2>1, <2>2 DEF TypeOK, LoopTyped, RestTyped, KeptTyped
<1>2. CASE FirstDrain(t)
  <2>1. LoopTyped'
    <3>1. CASE Ends(t)
      BY <3>1, TypeFinish
    <3>2. CASE /\ loop' = [loop EXCEPT ![t] = "head"]
               /\ Drain(t) /\ UNCHANGED <<outcome, caught, steps, inflightTurns>>
      BY <3>2, TypeDrain DEF TypeOK, LoopTyped, LoopStates
    <3> QED
      BY <1>2, <3>1, <3>2 DEF FirstDrain, Ends
  <2>2. RestTyped' /\ KeptTyped
    BY <1>2, TypeFinish, TypeDrain DEF FirstDrain, TypeOK, RestTyped, Ends, KeptTyped
  <2> QED
    BY <2>1, <2>2 DEF TypeOK, LoopTyped, RestTyped, KeptTyped
<1>3. CASE NextStep(t)
  <2>1. LoopTyped'
    <3>1. CASE Ends(t)
      BY <3>1, TypeFinish
    <3>2. CASE /\ steps[t] < MaxSteps
               /\ loop' = [loop EXCEPT ![t] = "request"]
               /\ steps' = [steps EXCEPT ![t] = @ + 1]
               /\ Drain(t) /\ UNCHANGED <<outcome, caught, inflightTurns>>
      <4>1. steps[t] + 1 \in 0..MaxSteps
        BY <3>2 DEF TypeOK
      <4> QED
        BY <3>2, <4>1, TypeDrain DEF TypeOK, LoopTyped, LoopStates
    <3> QED
      BY <1>3, <3>1, <3>2 DEF NextStep, Fail, Ends, Terminal
  <2>2. RestTyped' /\ KeptTyped
    BY <1>3, TypeFinish, TypeDrain DEF NextStep, TypeOK, RestTyped, Ends, Fail, Terminal, KeptTyped
  <2> QED
    BY <2>1, <2>2 DEF TypeOK, LoopTyped, RestTyped, KeptTyped
<1>4. CASE PrepareRequest(t)
  <2>1. LoopTyped'
    BY <1>4, TypeFinish, TypeAdvance DEF PrepareRequest, LoopStates, ToolStates, Ends, Fail, Terminal
  <2>2. RestTyped' /\ KeptTyped
    BY <1>4, TypeFinish DEF PrepareRequest, TypeOK, RestTyped, Ends, Fail, Terminal, KeptTyped
  <2> QED
    BY <2>1, <2>2 DEF TypeOK, LoopTyped, RestTyped, KeptTyped
<1>5. CASE ReceiveChunk(t)
  <2>1. LoopTyped'
    BY <1>5, TypeFinish, TypeAdvance DEF ReceiveChunk, LoopStates, ToolStates, Ends, Fail, Terminal
  <2>2. RestTyped' /\ KeptTyped
    BY <1>5, TypeFinish DEF ReceiveChunk, TypeOK, RestTyped, Ends, Fail, Terminal, KeptTyped
  <2> QED
    BY <2>1, <2>2 DEF TypeOK, LoopTyped, RestTyped, KeptTyped
<1>6. CASE AddToolCall(t)
  <2>1. LoopTyped'
    BY <1>6, TypeFinish, TypeAdvance DEF AddToolCall, LoopStates, ToolStates, Ends, Fail, Terminal
  <2>2. RestTyped' /\ KeptTyped
    BY <1>6, TypeFinish DEF AddToolCall, TypeOK, RestTyped, Ends, Fail, Terminal, KeptTyped
  <2> QED
    BY <2>1, <2>2 DEF TypeOK, LoopTyped, RestTyped, KeptTyped
<1>7. CASE EndStream(t)
  <2>1. LoopTyped'
    BY <1>7, TypeFinish, TypeAdvance DEF EndStream, LoopStates, ToolStates, Ends, Fail, Terminal
  <2>2. RestTyped' /\ KeptTyped
    BY <1>7, TypeFinish DEF EndStream, TypeOK, RestTyped, Ends, Fail, Terminal, KeptTyped
  <2> QED
    BY <2>1, <2>2 DEF TypeOK, LoopTyped, RestTyped, KeptTyped
<1> QED
  BY <1>1, <1>2, <1>3, <1>4, <1>5, <1>6, <1>7 DEF ModelStep

LEMMA TypeTool ==
  ASSUME TypeOK, NEW t \in Turns, ToolStep(t) \/ EndWait(t) PROVE TypeOK'
<1> USE TurnAssumption DEF TypeOK, textVars, statusVars, TurnAssumption
<1>1. CASE DispatchTool(t)
  <2>1. LoopTyped'
    BY <1>1, TypeFinish, TypeAdvance DEF DispatchTool, LoopStates, ToolStates, Ends, Fail, Terminal
  <2>2. RestTyped' /\ KeptTyped
    BY <1>1, TypeFinish DEF DispatchTool, TypeOK, RestTyped, Ends, Fail, Terminal, KeptTyped
  <2> QED
    BY <2>1, <2>2 DEF TypeOK, LoopTyped, RestTyped, KeptTyped
<1>2. CASE EnterHost(t)
  <2>1. LoopTyped'
    BY <1>2, TypeFinish, TypeAdvance DEF EnterHost, LoopStates, ToolStates, Ends, Fail, Terminal
  <2>2. RestTyped' /\ KeptTyped
    BY <1>2, TypeFinish DEF EnterHost, TypeOK, RestTyped, Ends, Fail, Terminal, KeptTyped
  <2> QED
    BY <2>1, <2>2 DEF TypeOK, LoopTyped, RestTyped, KeptTyped
<1>3. CASE CheckTool(t)
  <2>1. LoopTyped'
    BY <1>3, TypeFinish, TypeAdvance DEF CheckTool, LoopStates, ToolStates, Ends, Fail, Terminal
  <2>2. RestTyped' /\ KeptTyped
    <3>1. approval' \in [Turns -> {"none", "pending", "allow", "deny"}]
      BY <1>3 DEF CheckTool, TypeOK
    <3>2. inflight' \subseteq inflight
      BY <1>3 DEF CheckTool
    <3> QED
      BY <1>3, <3>1, <3>2 DEF CheckTool, TypeOK, RestTyped, KeptTyped
  <2> QED
    BY <2>1, <2>2 DEF TypeOK, LoopTyped, RestTyped, KeptTyped
<1>4. CASE ResumeTool(t)
  <2>1. LoopTyped'
    BY <1>4, TypeFinish, TypeAdvance DEF ResumeTool, LoopStates, ToolStates, Ends, Fail, Terminal
  <2>2. RestTyped' /\ KeptTyped
    BY <1>4, TypeFinish DEF ResumeTool, TypeOK, RestTyped, Ends, Fail, Terminal, KeptTyped
  <2> QED
    BY <2>1, <2>2 DEF TypeOK, LoopTyped, RestTyped, KeptTyped
<1>5. CASE RunTool(t)
  <2>1. LoopTyped'
    BY <1>5, TypeFinish, TypeAdvance DEF RunTool, LoopStates, ToolStates, Ends, Fail, Terminal
  <2>2. RestTyped' /\ KeptTyped
    BY <1>5, TypeFinish DEF RunTool, TypeOK, RestTyped, Ends, Fail, Terminal, KeptTyped
  <2> QED
    BY <2>1, <2>2 DEF TypeOK, LoopTyped, RestTyped, KeptTyped
<1>6. CASE EndTool(t)
  <2>1. LoopTyped'
    BY <1>6, TypeFinish, TypeAdvance DEF EndTool, LoopStates, ToolStates, Ends, Fail, Terminal
  <2>2. RestTyped' /\ KeptTyped
    BY <1>6, TypeFinish DEF EndTool, TypeOK, RestTyped, Ends, Fail, Terminal, KeptTyped
  <2> QED
    BY <2>1, <2>2 DEF TypeOK, LoopTyped, RestTyped, KeptTyped
<1>7. CASE PersistResult(t)
  <2>1. LoopTyped'
    BY <1>7, TypeFinish, TypeAdvance DEF PersistResult, LoopStates, ToolStates, Ends, Fail, Terminal
  <2>2. RestTyped' /\ KeptTyped
    <3>1. open' \in [Turns -> SUBSET {"call", "approval"}]
      <4>1. CASE open' = [open EXCEPT ![t] = (open[t] \ {"call"}) \union
                            (IF loop[t] = "denied" THEN {"approval"} ELSE {})]
        BY <4>1 DEF TypeOK
      <4> QED
        BY <1>7, <4>1 DEF PersistResult, TypeOK
    <3>2. inflight' \subseteq Turns \X {"model", "tool"}
      BY <1>7, TypeFinish DEF PersistResult, Ends, TypeOK
    <3> QED
      BY <1>7, <3>1, <3>2 DEF PersistResult, TypeOK, RestTyped, KeptTyped
  <2> QED
    BY <2>1, <2>2 DEF TypeOK, LoopTyped, RestTyped, KeptTyped
<1>8. CASE EndWait(t)
  <2>1. LoopTyped'
    BY <1>8, TypeAdvance DEF EndWait, LoopStates
  <2> QED
    BY <1>8, <2>1 DEF EndWait, TypeOK, LoopTyped
<1> QED
  BY <1>1, <1>2, <1>3, <1>4, <1>5, <1>6, <1>7, <1>8 DEF ToolStep

-----------------------------------------------------------------------------
(* What is so of each turn by itself *)

\* A turn runs after it was registered and is interrupted after it was announced.
Begun(t) ==
  /\ loop[t] # "off" => start[t] = "started"
  /\ intr[t] # "off" => Known(t)

\* finishTurn has a status to write, failed from the catch, closes the items before
\* it writes it, and writes it before it is told. Only the catch tells a second time.
Decided(t) == /\ Finished(t) => outcome[t] \in Terminal
              /\ caught[t] => Finished(t) /\ outcome[t] = "failed"
Closed(t)  == loop[t] \in {"closing", "announcing", "over"} => open[t] = {}
Written(t) ==
  loop[t] \in {"announcing", "over"} =>
    record[t] \in Terminal /\ (intr[t] = "off" => record[t] = outcome[t])
ToldBefore(t) == caught[t] /\ \E status \in Terminal : terminal[t] = <<status>>
ToldTwice(t) == /\ caught[t] /\ outcome[t] = "failed"
                /\ \E status \in Terminal : terminal[t] = <<status, "failed">>
Told(t) ==
  intr[t] = "off" =>
    /\ ~Returned(t) => terminal[t] = <<>> \/ ToldBefore(t)
    /\ loop[t] = "over" => terminal[t] = <<outcome[t]>> \/ ToldTwice(t)

\* From its first step on nothing of the turn is in flight.
Released(t) ==
  Finished(t) => t \notin inflightTurns /\ {<<t, "model">>, <<t, "tool">>} \intersect inflight = {}

TurnInv(t) == Begun(t) /\ Decided(t) /\ Closed(t) /\ Written(t) /\ Told(t) /\ Released(t)
TurnsInv == TypeOK /\ \A t \in Turns : TurnInv(t)

LEMMA TurnsInit == Init => TurnsInv
  BY TypeInit DEF Init, TurnsInv, TurnInv, Begun, Decided, Closed, Written, Told, ToldBefore, ToldTwice, Released, Finished, Returned

\* A step of finishTurn that throws does a part of its work, and has the turn
\* finished once more or given up.
Fails(t) ==
  /\ UNCHANGED <<start, intr, aborted, sentTo, late, injected, alone, approval>>
  /\ loop[t] \in {"finishing", "closing", "announcing"}
  /\ loop' = [loop EXCEPT ![t] = loop'[t]] /\ outcome' = [outcome EXCEPT ![t] = outcome'[t]]
  /\ caught' = [caught EXCEPT ![t] = TRUE]
  /\ inflightTurns' \subseteq inflightTurns /\ inflight' \subseteq inflight
  /\ open' = [open EXCEPT ![t] = open'[t]] /\ open'[t] \subseteq open[t]
  /\ record' \in {record, [record EXCEPT ![t] = outcome[t]]}
  /\ threadStatus' \in {threadStatus, [threadStatus EXCEPT ![ThreadOf[t]] = "idle"]}
  /\ terminal' \in {terminal, [terminal EXCEPT ![t] = Append(terminal[t], outcome[t])]}
  /\ \/ ~caught[t] /\ loop'[t] = "finishing" /\ outcome'[t] = "failed" /\ ClearSteering
     \/ caught[t] /\ loop'[t] = "rejected" /\ UNCHANGED <<outcome, queueVars>>

LEMMA FailKind ==
  ASSUME TypeOK, NEW t \in Turns, FailFinish(t) PROVE Fails(t)
<1> USE DEF TypeOK
<1>1. /\ UNCHANGED <<start, intr, aborted, sentTo, late, injected, alone, approval>>
      /\ loop[t] \in {"finishing", "closing", "announcing"}
  BY DEF FailFinish, textVars
<1>2. /\ open' = [open EXCEPT ![t] = open'[t]] /\ open'[t] \subseteq open[t]
      /\ record' \in {record, [record EXCEPT ![t] = outcome[t]]}
      /\ threadStatus' \in {threadStatus, [threadStatus EXCEPT ![ThreadOf[t]] = "idle"]}
      /\ terminal' \in {terminal, [terminal EXCEPT ![t] = Append(terminal[t], outcome[t])]}
  BY DEF FailFinish, SetStatus, Tell, statusVars
<1>3. CASE ~caught[t] /\ Throw(t)
  BY <1>1, <1>2, <1>3 DEF Throw, BeginFinish, Fails
<1>4. CASE caught[t] /\ Advance(t, loop[t], "rejected") /\ UNCHANGED inflight
  BY <1>1, <1>2, <1>4 DEF Advance, Fails
<1> QED
  BY <1>3, <1>4 DEF FailFinish

LEMMA TypeNext ==
  ASSUME TurnsInv, [Next]_vars PROVE TypeOK'
<1> USE DEF TurnsInv
<1>1. ASSUME NEW t \in Turns, FinishStep(t) PROVE TypeOK'
  <2>1. CASE CloseItems(t)
    <3>1. LoopTyped'
      BY <2>1, TypeAdvance DEF CloseItems, LoopStates
    <3> QED
      BY <2>1, <3>1 DEF CloseItems, TypeOK, LoopTyped, statusVars, textVars
  <2>2. CASE WriteOutcome(t)
    <3>1. LoopTyped'
      BY <2>2, TypeAdvance DEF WriteOutcome, LoopStates
    <3> QED
      BY <2>2, <3>1, TurnAssumption
         DEF WriteOutcome, SetStatus, TypeOK, LoopTyped, textVars, TurnAssumption
  <2>3. CASE AnnounceOutcome(t)
    <3>1. LoopTyped'
      BY <2>3, TypeAdvance DEF AnnounceOutcome, LoopStates
    <3>2. outcome[t] \in Terminal
        BY <2>3 DEF AnnounceOutcome, Advance, TurnInv, Decided, Finished, Returned
    <3>3. Append(terminal[t], outcome[t]) \in Seq(Terminal)
      BY <3>2, AppendProperties DEF TypeOK
    <3> QED
      BY <2>3, <3>1, <3>3
         DEF AnnounceOutcome, Tell, TypeOK, LoopTyped, statusVars, textVars
  <2>4. CASE FailFinish(t)
    <3>1. Fails(t)
      BY <2>4, FailKind
    <3>2. LoopTyped' /\ inflight' \subseteq Turns \X {"model", "tool"}
      BY <2>4, TypeFinish, TypeAdvance DEF FailFinish, Ends, LoopStates, TypeOK
    <3>3. outcome[t] \in Terminal
      BY <3>1 DEF Fails, TurnInv, Decided, Finished
    <3>4. Append(terminal[t], outcome[t]) \in Seq(Terminal)
      BY <3>3, AppendProperties DEF TypeOK
    <3>5. terminal' \in [Turns -> Seq(Terminal)]
      <4>1. CASE terminal' = terminal
        BY <4>1 DEF TypeOK
      <4>2. CASE terminal' = [terminal EXCEPT ![t] = Append(terminal[t], outcome[t])]
        BY <3>4, <4>2 DEF TypeOK
      <4> QED
        BY <3>1, <4>1, <4>2 DEF Fails
    <3>6. record' \in [Turns -> {"none", "running"} \union Terminal]
      BY <3>1, <3>3 DEF Fails, TypeOK
    <3>7. threadStatus' \in [Threads -> {"idle", "running"}]
      BY <3>1 DEF Fails, TypeOK
    <3>8. open' \in [Turns -> SUBSET {"call", "approval"}]
      BY <3>1 DEF Fails, TypeOK
    <3> QED
      BY <3>1, <3>2, <3>5, <3>6, <3>7, <3>8 DEF Fails, TypeOK, LoopTyped
  <2> QED
    BY <1>1, <2>1, <2>2, <2>3, <2>4 DEF FinishStep
<1>2. CASE UNCHANGED vars
  BY <1>2 DEF vars, TypeOK, statusVars, trackVars, queueVars, textVars, loopVars
<1> QED
  BY <1>1, <1>2, TypeStart, TypeClient, TypeModel, TypeTool DEF Next, LoopStep, Works

\* A step of one turn's loop before finishTurn.
LEMMA TurnsLoop ==
  ASSUME TurnsInv, TypeOK', NEW t \in Turns, Works(t)
  PROVE  TurnsInv'
<1>1. Alters(t) /\ (Goes(t) \/ Finishes(t))
  BY WorksKind DEF TurnsInv
<1>2. ASSUME NEW u \in Turns, u # t PROVE TurnInv(u)'
  <2>1. /\ loop'[u] = loop[u] /\ outcome'[u] = outcome[u] /\ caught'[u] = caught[u]
        /\ open'[u] = open[u] /\ start' = start /\ intr' = intr /\ record' = record /\ terminal' = terminal
    BY <1>1, <1>2 DEF Alters, TurnsInv, TypeOK
  <2>2. inflightTurns' \subseteq inflightTurns
    BY <1>1 DEF Goes, Finishes, Ends, Return, Throw, BeginFinish
  <2>3. \A i \in inflight' : i \in inflight \/ i = <<t, "tool">>
    BY <1>1 DEF Alters
  <2>4. Released(u)'
    BY <2>1, <2>2, <2>3, <1>2 DEF TurnsInv, TurnInv, Released, Finished, Returned
  <2> QED
    BY <2>1, <2>4 DEF TurnsInv, TurnInv, Begun, Known, Decided, Closed, Written, Told, ToldBefore, ToldTwice, Finished, Returned
<1>3. TurnInv(t)'
  <2> USE DEF TurnsInv, TurnInv, Alters, Working, LoopStates, Finished, Returned
  <2>1. CASE Goes(t)
    BY <1>1, <2>1 DEF Goes, TypeOK, Begun, Known, Decided, Closed, Written, Told, ToldBefore, ToldTwice, Released
  <2>2. CASE Finishes(t)
    <3>1. /\ loop'[t] = "finishing" /\ outcome'[t] \in Terminal
          /\ caught'[t] => caught[t] \/ outcome'[t] = "failed"
      BY <2>2 DEF Finishes, Ends, Return, Throw, BeginFinish, TypeOK, Terminal
    <3>2. ~caught[t]
      BY <2>2 DEF Finishes, Decided
    <3>3. Released(t)'
      BY <2>2 DEF Finishes, Ends, Return, Throw, BeginFinish, Released
    <3>4. Begun(t)'
      BY <1>1, <2>2 DEF Finishes, Begun, Known
    <3>5. Told(t)'
      BY <1>1, <2>2, <3>1, <3>2 DEF Finishes, Told, ToldBefore
    <3> QED
      BY <3>1, <3>2, <3>3, <3>4, <3>5 DEF Decided, Closed, Written
  <2> QED
    BY <1>1, <2>1, <2>2
<1> QED
  BY <1>2, <1>3 DEF TurnsInv

\* startTurn, a client, an approval and the end of an interrupt.
LEMMA TurnsAround ==
  ASSUME TurnsInv, TypeOK', NEW t \in Turns,
         \/ StartStep(t)
         \/ InterruptStep(t)
         \/ \E x \in Texts : Steer(x, t)
         \/ Interrupt(t)
         \/ \E decision \in {"allow", "deny"} : Decide(t, decision)
  PROVE  TurnsInv'
<1> SUFFICES ASSUME NEW u \in Turns PROVE TurnInv(u)'
  BY DEF TurnsInv
<1>i. TypeOK /\ Begun(u) /\ Decided(u) /\ Closed(u) /\ Written(u) /\ Told(u) /\ Released(u)
  BY DEF TurnsInv, TurnInv
<1>b. Begun(t)
  BY DEF TurnsInv, TurnInv
<1> USE DEF TypeOK, TurnInv, Begun, Known, Decided, Closed, Written, Told, ToldBefore, ToldTwice, Released, Finished, Returned
<1>1. CASE AddTurn(t)
  BY <1>i, <1>b, <1>1 DEF AddTurn, trackVars, loopVars
<1>2. CASE AnnounceTurn(t)
  BY <1>i, <1>b, <1>2 DEF AnnounceTurn, statusVars, trackVars, loopVars
<1>3. CASE RegisterTurn(t)
  BY <1>i, <1>b, <1>3 DEF RegisterTurn, statusVars, loopVars
<1>4. CASE AnnounceInterrupt(t)
  BY <1>i, <1>b, <1>4 DEF AnnounceInterrupt, statusVars, trackVars, loopVars
<1>5. CASE FinishInterrupt(t)
  BY <1>i, <1>b, <1>5 DEF FinishInterrupt, Terminal, trackVars, loopVars
<1>6. ASSUME NEW x \in Texts, Steer(x, t) PROVE TurnInv(u)'
  BY <1>i, <1>6 DEF Steer, statusVars, trackVars, loopVars
<1>7. ASSUME Interrupt(t) PROVE TurnInv(u)'
  BY <1>i, <1>7 DEF Interrupt, statusVars, loopVars
<1>8. ASSUME NEW decision \in {"allow", "deny"}, Decide(t, decision) PROVE TurnInv(u)'
  BY <1>i, <1>8 DEF Decide, statusVars, trackVars, loopVars
<1> QED
  BY <1>1, <1>2, <1>3, <1>4, <1>5, <1>6, <1>7, <1>8 DEF StartStep, InterruptStep

LEMMA AppendOne == ASSUME NEW S, NEW a \in S, NEW b \in S PROVE Append(<<a>>, b) = <<a, b>>
<1>1. <<a>> \in Seq(S) /\ Len(<<a>>) = 1 /\ <<a>>[1] = a
  OBVIOUS
<1>2. /\ Append(<<a>>, b) \in Seq(S) /\ Len(Append(<<a>>, b)) = 2
      /\ Append(<<a>>, b)[2] = b /\ Append(<<a>>, b)[1] = a
  BY <1>1, AppendProperties
<1>3. <<a, b>> \in Seq(S) /\ Len(<<a, b>>) = 2 /\ <<a, b>>[1] = a /\ <<a, b>>[2] = b
  OBVIOUS
<1>4. \A i \in 1..2 : Append(<<a>>, b)[i] = <<a, b>>[i]
  BY <1>2, <1>3
<1> QED
  BY <1>2, <1>3, <1>4, SeqEqual

\* finishTurn.
LEMMA TurnsFinish ==
  ASSUME TurnsInv, TypeOK', NEW t \in Turns, FinishStep(t)
  PROVE  TurnsInv'
<1> SUFFICES ASSUME NEW u \in Turns PROVE TurnInv(u)'
  BY DEF TurnsInv
<1>i. TypeOK /\ Begun(u) /\ Decided(u) /\ Closed(u) /\ Written(u) /\ Told(u) /\ Released(u)
  BY DEF TurnsInv, TurnInv
<1> USE DEF TypeOK, TurnInv, Begun, Known, Decided, Closed, Written, Told, ToldBefore, ToldTwice, Released, Finished, Returned, Advance
<1>1. CASE CloseItems(t)
  BY <1>i, <1>1 DEF CloseItems, statusVars
<1>2. CASE WriteOutcome(t)
  BY <1>i, <1>2 DEF WriteOutcome, SetStatus
<1>3. CASE AnnounceOutcome(t)
  <2>1. /\ loop[t] = "announcing" /\ loop' = [loop EXCEPT ![t] = "over"]
        /\ terminal' = [terminal EXCEPT ![t] = Append(terminal[t], outcome[t])]
        /\ UNCHANGED <<start, intr, outcome, caught, open, record, inflightTurns, inflight>>
    BY <1>3 DEF AnnounceOutcome, Tell, statusVars
  <2>2. Told(u)'
    <3>1. CASE u # t
      BY <1>i, <2>1, <3>1
    <3>2. CASE u = t /\ intr[t] = "off"
      <4>1. terminal[t] = <<>> \/ ToldBefore(t)
        BY <1>i, <2>1, <3>2
      <4>2. terminal'[t] = Append(terminal[t], outcome[t]) /\ Returned(t)' /\ outcome'[t] = outcome[t]
        BY <2>1
      <4>3. CASE terminal[t] = <<>>
        <5>1. Append(<<>>, outcome[t]) = <<outcome[t]>>
          OBVIOUS
        <5> QED
          BY <3>2, <4>2, <4>3, <5>1
      <4>4. CASE ToldBefore(t)
        <5>1. PICK status \in Terminal : terminal[t] = <<status>>
          BY <4>4
        <5>2. caught'[t] /\ outcome[t] = "failed"
          BY <1>i, <2>1, <3>2, <4>4
        <5>3. Append(<<status>>, "failed") = <<status, "failed">>
          <6>1. status \in Terminal /\ "failed" \in Terminal
            BY <5>1 DEF Terminal
          <6> HIDE DEF Terminal
          <6> QED
            BY <6>1, AppendOne
        <5>4. terminal'[t] = <<status, "failed">>
          BY <4>2, <5>1, <5>2, <5>3
        <5>5. ToldTwice(t)'
          BY <4>2, <5>1, <5>2, <5>4
        <5> QED
          BY <3>2, <4>2, <5>5
      <4> QED
        BY <4>1, <4>3, <4>4
    <3> QED
      BY <2>1, <3>1, <3>2
  <2>3. Begun(u)' /\ Decided(u)' /\ Closed(u)' /\ Written(u)' /\ Released(u)'
    BY <1>i, <2>1
  <2> QED
    BY <2>2, <2>3
<1>4. CASE FailFinish(t)
  <2>1. Fails(t)
    BY <1>i, <1>4, FailKind
  <2>2. CASE u # t
    <3>1. /\ loop'[u] = loop[u] /\ outcome'[u] = outcome[u] /\ caught'[u] = caught[u]
          /\ open'[u] = open[u] /\ record'[u] = record[u] /\ terminal'[u] = terminal[u]
          /\ start' = start /\ intr' = intr
          /\ inflightTurns' \subseteq inflightTurns /\ inflight' \subseteq inflight
      BY <1>i, <2>1, <2>2 DEF Fails
    <3> QED
      BY <1>i, <3>1
  <2>3. CASE u = t
    <3>1. /\ start' = start /\ intr' = intr /\ Finished(t) /\ ~Returned(t) /\ caught'[t]
          /\ loop'[t] \in {"finishing", "rejected"} /\ outcome'[t] = "failed"
          /\ inflightTurns' \subseteq inflightTurns /\ inflight' \subseteq inflight
      BY <1>i, <2>1, <2>3 DEF Fails
    <3>2. Begun(t)' /\ Decided(t)' /\ Closed(t)' /\ Written(t)' /\ Released(t)'
      BY <1>i, <2>3, <3>1 DEF Terminal
    <3>3. Told(t)'
      <4>1. CASE caught[t]
        BY <2>1, <4>1 DEF Fails
      <4>2. CASE terminal'[t] = terminal[t]
        BY <1>i, <2>3, <3>1, <4>2
      <4>3. CASE ~caught[t] /\ intr[t] = "off" /\ terminal'[t] = Append(terminal[t], outcome[t])
        <5>1. terminal[t] = <<>> /\ outcome[t] \in Terminal
          BY <1>i, <2>3, <3>1, <4>3
        <5>2. Append(<<>>, outcome[t]) = <<outcome[t]>>
          OBVIOUS
        <5>3. ToldBefore(t)'
          BY <3>1, <4>3, <5>1, <5>2
        <5> QED
          BY <2>1, <4>3, <5>3 DEF Fails
      <4>4. terminal'[t] \in {terminal[t], Append(terminal[t], outcome[t])}
        BY <2>1 DEF Fails
      <4> QED
        BY <3>1, <4>1, <4>2, <4>3, <4>4
    <3> QED
      BY <2>3, <3>2, <3>3
  <2> QED
    BY <2>2, <2>3
<1> QED
  BY <1>1, <1>2, <1>3, <1>4 DEF FinishStep

LEMMA TurnsNext == TurnsInv /\ [Next]_vars => TurnsInv'
<1> SUFFICES ASSUME TurnsInv, [Next]_vars PROVE TurnsInv'
  OBVIOUS
<1>1. TypeOK'
  BY TypeNext
<1>2. CASE UNCHANGED vars
  BY <1>1, <1>2 DEF vars, TurnsInv, TurnInv, Begun, Known, Decided, Closed, Written, Told, ToldBefore, ToldTwice, Released,
                    Finished, Returned, statusVars, trackVars, loopVars
<1> QED
  BY <1>1, <1>2, TurnsLoop, TurnsAround, TurnsFinish DEF Next, LoopStep, Works

LEMMA TurnsAlways == Spec => []TurnsInv
  BY TurnsInit, TurnsNext, PTL DEF Spec

\* Every variable stays in the range the code gives it.
THEOREM TypeCorrect == Spec => []TypeOK
<1>1. TurnsInv => TypeOK
  BY DEF TurnsInv
<1> QED
  BY <1>1, TurnsAlways, PTL

\* The loop never leaks ids, and what it leaves has a terminal status and no open
\* item, whatever was interrupted, thrown, denied or started beside it.
THEOREM Settled == Spec => []SettledWhenOver
<1>1. TurnsInv => SettledWhenOver
  BY DEF TurnsInv, TurnInv, Released, Closed, Written, SettledWhenOver
<1> QED
  BY <1>1, TurnsAlways, PTL

\* A turn nobody interrupted has one outcome in its record, its events and its run.
THEOREM Outcome == Spec => []OneOutcome
<1>1. TurnsInv => OneOutcome
  BY DEF TurnsInv, TurnInv, Written, Told, ToldTwice, OneOutcome
<1> QED
  BY <1>1, TurnsAlways, PTL

-----------------------------------------------------------------------------
(* The thread's status and one turn at a time *)

\* Any step about turn t that changes more than its approval.
ActsOn(t) ==
  \/ LoopStep(t)
  \/ StartStep(t)
  \/ EndWait(t)
  \/ InterruptStep(t)
  \/ \E x \in Texts : Steer(x, t)
  \/ Interrupt(t)
Decides(t) == \E decision \in {"allow", "deny"} : Decide(t, decision)

LEMMA NextActs ==
  ASSUME [Next]_vars
  PROVE  UNCHANGED vars \/ \E t \in Turns : ActsOn(t) \/ Decides(t)
  BY DEF Next, ActsOn, Decides

\* What an approval's decision and a stuttering step leave alone.
Watched ==
  <<statusVars, queueVars, textVars, start, loop, intr, aborted>>

LEMMA NothingWatched ==
  ASSUME UNCHANGED vars \/ \E t \in Turns : Decides(t) PROVE UNCHANGED Watched
  BY DEF Decides, Decide, vars, Watched, statusVars, queueVars, textVars, trackVars, loopVars

\* A running thread has a turn whose outcome is not written.
RunningHas ==
  \A h \in Threads : threadStatus[h] = "running" =>
    \E t \in Turns : ThreadOf[t] = h /\ start[t] # "off" /\ loop[t] \notin {"announcing", "over"}

\* The clients dealt with one turn at a time: the others are quiet.
AloneMeans == alone => \A t, u \in Turns : t # u => Quiet(t) \/ Quiet(u)

\* Then the thread of the turn under way is running.
RunningWhile ==
  \A t \in Turns : alone /\ start[t] # "off" /\ ~Ended(t) => threadStatus[ThreadOf[t]] = "running"

ThreadsInv == TurnsInv /\ RunningHas /\ AloneMeans /\ RunningWhile

LEMMA OnlyItsTurn ==
  ASSUME TurnsInv, NEW t \in Turns, ActsOn(t), NEW u \in Turns, u # t
  PROVE  /\ loop'[u] = loop[u] /\ start'[u] = start[u] /\ intr'[u] = intr[u]
         /\ Quiet(u)' = Quiet(u) /\ Ended(u)' = Ended(u) /\ Known(u)' = Known(u)
<1>1. loop'[u] = loop[u] /\ start'[u] = start[u] /\ intr'[u] = intr[u]
  <2> USE DEF TurnsInv, TypeOK, loopVars
  <2>1. CASE Works(t)
    BY <2>1, WorksKind DEF Alters
  <2>2. CASE FinishStep(t)
    BY <2>2, FailKind DEF FinishStep, CloseItems, WriteOutcome, AnnounceOutcome, Advance, Fails
  <2>3. CASE StartStep(t)
    BY <2>3 DEF StartStep, AddTurn, AnnounceTurn, RegisterTurn
  <2>4. CASE InterruptStep(t)
    BY <2>4 DEF InterruptStep, AnnounceInterrupt, FinishInterrupt
  <2>5. ASSUME NEW x \in Texts, Steer(x, t) PROVE <1>1!:
    BY <2>5 DEF Steer
  <2>6. ASSUME Interrupt(t) PROVE <1>1!:
    BY <2>6 DEF Interrupt
  <2> QED
    BY <2>1, <2>2, <2>3, <2>4, <2>5, <2>6 DEF ActsOn, LoopStep, Works
<1> QED
  BY <1>1 DEF Quiet, Ended, Finished, Returned, Known

\* While the clients deal with one turn at a time, what acts is the only turn
\* that is not quiet.
LEMMA OthersQuiet ==
  ASSUME TurnsInv, AloneMeans, NEW t \in Turns, ActsOn(t), alone'
  PROVE  alone /\ \A u \in Turns \ {t} : Quiet(u)
<1> USE DEF TurnsInv
<1>1. Begun(t)
  BY DEF TurnInv
<1>2. alone /\ (~Quiet(t) \/ \A u \in Turns \ {t} : Quiet(u))
  <2>1. CASE Works(t)
    BY <2>1, <1>1, WorksKind
       DEF Alters, Goes, Finishes, Quiet, Returned, Begun, Working, LoopStates
  <2>2. CASE FinishStep(t)
    BY <2>2, <1>1, FailKind
       DEF FinishStep, CloseItems, WriteOutcome, AnnounceOutcome, Advance, Fails, Quiet, Returned, Begun,
           textVars
  <2>3. CASE StartStep(t)
    BY <2>3, <1>1
       DEF StartStep, AddTurn, AnnounceTurn, RegisterTurn, KeepAlone, Quiet, Returned, Begun, textVars
  <2>4. CASE InterruptStep(t)
    BY <2>4, <1>1 DEF InterruptStep, AnnounceInterrupt, FinishInterrupt, Quiet, Begun, Known, textVars
  <2>5. ASSUME NEW x \in Texts, Steer(x, t) PROVE <1>2!:
    BY <2>5 DEF Steer, KeepAlone
  <2>6. ASSUME Interrupt(t) PROVE <1>2!:
    BY <2>6 DEF Interrupt, KeepAlone
  <2> QED
    BY <2>1, <2>2, <2>3, <2>4, <2>5, <2>6 DEF ActsOn, LoopStep, Works
<1> QED
  BY <1>2 DEF AloneMeans

LEMMA ThreadsInit == Init => ThreadsInv
  BY TurnsInit, TurnAssumption
     DEF Init, ThreadsInv, RunningHas, AloneMeans, RunningWhile, Quiet, TurnAssumption

LEMMA ThreadsNext == ThreadsInv /\ [Next]_vars => ThreadsInv'
<1> SUFFICES ASSUME ThreadsInv, [Next]_vars PROVE ThreadsInv'
  OBVIOUS
<1> USE DEF ThreadsInv
<1>1. TurnsInv'
  BY TurnsNext
<1>2. CASE UNCHANGED Watched
  BY <1>1, <1>2 DEF Watched, statusVars, textVars, RunningHas, AloneMeans, RunningWhile, Quiet,
                    Ended, Finished, Returned
<1>3. ASSUME NEW t \in Turns, ActsOn(t) PROVE ThreadsInv'
  <2>1. AloneMeans'
    <3>1. ASSUME alone', NEW u \in Turns \ {t} PROVE Quiet(u)'
      BY <1>3, <3>1, OthersQuiet, OnlyItsTurn
    <3> QED
      BY <3>1 DEF AloneMeans
  <2>2. RunningHas' /\ (alone' /\ start'[t] # "off" /\ ~Ended(t)' => threadStatus'[ThreadOf[t]] = "running")
    <3> USE TurnAssumption DEF TurnsInv, TypeOK, TurnAssumption
    <3>1. CASE Works(t)
      <4>1. Alters(t) /\ loop'[t] \notin {"announcing", "over"}
        BY <3>1, WorksKind, EndsFirst DEF Goes, Finishes, Working
      <4>2. ~Finished(t)
        BY <3>1, WorksKind DEF Goes, Finishes, Finished, Returned, Working
      <4>3. ASSUME NEW h \in Threads, threadStatus'[h] = "running"
            PROVE  \E u \in Turns : ThreadOf[u] = h /\ start'[u] # "off"
                                     /\ loop'[u] \notin {"announcing", "over"}
        <5>1. PICK u \in Turns :
                ThreadOf[u] = h /\ start[u] # "off" /\ loop[u] \notin {"announcing", "over"}
          BY <4>1, <4>3 DEF Alters, RunningHas
        <5>2. start'[u] # "off" /\ loop'[u] \notin {"announcing", "over"}
          BY <4>1, <5>1, <1>3, OnlyItsTurn DEF Alters
        <5> QED
          BY <5>1, <5>2
      <4>4. alone = alone' /\ start' = start /\ intr' = intr /\ threadStatus' = threadStatus
        BY <4>1 DEF Alters
      <4> QED
        BY <4>2, <4>3, <4>4 DEF RunningHas, RunningWhile, Ended
    <3>2. CASE FinishStep(t)
      <4>1. start' = start /\ Finished(t)'
        BY <3>2, FailKind
           DEF FinishStep, CloseItems, WriteOutcome, AnnounceOutcome, Advance, Fails, Finished, Returned
      <4>2. ASSUME CloseItems(t) PROVE RunningHas'
        BY <4>2 DEF CloseItems, Advance, statusVars, RunningHas
      <4>3. ASSUME WriteOutcome(t) PROVE RunningHas'
        BY <4>3 DEF WriteOutcome, SetStatus, Advance, RunningHas
      <4>4. ASSUME AnnounceOutcome(t) PROVE RunningHas'
        BY <4>4 DEF AnnounceOutcome, Advance, statusVars, RunningHas
      <4>5. ASSUME FailFinish(t) PROVE RunningHas'
        <5>1. Fails(t)
          BY <4>5, FailKind
        <5>2. ASSUME NEW h \in Threads, threadStatus'[h] = "running"
              PROVE  \E u \in Turns : ThreadOf[u] = h /\ start'[u] # "off"
                                       /\ loop'[u] \notin {"announcing", "over"}
          <6>1. threadStatus[h] = "running"
            BY <5>1, <5>2 DEF Fails
          <6>2. PICK u \in Turns :
                  ThreadOf[u] = h /\ start[u] # "off" /\ loop[u] \notin {"announcing", "over"}
            BY <6>1 DEF RunningHas
          <6>3. start'[u] # "off" /\ loop'[u] \notin {"announcing", "over"}
            BY <5>1, <6>2 DEF Fails
          <6> QED
            BY <6>2, <6>3
        <5> QED
          BY <5>2 DEF RunningHas
      <4>6. RunningHas'
        BY <3>2, <4>2, <4>3, <4>4, <4>5 DEF FinishStep
      <4> QED
        BY <4>1, <4>6 DEF Ended
    <3>3. CASE StartStep(t)
      BY <3>3 DEF StartStep, AddTurn, AnnounceTurn, RegisterTurn, statusVars, loopVars,
                  textVars, RunningHas, RunningWhile, Ended, Finished, Returned, TurnInv, Begun
    <3>4. CASE InterruptStep(t)
      BY <3>4 DEF InterruptStep, AnnounceInterrupt, FinishInterrupt, statusVars, loopVars,
                  RunningHas, Ended
    <3>5. ASSUME NEW x \in Texts, Steer(x, t) PROVE <2>2!:
      BY <3>5 DEF Steer, KeepAlone, statusVars, loopVars, RunningHas, RunningWhile, Ended,
                  Finished, Returned
    <3>6. ASSUME Interrupt(t) PROVE <2>2!:
      BY <3>6 DEF Interrupt, statusVars, loopVars, RunningHas, Ended
    <3> QED
      BY <1>3, <3>1, <3>2, <3>3, <3>4, <3>5, <3>6 DEF ActsOn, LoopStep, Works
  <2>3. RunningWhile'
    <3>1. ASSUME NEW u \in Turns \ {t}, alone', start'[u] # "off" PROVE Ended(u)'
      BY <1>3, <3>1, OthersQuiet, OnlyItsTurn DEF Quiet, Ended, Finished, Returned
    <3> QED
      BY <2>2, <3>1 DEF RunningWhile
  <2> QED
    BY <1>1, <2>1, <2>2, <2>3
<1> QED
  BY <1>2, <1>3, NextActs, NothingWatched

LEMMA ThreadsAlways == Spec => []ThreadsInv
  BY ThreadsInit, ThreadsNext, PTL DEF Spec

\* A thread is idle when its turns have come to an end and, while clients deal with
\* one turn at a time, not before, though any finishTurn or interrupt writes "idle".
THEOREM StatusRight == Spec => []ThreadStatusRight
<1>1. ThreadsInv => ThreadStatusRight
  <2> SUFFICES ASSUME ThreadsInv PROVE ThreadStatusRight
    OBVIOUS
  <2>1. ASSUME NEW h \in Threads,
               \A t \in Turns : ThreadOf[t] = h => Quiet(t) /\ loop[t] # "rejected"
        PROVE  threadStatus[h] = "idle"
    BY <2>1 DEF ThreadsInv, TurnsInv, TypeOK, RunningHas, Quiet, Returned
  <2>2. ASSUME NEW t \in Turns, alone, loop[t] # "off", ~Ended(t)
        PROVE  threadStatus[ThreadOf[t]] = "running"
    BY <2>2 DEF ThreadsInv, TurnsInv, TurnInv, Begun, RunningWhile
  <2> QED
    BY <2>1, <2>2 DEF ThreadStatusRight
<1> QED
  BY <1>1, ThreadsAlways, PTL

-----------------------------------------------------------------------------
(* The signal *)

\* Once the signal of a turn has fired no step starts its tool.
THEOREM SignalHolds == Spec => NoToolAfterSignal
<1>1. TurnsInv /\ [Next]_vars =>
        [\A t \in aborted : loop'[t] \in ToolStates => loop[t] \in ToolStates]_vars
  <2> SUFFICES ASSUME TurnsInv, [Next]_vars, NEW u \in aborted, loop'[u] \in ToolStates
               PROVE  loop[u] \in ToolStates
    OBVIOUS
  <2>0. TypeOK /\ u \in Turns
    BY DEF TurnsInv, TypeOK
  <2>1. CASE UNCHANGED Watched
    BY <2>1 DEF Watched
  <2>2. ASSUME NEW t \in Turns, ActsOn(t), u # t PROVE loop[u] \in ToolStates
    BY <2>0, <2>2, OnlyItsTurn
  <2>3. CASE ActsOn(u)
    <3>1. CASE Works(u)
      BY <2>0, <3>1, WorksKind, EndsFirst DEF Goes, Finishes, ToolStates
    <3>2. CASE FinishStep(u)
      BY <2>0, <3>2, FailKind
         DEF FinishStep, CloseItems, WriteOutcome, AnnounceOutcome, Advance, Fails, TypeOK, ToolStates
    <3>3. CASE ~LoopStep(u) /\ ~EndWait(u)
      BY <2>0, <2>3, <3>3
         DEF ActsOn, StartStep, AddTurn, AnnounceTurn, RegisterTurn, InterruptStep, AnnounceInterrupt,
             FinishInterrupt, Steer, Interrupt, loopVars
    <3> QED
      BY <3>1, <3>2, <3>3 DEF LoopStep, Works
  <2> QED
    BY <2>0, <2>1, <2>2, <2>3, NextActs, NothingWatched
<1> QED
  BY <1>1, TurnsAlways, PTL DEF Spec, NoToolAfterSignal

-----------------------------------------------------------------------------
(* Steering *)

\* The queue holds texts sent to the turn it belongs to.
QueueOwned ==
  \A i \in DOMAIN buffer : buffer[i] \in Texts /\ queueTurn \in Turns /\ sentTo[buffer[i]] = queueTurn

\* They were sent in time or late, and wait.
QueueWaits ==
  \A i \in DOMAIN buffer :
    /\ buffer[i] \in late \/ ~Ended(sentTo[buffer[i]])
    /\ injected[buffer[i]] = NoTurn

\* A text is sent to a turn that was announced, and injected after it was sent.
SentFirst ==
  \A x \in Texts : /\ sentTo[x] # NoTurn => Known(sentTo[x])
                   /\ injected[x] # NoTurn => sentTo[x] # NoTurn

\* One turn at a time: the queue is that turn's, and so is what is injected.
QueueFollows ==
  alone => \A t \in Turns : start[t] = "started" /\ ~Quiet(t) => queueTurn \in {t, NoTurn}
InjectedRight == alone => \A x \in Texts : injected[x] \in {NoTurn, sentTo[x]}

\* A text for the turn that goes on is injected or waits.
NothingDropped ==
  alone => \A x \in Texts : sentTo[x] # NoTurn /\ ~Ended(sentTo[x]) =>
             injected[x] # NoTurn \/ \E i \in DOMAIN buffer : buffer[i] = x

SteeringInv ==
  /\ ThreadsInv
  /\ QueueOwned /\ QueueWaits /\ SentFirst
  /\ QueueFollows /\ InjectedRight /\ NothingDropped

LEMMA SteeringInit == Init => SteeringInv
  BY ThreadsInit
     DEF Init, SteeringInv, QueueOwned, QueueWaits, SentFirst, QueueFollows, InjectedRight,
         NothingDropped, Quiet

\* What a step about t does to the queue: nothing, clear it, drain it, or give it
\* to t with a text or without.
LeavesQueue(t) ==
  /\ UNCHANGED <<queueVars, sentTo, late, injected>>
  /\ Ended(t)' = Ended(t)
  /\ start'[t] = "started" /\ ~Quiet(t)' => start[t] = "started" /\ ~Quiet(t)
ClearsQueue(t) ==
  /\ ClearSteering
  /\ UNCHANGED <<sentTo, late, injected>>
  /\ Ended(t)'
DrainsQueue(t) ==
  /\ Drain(t)
  /\ Ended(t)' = Ended(t)
  /\ start[t] = "started" /\ ~Quiet(t)

LEMMA QueueStep ==
  ASSUME TurnsInv, NEW t \in Turns, ActsOn(t)
  PROVE  /\ Known(t) => Known(t)'
         /\ \/ LeavesQueue(t) \/ ClearsQueue(t) \/ DrainsQueue(t) \/ RegisterTurn(t)
            \/ \E x \in Texts : Steer(x, t)
<1> USE DEF TurnsInv, TypeOK, Known
<1>b. Begun(t)
  BY DEF TurnInv
<1>1. CASE Works(t)
  <2>1. Alters(t)
    BY <1>1, WorksKind
  <2>2. CASE Goes(t)
    <3>1. Ended(t)' = Ended(t)
      BY <2>1, <2>2 DEF Alters, Goes, Ended, Finished, Returned, Working
    <3>2. ~Quiet(t) /\ start[t] = "started"
      BY <1>b, <2>2 DEF Goes, Quiet, Returned, Begun, Working
    <3> QED
      BY <2>1, <2>2, <3>1, <3>2 DEF Alters, Goes, LeavesQueue, DrainsQueue, queueVars
  <2>3. CASE Finishes(t)
    <3>1. Ended(t)'
      BY <2>3 DEF Finishes, Ends, Return, Throw, BeginFinish, Ended, Finished, Returned
    <3> QED
      BY <2>1, <2>3, <3>1 DEF Alters, Finishes, Ends, Return, Throw, BeginFinish, ClearsQueue
  <2> QED
    BY <1>1, <2>2, <2>3, WorksKind
<1>2. CASE FinishStep(t)
  <2>1. CASE ~FailFinish(t)
    <3>1. UNCHANGED <<queueVars, textVars, start, intr>> /\ Finished(t) /\ Finished(t)' /\ ~Returned(t)
      BY <1>2, <2>1
         DEF FinishStep, CloseItems, WriteOutcome, AnnounceOutcome, Advance, Finished, Returned
    <3> QED
      BY <1>b, <3>1 DEF LeavesQueue, Ended, Quiet, Begun, Finished, textVars
  <2>2. CASE FailFinish(t)
    <3>1. Fails(t) /\ Ended(t) /\ Ended(t)' /\ ~Quiet(t) /\ start[t] = "started"
      BY <1>b, <2>2, FailKind DEF Fails, Ended, Finished, Returned, Quiet, Begun
    <3> QED
      BY <3>1 DEF Fails, LeavesQueue, ClearsQueue
  <2> QED
    BY <2>1, <2>2
<1>3. CASE AddTurn(t) \/ AnnounceTurn(t)
  BY <1>3 DEF AddTurn, AnnounceTurn, LeavesQueue, Ended, Finished, Returned, textVars, loopVars
<1>4. CASE RegisterTurn(t)
  BY <1>4 DEF RegisterTurn
<1>5. CASE InterruptStep(t)
  <2>1. /\ UNCHANGED <<queueVars, textVars, start, loop>>
        /\ intr[t] # "off" /\ intr'[t] # "off" /\ intr[t] # "done"
    BY <1>5 DEF InterruptStep, AnnounceInterrupt, FinishInterrupt, loopVars
  <2> QED
    BY <1>b, <2>1 DEF LeavesQueue, Ended, Quiet, Begun, textVars
<1>6. ASSUME NEW x \in Texts, Steer(x, t) PROVE Known(t)'
  BY <1>6 DEF Steer
<1>7. ASSUME Interrupt(t) PROVE Known(t)' /\ ClearsQueue(t)
  BY <1>7 DEF Interrupt, ClearsQueue, Ended
<1> QED
  BY <1>1, <1>2, <1>3, <1>4, <1>5, <1>6, <1>7 DEF ActsOn, LoopStep, Works, StartStep

LEMMA SteeringNext == SteeringInv /\ [Next]_vars => SteeringInv'
<1> SUFFICES ASSUME SteeringInv, [Next]_vars PROVE SteeringInv'
  OBVIOUS
<1> USE DEF SteeringInv
<1>1. ThreadsInv'
  BY ThreadsNext
<1>2. CASE UNCHANGED Watched
  BY <1>1, <1>2 DEF Watched, queueVars, textVars, Quiet, Known, Ended, Finished, Returned, QueueOwned,
                    QueueWaits, SentFirst, QueueFollows, InjectedRight, NothingDropped
<1>3. ASSUME NEW t \in Turns, ActsOn(t) PROVE SteeringInv'
  <2> USE DEF queueVars
  <2>t. /\ buffer \in Seq(Texts) /\ sentTo \in [Texts -> Turns \union {NoTurn}] /\ NoTurn \notin Turns
        /\ injected \in [Texts -> Turns \union {NoTurn}]
        /\ start' \in [Turns -> {"off", "added", "announced", "started"}]
    BY <1>1, TurnAssumption DEF ThreadsInv, TurnsInv, TypeOK, TurnAssumption
  <2>o. \A u \in Turns \ {t} : Ended(u)' = Ended(u) /\ Known(u)' = Known(u) /\ Quiet(u)' = Quiet(u)
    BY <1>3, OnlyItsTurn DEF ThreadsInv
  <2>q. alone' => alone /\ \A u \in Turns \ {t} : Quiet(u)
    BY <1>3, OthersQuiet DEF ThreadsInv
  <2>k. \A u \in Turns : Known(u) => Known(u)'
    BY <1>3, <2>o, QueueStep DEF ThreadsInv
  <2>1. CASE LeavesQueue(t)
    <3>1. UNCHANGED <<queueTurn, buffer, sentTo, late, injected>> /\ \A u \in Turns : Ended(u)' = Ended(u)
      BY <2>1, <2>o DEF LeavesQueue
    <3>2. QueueOwned' /\ QueueWaits'
      BY <2>t, <3>1 DEF QueueOwned, QueueWaits
    <3>3. SentFirst'
      BY <2>t, <2>k, <3>1 DEF SentFirst
    <3>4. QueueFollows'
      BY <2>1, <2>o, <2>q, <3>1 DEF QueueFollows, LeavesQueue, Quiet
    <3>5. InjectedRight' /\ NothingDropped'
      BY <2>t, <2>q, <3>1 DEF InjectedRight, NothingDropped
    <3> QED
      BY <1>1, <3>2, <3>3, <3>4, <3>5
  <2>2. CASE ClearsQueue(t)
    <3>1. queueTurn' = NoTurn /\ buffer' = <<>> /\ UNCHANGED <<sentTo, late, injected>> /\ Ended(t)'
      BY <2>2 DEF ClearsQueue, ClearSteering
    <3>2. QueueOwned' /\ QueueWaits' /\ QueueFollows'
      BY <3>1 DEF QueueOwned, QueueWaits, QueueFollows
    <3>3. SentFirst'
      BY <2>t, <2>k, <3>1 DEF SentFirst
    <3>4. InjectedRight'
      BY <2>q, <3>1 DEF InjectedRight
    <3>5. ASSUME alone', NEW x \in Texts, sentTo'[x] # NoTurn PROVE Ended(sentTo[x])'
      <4>1. sentTo[x] \in Turns /\ Known(sentTo[x])
        BY <2>t, <3>1, <3>5 DEF SentFirst
      <4>2. sentTo[x] # t => Ended(sentTo[x])
        BY <2>q, <3>5, <4>1 DEF Quiet, Known, Ended, Finished, Returned
      <4> QED
        BY <2>o, <3>1, <4>1, <4>2
    <3>6. NothingDropped'
      BY <3>1, <3>5 DEF NothingDropped
    <3> QED
      BY <1>1, <3>2, <3>3, <3>4, <3>6
  <2>3. CASE DrainsQueue(t)
    <3>1. /\ injected' = [x \in Texts |->
                            IF \E i \in DOMAIN buffer : buffer[i] = x THEN t ELSE injected[x]]
          /\ buffer' = <<>> /\ UNCHANGED <<queueTurn, sentTo, late, alone>>
          /\ \A u \in Turns : Ended(u)' = Ended(u)
      BY <2>3, <2>o DEF DrainsQueue, Drain
    <3>2. QueueOwned' /\ QueueWaits'
      BY <3>1 DEF QueueOwned, QueueWaits
    <3>3. SentFirst'
      <4>1. \A x \in Texts : injected'[x] # NoTurn => sentTo[x] # NoTurn
        BY <2>t, <3>1 DEF SentFirst, QueueOwned
      <4> QED
        BY <2>t, <2>k, <3>1, <4>1 DEF SentFirst
    <3>4. QueueFollows'
      <4>1. alone => queueTurn \in {t, NoTurn}
        BY <2>3 DEF DrainsQueue, QueueFollows
      <4> QED
        BY <2>o, <2>q, <3>1, <4>1 DEF QueueFollows
    <3>5. InjectedRight'
      <4>1. ASSUME alone, NEW i \in DOMAIN buffer PROVE sentTo[buffer[i]] = t
        BY <2>3, <2>t, <4>1 DEF DrainsQueue, QueueFollows, QueueOwned
      <4> QED
        BY <3>1, <4>1 DEF InjectedRight
    <3>6. NothingDropped'
      <4>1. \A x \in Texts : (\E i \in DOMAIN buffer : buffer[i] = x) => injected'[x] # NoTurn
        BY <2>t, <3>1
      <4>2. \A x \in Texts : injected[x] # NoTurn => injected'[x] # NoTurn
        BY <2>t, <3>1
      <4> QED
        BY <2>t, <3>1, <4>1, <4>2 DEF NothingDropped
    <3> QED
      BY <1>1, <3>2, <3>3, <3>4, <3>5, <3>6
  <2>4. CASE RegisterTurn(t)
    <3>1. /\ queueTurn' = t /\ buffer' = IF queueTurn = t THEN buffer ELSE <<>>
          /\ UNCHANGED <<sentTo, late, injected, alone>>
          /\ \A u \in Turns : Ended(u)' = Ended(u)
      BY <2>4, <2>o DEF RegisterTurn, SetTurn, textVars, loopVars, Ended, Finished, Returned
    <3>2. QueueOwned' /\ QueueWaits'
      BY <2>t, <3>1 DEF QueueOwned, QueueWaits
    <3>3. SentFirst'
      BY <2>t, <2>k, <3>1 DEF SentFirst
    <3>4. QueueFollows'
      BY <2>o, <2>q, <3>1 DEF QueueFollows
    <3>5. InjectedRight'
      BY <3>1 DEF InjectedRight
    <3>6. ASSUME alone', NEW x \in Texts, sentTo[x] # NoTurn, ~Ended(sentTo[x]) PROVE sentTo[x] = t
      <4>1. sentTo[x] \in Turns /\ Known(sentTo[x])
        BY <2>t, <3>6 DEF SentFirst
      <4> QED
        BY <2>q, <3>6, <4>1 DEF Quiet, Known, Ended, Finished, Returned
    <3>7. NothingDropped'
      BY <2>t, <3>1, <3>6 DEF NothingDropped, QueueOwned
    <3> QED
      BY <1>1, <3>2, <3>3, <3>4, <3>5, <3>7
  <2>5. ASSUME NEW x \in Texts, Steer(x, t) PROVE SteeringInv'
    <3>1. /\ sentTo[x] = NoTurn /\ sentTo' = [sentTo EXCEPT ![x] = t]
          /\ late' = IF Ended(t) THEN late \union {x} ELSE late
          /\ queueTurn' = t /\ buffer' = IF queueTurn = t THEN Append(buffer, x) ELSE <<x>>
          /\ injected' = injected /\ Known(t)
          /\ \A u \in Turns : Ended(u)' = Ended(u)
      BY <2>5, <2>o DEF Steer, loopVars, Ended, Finished, Returned
    <3>2. \A i \in DOMAIN buffer' : \/ buffer'[i] = x
                                    \/ queueTurn = t /\ i \in DOMAIN buffer /\ buffer'[i] = buffer[i]
      BY <2>t, <3>1
    <3>3. injected[x] = NoTurn /\ \A i \in DOMAIN buffer : buffer[i] # x
      BY <2>t, <3>1 DEF SentFirst, QueueOwned
    <3>4. QueueOwned'
      BY <2>t, <3>1, <3>2, <3>3 DEF QueueOwned
    <3>5. QueueWaits'
      BY <2>t, <3>1, <3>2, <3>3 DEF QueueWaits, QueueOwned
    <3>6. SentFirst'
      BY <2>t, <2>k, <3>1, <3>3 DEF SentFirst
    <3>7. QueueFollows'
      BY <2>o, <2>q, <3>1 DEF QueueFollows
    <3>8. InjectedRight'
      BY <2>t, <2>q, <3>1, <3>3 DEF InjectedRight
    <3>9. ASSUME alone', NEW y \in Texts, sentTo'[y] # NoTurn, ~Ended(sentTo'[y]),
                 injected[y] = NoTurn
          PROVE  \E i \in DOMAIN buffer' : buffer'[i] = y
      <4>1. CASE y = x
        <5>1. buffer'[Len(buffer')] = x /\ Len(buffer') \in DOMAIN buffer'
          BY <2>t, <3>1
        <5> QED
          BY <4>1, <5>1
      <4>2. CASE y # x
        <5>1. sentTo[y] \in Turns /\ sentTo'[y] = sentTo[y] /\ Known(sentTo[y]) /\ ~Ended(sentTo[y])
          BY <2>t, <3>1, <3>9, <4>2 DEF SentFirst
        <5>2. sentTo[y] = t
          BY <2>q, <3>9, <5>1 DEF Quiet, Known, Ended, Finished, Returned
        <5>3. PICK i \in DOMAIN buffer : buffer[i] = y
          BY <2>q, <3>9, <5>1 DEF NothingDropped
        <5>4. queueTurn = t
          BY <5>2, <5>3 DEF QueueOwned
        <5>5. i \in DOMAIN buffer' /\ buffer'[i] = y
          BY <2>t, <3>1, <5>3, <5>4
        <5> QED
          BY <5>5
      <4> QED
        BY <4>1, <4>2
    <3>10. NothingDropped'
      BY <2>t, <3>1, <3>9 DEF NothingDropped, Ended, Finished, Returned
    <3> QED
      BY <1>1, <3>4, <3>5, <3>6, <3>7, <3>8, <3>10
  <2> QED
    BY <1>3, <2>1, <2>2, <2>3, <2>4, <2>5, QueueStep DEF ThreadsInv
<1> QED
  BY <1>2, <1>3, NextActs, NothingWatched

LEMMA SteeringAlways == Spec => []SteeringInv
  BY SteeringInit, SteeringNext, PTL DEF Spec

\* No text stays behind for another turn; one turn at a time, every text reaches
\* the turn it was sent to or waits for it.
THEOREM SteeringCorrect == Spec => []SteeringRight
<1>1. SteeringInv => SteeringRight
  BY DEF SteeringInv, QueueWaits, InjectedRight, NothingDropped, SteeringRight
<1> QED
  BY <1>1, SteeringAlways, PTL
=============================================================================
