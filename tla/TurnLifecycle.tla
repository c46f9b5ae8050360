--------------------------- MODULE TurnLifecycle ---------------------------
(***************************************************************************)
(* The life of turns in one Kun runtime: TurnService starts, steers,       *)
(* interrupts and finishes them, AgentLoop.runTurn drives each one through *)
(* its model steps and tool calls, and every turn shares the one           *)
(* SteeringQueue, the InflightTracker and the approval gate.               *)
(*                                                                         *)
(* A step is what runs between two awaits.  What the model answers, what a *)
(* tool does and what the user decides is chosen, and so is what throws,   *)
(* also while a turn is being finished.  A model step requests at most one *)
(* tool call, and a tool's partial results are left out.  An update of the *)
(* thread record is atomic, as ThreadUpdates shows upsertThread to be.     *)
(***************************************************************************)
EXTENDS Naturals, Sequences, FiniteSets

CONSTANTS Turns,      \* the turns that may be started
          Threads,    \* their threads
          ThreadOf,   \* the thread of each turn
          Texts,      \* the steering texts the clients send
          NoTurn,     \* null
          MaxSteps    \* maxSteps: model steps of one turn

ASSUME TurnAssumption ==
  /\ ThreadOf \in [Turns -> Threads]
  /\ NoTurn \notin Turns
  /\ MaxSteps \in Nat \ {0}

VARIABLES
  record,         \* turn.status in the thread record
  threadStatus,   \* thread.status
  open,           \* the items of the turn that are pending or running
  terminal,       \* the terminal lifecycle events recorded for each turn
  inflightTurns,  \* TurnService.inflightTurns: who has an abort controller
  aborted,        \* the turns whose signal has fired
  inflight,       \* InflightTracker: <<turn, kind>>
  queueTurn,      \* SteeringQueue.turnId
  buffer,         \* SteeringQueue.buffer
  sentTo,         \* history: the turn each text was sent to
  late,           \* history: the texts sent to a turn that had ended
  injected,       \* history: the turn each text was injected in
  alone,          \* history: clients dealt with one turn at a time
  start,          \* startTurn of each turn
  loop,           \* runTurn of each turn
  outcome,        \* the status runTurn hands to finishTurn
  caught,         \* whether it does so from its catch
  steps,          \* model steps taken by runTurn
  approval,       \* the gate's entry for the turn's tool call
  intr            \* interruptTurn of each turn

statusVars == <<record, threadStatus>>
trackVars  == <<inflightTurns, aborted, inflight>>
queueVars  == <<queueTurn, buffer>>
textVars   == <<sentTo, late, injected, alone>>
loopVars   == <<loop, outcome, caught, steps>>
vars == <<open, statusVars, terminal, trackVars, queueVars, textVars,
          start, loopVars, approval, intr>>

Init ==
  /\ record = [t \in Turns |-> "none"]
  /\ threadStatus = [h \in Threads |-> "idle"]
  /\ open = [t \in Turns |-> {}]
  /\ terminal = [t \in Turns |-> <<>>]
  /\ inflightTurns = {}
  /\ aborted = {}
  /\ inflight = {}
  /\ queueTurn = NoTurn
  /\ buffer = <<>>
  /\ sentTo = [x \in Texts |-> NoTurn]
  /\ late = {}
  /\ injected = [x \in Texts |-> NoTurn]
  /\ alone = TRUE
  /\ start = [t \in Turns |-> "off"]
  /\ loop = [t \in Turns |-> "off"]
  /\ outcome = [t \in Turns |-> "none"]
  /\ caught = [t \in Turns |-> FALSE]
  /\ steps = [t \in Turns |-> 0]
  /\ approval = [t \in Turns |-> "none"]
  /\ intr = [t \in Turns |-> "off"]

\* runTurn has returned, or rejects because finishTurn failed in its catch.
Returned(t) == loop[t] \in {"over", "rejected"}
Finished(t) == loop[t] \in {"finishing", "closing", "announcing"} \/ Returned(t)
Ended(t) == Finished(t) \/ intr[t] # "off"

\* Nothing of the turn is under way.
Quiet(t) == start[t] = "off" \/ (Returned(t) /\ intr[t] \in {"off", "done"})

\* A client starts, steers or interrupts t: is it the only turn under way?
KeepAlone(t) == alone' = (alone /\ \A u \in Turns \ {t} : Quiet(u))

\* The clients know a turn from its turn_started event.
Known(t) == start[t] \in {"announced", "started"}

-----------------------------------------------------------------------------
(* SteeringQueue *)

\* Mutant: another turn's texts are kept.
SetTurnKeeping(t) ==
  /\ queueTurn' = t
  /\ buffer' = buffer

\* setTurn: another turn's texts are dropped.
SetTurn(t) ==
  /\ queueTurn' = t
  /\ buffer' = IF queueTurn = t THEN buffer ELSE <<>>

\* clear
ClearSteering ==
  /\ queueTurn' = NoTurn
  /\ buffer' = <<>>

\* drainSteering of turn t: whatever is queued becomes its user messages.
Drain(t) ==
  /\ injected' = [x \in Texts |->
                    IF \E i \in DOMAIN buffer : buffer[i] = x THEN t ELSE injected[x]]
  /\ buffer' = <<>>
  /\ UNCHANGED <<queueTurn, sentTo, late, alone>>

-----------------------------------------------------------------------------
(* startTurn *)

\* The turn is added to the thread record.
AddTurn(t) ==
  /\ start[t] = "off"
  /\ start' = [start EXCEPT ![t] = "added"]
  /\ record' = [record EXCEPT ![t] = "running"]
  /\ threadStatus' = [threadStatus EXCEPT ![ThreadOf[t]] = "running"]
  /\ KeepAlone(t)
  /\ UNCHANGED <<open, terminal, trackVars, queueVars, sentTo, late, injected,
                 loopVars, approval, intr>>

\* turn_started is recorded.
AnnounceTurn(t) ==
  /\ start[t] = "added"
  /\ start' = [start EXCEPT ![t] = "announced"]
  /\ UNCHANGED <<open, statusVars, terminal, trackVars, queueVars, textVars,
                 loopVars, approval, intr>>

\* The controller, the inflight record and the queue's turn are set.
RegisterTurn(t) ==
  /\ start[t] = "announced"
  /\ start' = [start EXCEPT ![t] = "started"]
  /\ inflightTurns' = inflightTurns \union {t}
  /\ inflight' = inflight \union {<<t, "model">>}
  /\ SetTurn(t)
  /\ UNCHANGED <<open, statusVars, terminal, aborted, textVars, loopVars, approval, intr>>

-----------------------------------------------------------------------------
(* steerTurn, interruptTurn *)

\* The text joins the queue, which becomes t's.
Steer(x, t) ==
  /\ Known(t)
  /\ sentTo[x] = NoTurn
  /\ sentTo' = [sentTo EXCEPT ![x] = t]
  /\ late' = IF Ended(t) THEN late \union {x} ELSE late
  /\ queueTurn' = t
  /\ buffer' = IF queueTurn = t THEN Append(buffer, x) ELSE <<x>>
  /\ KeepAlone(t)
  /\ UNCHANGED <<open, statusVars, terminal, trackVars, injected, start,
                 loopVars, approval, intr>>

\* interruptTurn up to its first await.  Without a controller no signal fires.
Interrupt(t) ==
  /\ Known(t)
  /\ intr[t] = "off"
  /\ intr' = [intr EXCEPT ![t] = "signalled"]
  /\ aborted' = IF t \in inflightTurns THEN aborted \union {t} ELSE aborted
  /\ inflightTurns' = inflightTurns \ {t}
  /\ inflight' = inflight \ {<<t, "model">>}
  /\ ClearSteering
  /\ KeepAlone(t)
  /\ UNCHANGED <<open, statusVars, terminal, sentTo, late, injected, start, loopVars, approval>>

\* turn_aborted is recorded.
AnnounceInterrupt(t) ==
  /\ intr[t] = "signalled"
  /\ intr' = [intr EXCEPT ![t] = "announced"]
  /\ terminal' = [terminal EXCEPT ![t] = Append(@, "aborted")]
  /\ UNCHANGED <<open, statusVars, trackVars, queueVars, textVars, start,
                 loopVars, approval>>

\* The open items are closed, or the client wants the generated ones dropped; the
\* turn is marked aborted, whatever its status was.
FinishInterrupt(t) ==
  /\ intr[t] = "announced"
  /\ intr' = [intr EXCEPT ![t] = "done"]
  /\ open' = [open EXCEPT ![t] = {}]
  /\ record' = [record EXCEPT ![t] = "aborted"]
  /\ threadStatus' = [threadStatus EXCEPT ![ThreadOf[t]] = "idle"]
  /\ UNCHANGED <<terminal, trackVars, queueVars, textVars, start, loopVars, approval>>

-----------------------------------------------------------------------------
(* runTurn and its model steps *)

\* A step that only moves the loop on.
Advance(t, from, to) ==
  /\ loop[t] = from
  /\ loop' = [loop EXCEPT ![t] = to]
  /\ UNCHANGED <<outcome, caught, steps, queueVars, inflightTurns>>

\* finishTurn up to its first await; a tool's id is gone before it is called.
BeginFinish(t, status) ==
  /\ loop' = [loop EXCEPT ![t] = "finishing"]
  /\ outcome' = [outcome EXCEPT ![t] = status]
  /\ inflightTurns' = inflightTurns \ {t}
  /\ inflight' = inflight \ {<<t, "model">>, <<t, "tool">>}
  /\ ClearSteering
  /\ UNCHANGED steps

\* loop() returns a status; or something throws, and failTurn is called.
Return(t, status) == BeginFinish(t, status) /\ UNCHANGED caught
Throw(t) == BeginFinish(t, "failed") /\ caught' = [caught EXCEPT ![t] = TRUE]
\* modelStep says "failed", or throws.
Fail(t) == Return(t, "failed") \/ Throw(t)

\* runTurn: a turn whose controller is gone fails.
RunTurn(t) ==
  /\ start[t] = "started"
  /\ loop[t] = "off"
  /\ \/ /\ t \in inflightTurns
        /\ Advance(t, "off", "setup")
        /\ UNCHANGED inflight
     \/ /\ t \notin inflightTurns
        /\ Throw(t)
  /\ UNCHANGED <<open, statusVars, terminal, aborted, textVars, start, approval, intr>>

\* The setup may throw; then the drain at pre_start.
FirstDrain(t) ==
  /\ loop[t] = "setup"
  /\ \/ /\ loop' = [loop EXCEPT ![t] = "head"]
        /\ Drain(t)
        /\ UNCHANGED <<outcome, caught, steps, inflightTurns, inflight>>
     \/ /\ Throw(t)
        /\ UNCHANGED textVars
  /\ UNCHANGED <<open, statusVars, terminal, aborted, start, approval, intr>>

\* Mutant: an active goal's continuation is not counted as a step.
NextStepUncounted(t) ==
  /\ loop[t] = "head"
  /\ \/ /\ t \in aborted
        /\ Return(t, "aborted")
        /\ UNCHANGED textVars
     \/ /\ t \notin aborted
        /\ loop' = [loop EXCEPT ![t] = "request"]
        /\ Drain(t)
        /\ UNCHANGED <<steps, outcome, caught, inflightTurns, inflight>>
  /\ UNCHANGED <<open, statusVars, terminal, aborted, start, approval, intr>>

\* The head of loop(): the step limit, the abort check, and a drain.
NextStep(t) ==
  /\ loop[t] = "head"
  /\ \/ /\ steps[t] = MaxSteps
        /\ Fail(t)
        /\ UNCHANGED textVars
     \/ /\ steps[t] < MaxSteps
        /\ t \in aborted
        /\ Return(t, "aborted")
        /\ UNCHANGED textVars
     \/ /\ steps[t] < MaxSteps
        /\ t \notin aborted
        /\ loop' = [loop EXCEPT ![t] = "request"]
        /\ steps' = [steps EXCEPT ![t] = @ + 1]
        /\ Drain(t)
        /\ UNCHANGED <<outcome, caught, inflightTurns, inflight>>
  /\ UNCHANGED <<open, statusVars, terminal, aborted, start, approval, intr>>

\* modelStep up to the request: the budget gate may stop it, anything may throw.
PrepareRequest(t) ==
  /\ loop[t] = "request"
  /\ \/ /\ Advance(t, "request", "stream")
        /\ UNCHANGED inflight
     \/ Return(t, "completed")
     \/ Throw(t)
  /\ UNCHANGED <<open, statusVars, terminal, aborted, textVars, start, approval, intr>>

\* A chunk arrives: an aborted turn stops, else it may be a tool call.
ReceiveChunk(t) ==
  /\ loop[t] = "stream"
  /\ \/ /\ t \in aborted
        /\ Return(t, "aborted")
     \/ /\ t \notin aborted
        /\ Advance(t, "stream", "adding")
        /\ UNCHANGED inflight
  /\ UNCHANGED <<open, statusVars, terminal, aborted, textVars, start, approval, intr>>

\* applyItem of the tool call.
AddToolCall(t) ==
  /\ Advance(t, "adding", "dispatch")
  /\ open' = [open EXCEPT ![t] = @ \union {"call"}]
  /\ UNCHANGED <<statusVars, terminal, aborted, inflight, textVars, start, approval, intr>>

\* The stream ends without a tool call, and the signal is not looked at again:
\* the answer stands, an active goal asks for another step, or it was an error.
EndStream(t) ==
  /\ loop[t] = "stream"
  /\ \/ /\ Advance(t, "stream", "head")
        /\ UNCHANGED inflight
     \/ Return(t, "completed")
     \/ Fail(t)
  /\ UNCHANGED <<open, statusVars, terminal, aborted, textVars, start, approval, intr>>

-----------------------------------------------------------------------------
(* dispatchToolCalls, executeToolCall and LocalToolHost.execute *)

\* A later chunk or the checkpoint may fail the turn; then the abort check, and
\* a suppressed call goes straight to its result.
DispatchTool(t) ==
  /\ loop[t] = "dispatch"
  /\ \/ Fail(t)
     \/ /\ t \in aborted
        /\ Return(t, "aborted")
     \/ /\ t \notin aborted
        /\ \E to \in {"result", "prehook"} : Advance(t, "dispatch", to)
        /\ UNCHANGED inflight
  /\ UNCHANGED <<open, statusVars, terminal, aborted, textVars, start, approval, intr>>

\* After the PreToolUse hooks: the call is denied, or it is registered and the
\* host is entered, which throws if the signal has fired.
EnterHost(t) ==
  /\ loop[t] = "prehook"
  /\ \/ /\ Advance(t, "prehook", "result")
        /\ UNCHANGED inflight
     \/ /\ t \notin aborted
        /\ Advance(t, "prehook", "host")
        /\ inflight' = inflight \union {<<t, "tool">>}
     \/ /\ t \in aborted
        /\ Throw(t)
  /\ UNCHANGED <<open, statusVars, terminal, aborted, textVars, start, approval, intr>>

\* The host's own hooks and policies: the call is refused, needs an approval,
\* or goes on.
CheckTool(t) ==
  /\ \/ /\ Advance(t, "host", "result")
        /\ inflight' = inflight \ {<<t, "tool">>}
        /\ UNCHANGED approval
     \/ /\ Advance(t, "host", "waiting")
        /\ approval' = [approval EXCEPT ![t] = "pending"]
        /\ UNCHANGED inflight
     \/ /\ Advance(t, "host", "cleared")
        /\ UNCHANGED <<approval, inflight>>
  /\ UNCHANGED <<open, statusVars, terminal, aborted, textVars, start, intr>>

\* POST /v1/approvals: the gate's resolver is called.
Decide(t, decision) ==
  /\ approval[t] = "pending"
  /\ approval' = [approval EXCEPT ![t] = decision]
  /\ UNCHANGED <<open, statusVars, terminal, trackVars, queueVars, textVars,
                 start, loopVars, intr>>

\* The host resumes with the decision.
ResumeTool(t) ==
  /\ \/ /\ approval[t] = "allow"
        /\ Advance(t, "waiting", "cleared")
        /\ UNCHANGED inflight
     \/ /\ approval[t] = "deny"
        /\ Advance(t, "waiting", "denied")
        /\ inflight' = inflight \ {<<t, "tool">>}
  /\ approval' = [approval EXCEPT ![t] = "none"]
  /\ UNCHANGED <<open, statusVars, terminal, aborted, textVars, start, intr>>

\* A tool computes, asks the user (UserInputGate has the question), or waits for
\* the run of a child.
ToolStates == {"tool", "asking", "delegating"}

\* Mutant: the signal is not looked at again after the approval.
RunToolUnchecked(t) ==
  /\ \E kind \in ToolStates : Advance(t, "cleared", kind)
  /\ UNCHANGED <<open, statusVars, terminal, aborted, inflight, textVars,
                 start, approval, intr>>

\* The last check before the tool runs; the throw ends the turn as failed.
RunTool(t) ==
  /\ loop[t] = "cleared"
  /\ \/ /\ t \notin aborted
        /\ \E kind \in ToolStates : Advance(t, "cleared", kind)
        /\ UNCHANGED inflight
     \/ /\ t \in aborted
        /\ Throw(t)
  /\ UNCHANGED <<open, statusVars, terminal, aborted, textVars, start, approval, intr>>

\* The client's answer is there, or the child's run has come to its end.
EndWait(t) ==
  /\ loop[t] \in {"asking", "delegating"}
  /\ Advance(t, loop[t], "tool")
  /\ UNCHANGED <<open, statusVars, terminal, aborted, inflight, textVars,
                 start, approval, intr>>

\* Mutant: a tool that throws leaves its id behind.
EndToolLeaking(t) ==
  /\ \/ /\ Advance(t, "tool", "result")
        /\ inflight' = inflight \ {<<t, "tool">>}
     \/ /\ Advance(t, "tool", "finishing")
        /\ UNCHANGED inflight
  /\ UNCHANGED <<open, statusVars, terminal, aborted, textVars, start, approval, intr>>

\* The tool returns, or throws past the host: so does one that asks the user when
\* the signal fires.
EndTool(t) ==
  /\ \/ /\ Advance(t, "tool", "result")
        /\ inflight' = inflight \ {<<t, "tool">>}
     \/ /\ loop[t] = "tool" \/ (loop[t] = "asking" /\ t \in aborted)
        /\ Throw(t)
  /\ UNCHANGED <<open, statusVars, terminal, aborted, textVars, start, approval, intr>>

\* persistToolCallResult: the call is closed and its result added, though the
\* turn's items may have been discarded; a denied call's result is an approval
\* item that is still pending. It may throw.
PersistResult(t) ==
  /\ loop[t] \in {"result", "denied"}
  /\ \/ /\ Advance(t, loop[t], "head")
        /\ open' = [open EXCEPT ![t] = (@ \ {"call"}) \union
                      (IF loop[t] = "denied" THEN {"approval"} ELSE {})]
        /\ UNCHANGED inflight
     \/ /\ Throw(t)
        /\ UNCHANGED open
  /\ UNCHANGED <<statusVars, terminal, aborted, textVars, start, approval, intr>>

-----------------------------------------------------------------------------
(* finishTurn *)

\* finalizePersistedOpenItems
CloseItems(t) ==
  /\ Advance(t, "finishing", "closing")
  /\ open' = [open EXCEPT ![t] = {}]
  /\ UNCHANGED <<statusVars, terminal, aborted, inflight, textVars, start, approval, intr>>

\* The record gets the status and the thread is idle; the event is recorded.
SetStatus(t) ==
  /\ record' = [record EXCEPT ![t] = outcome[t]]
  /\ threadStatus' = [threadStatus EXCEPT ![ThreadOf[t]] = "idle"]
Tell(t) == terminal' = [terminal EXCEPT ![t] = Append(@, outcome[t])]

\* Mutants: the thread is left running; every run counts as completed.
WriteOutcomeThreadBusy(t) ==
  /\ Advance(t, "closing", "announcing")
  /\ record' = [record EXCEPT ![t] = outcome[t]]
  /\ UNCHANGED <<open, threadStatus, terminal, aborted, inflight, textVars, start, approval, intr>>
WriteOutcomeCompleted(t) ==
  /\ Advance(t, "closing", "announcing")
  /\ record' = [record EXCEPT ![t] = "completed"]
  /\ threadStatus' = [threadStatus EXCEPT ![ThreadOf[t]] = "idle"]
  /\ UNCHANGED <<open, terminal, aborted, inflight, textVars, start, approval, intr>>

\* The turn's status and the thread's, whatever they were.
WriteOutcome(t) ==
  /\ Advance(t, "closing", "announcing")
  /\ SetStatus(t)
  /\ UNCHANGED <<open, terminal, aborted, inflight, textVars, start, approval, intr>>

\* The terminal event; the error item of a failure with a message is left out.
AnnounceOutcome(t) ==
  /\ Advance(t, "announcing", "over")
  /\ Tell(t)
  /\ UNCHANGED <<open, statusVars, aborted, inflight, textVars, start, approval, intr>>

\* finishTurn throws with a part of its step done. Inside runTurn's try the turn
\* is finished once more, as failed; from its catch runTurn rejects.
FailFinish(t) ==
  /\ \/ /\ loop[t] = "finishing"
        /\ \E left \in SUBSET open[t] : open' = [open EXCEPT ![t] = left]
        /\ UNCHANGED <<statusVars, terminal>>
     \/ /\ loop[t] = "closing"
        /\ SetStatus(t) \/ UNCHANGED statusVars
        /\ UNCHANGED <<open, terminal>>
     \/ /\ loop[t] = "announcing"
        /\ Tell(t) \/ UNCHANGED terminal
        /\ UNCHANGED <<open, statusVars>>
  /\ \/ /\ ~caught[t]
        /\ Throw(t)
     \/ /\ caught[t]
        /\ Advance(t, loop[t], "rejected")
        /\ UNCHANGED inflight
  /\ UNCHANGED <<aborted, textVars, start, approval, intr>>

-----------------------------------------------------------------------------
StartStep(t) == AddTurn(t) \/ AnnounceTurn(t) \/ RegisterTurn(t)
InterruptStep(t) == AnnounceInterrupt(t) \/ FinishInterrupt(t)
ModelStep(t) ==
  RunTurn(t) \/ FirstDrain(t) \/ NextStep(t) \/ PrepareRequest(t) \/ ReceiveChunk(t)
    \/ AddToolCall(t) \/ EndStream(t)
ToolStep(t) ==
  DispatchTool(t) \/ EnterHost(t) \/ CheckTool(t) \/ ResumeTool(t) \/ RunTool(t)
    \/ EndTool(t) \/ PersistResult(t)
FinishStep(t) == CloseItems(t) \/ WriteOutcome(t) \/ AnnounceOutcome(t) \/ FailFinish(t)
LoopStep(t) == ModelStep(t) \/ ToolStep(t) \/ FinishStep(t)

Next ==
  \E t \in Turns :
    \/ StartStep(t)
    \/ LoopStep(t)
    \/ EndWait(t)
    \/ InterruptStep(t)
    \/ \E x \in Texts : Steer(x, t)
    \/ Interrupt(t)
    \/ \E decision \in {"allow", "deny"} : Decide(t, decision)

Spec == Init /\ [][Next]_vars

\* The runtime's steps are taken: promises settle, streams end, and a tool that
\* waits for nobody returns. Nobody has to decide an approval, answer a question,
\* steer or interrupt, and a child's run need not end.
Fairness ==
  \A t \in Turns :
    WF_vars(AnnounceTurn(t) \/ RegisterTurn(t)) /\ WF_vars(LoopStep(t)) /\ WF_vars(InterruptStep(t))
FairSpec == Spec /\ Fairness

-----------------------------------------------------------------------------
(* Properties *)

LoopStates ==
  {"off", "setup", "head", "request", "stream", "adding", "dispatch", "prehook",
   "host", "waiting", "cleared", "tool", "asking", "delegating", "result", "denied",
   "finishing", "closing", "announcing", "over", "rejected"}
Terminal == {"completed", "failed", "aborted"}

\* Every variable stays in the range the code gives it.
TypeOK ==
  /\ record \in [Turns -> {"none", "running"} \union Terminal]
  /\ threadStatus \in [Threads -> {"idle", "running"}]
  /\ open \in [Turns -> SUBSET {"call", "approval"}]
  /\ terminal \in [Turns -> Seq(Terminal)]
  /\ inflightTurns \subseteq Turns
  /\ aborted \subseteq Turns
  /\ inflight \subseteq Turns \X {"model", "tool"}
  /\ queueTurn \in Turns \union {NoTurn}
  /\ buffer \in Seq(Texts)
  /\ sentTo \in [Texts -> Turns \union {NoTurn}]
  /\ late \subseteq Texts
  /\ injected \in [Texts -> Turns \union {NoTurn}]
  /\ alone \in BOOLEAN
  /\ start \in [Turns -> {"off", "added", "announced", "started"}]
  /\ loop \in [Turns -> LoopStates]
  /\ outcome \in [Turns -> {"none"} \union Terminal]
  /\ caught \in [Turns -> BOOLEAN]
  /\ steps \in [Turns -> 0..MaxSteps]
  /\ approval \in [Turns -> {"none", "pending", "allow", "deny"}]
  /\ intr \in [Turns -> {"off", "signalled", "announced", "done"}]

\* "The loop never leaks ids": once a turn is being finished nothing of it is in
\* flight, whatever threw or interrupted it, and no other turn puts it back. When
\* its run is over it has a terminal status and no open item, even when an
\* interrupt closed its items in the middle of a tool call.
SettledWhenOver ==
  \A t \in Turns :
    /\ Finished(t) => t \notin inflightTurns /\ {<<t, "model">>, <<t, "tool">>} \intersect inflight = {}
    /\ loop[t] = "over" => record[t] \in Terminal /\ open[t] = {}

\* A turn nobody interrupted ends with the status its run decided and one
\* terminal event that says the same, whatever happens to the other turns. When
\* its finishing failed it may have told another status before: then the record
\* and its last event say failed.
OneOutcome ==
  \A t \in Turns : loop[t] = "over" /\ intr[t] = "off" =>
    /\ record[t] = outcome[t]
    /\ \/ terminal[t] = <<outcome[t]>>
       \/ /\ caught[t] /\ outcome[t] = "failed"
          /\ \E status \in Terminal : terminal[t] = <<status, "failed">>

\* The status the loop scheduler goes by: a thread is idle when everything about
\* its turns has come to an end, unless a runTurn rejected, and while clients deal
\* with one turn at a time it is not idle before.
ThreadStatusRight ==
  /\ \A h \in Threads :
       (\A t \in Turns : ThreadOf[t] = h => Quiet(t) /\ loop[t] # "rejected") =>
         threadStatus[h] = "idle"
  /\ \A t \in Turns :
       alone /\ loop[t] # "off" /\ ~Ended(t) => threadStatus[ThreadOf[t]] = "running"

\* Once the signal has fired no tool starts, though an approval may be granted
\* and hooks may have been waited for in between.
NoToolAfterSignal ==
  [][\A t \in aborted : loop'[t] \in ToolStates => loop[t] \in ToolStates]_vars

\* "The queue is cleared on turn completion or interruption": no text sent to a
\* turn that was running is still queued when that turn has ended, and none that
\* has been injected is left for another turn. While clients deal with one turn at
\* a time, a text reaches no other turn than the one it was sent to, and waits in
\* the queue as long as that turn goes on.
SteeringRight ==
  /\ \A i \in DOMAIN buffer : /\ buffer[i] \in late \/ ~Ended(sentTo[buffer[i]])
                              /\ injected[buffer[i]] = NoTurn
  /\ alone => \A x \in Texts :
       /\ injected[x] \in {NoTurn, sentTo[x]}
       /\ sentTo[x] # NoTurn /\ ~Ended(sentTo[x]) =>
            injected[x] # NoTurn \/ \E i \in DOMAIN buffer : buffer[i] = x

\* A turn that runs comes to its end, also when finishing it fails, unless it waits
\* for ever: for a client's decision on an approval or answer to a question, or for
\* a child. A question does not keep a turn whose signal has fired.
Waits(t) ==
  \/ loop[t] = "waiting" /\ approval[t] = "pending"
  \/ loop[t] = "asking" /\ t \notin aborted
  \/ loop[t] = "delegating"
EndsOrWaits ==
  \A t \in Turns : <>[]Waits(t) \/ ((loop[t] = "setup") ~> Returned(t))

-----------------------------------------------------------------------------
(* What the documentation says and the code does not do *)

\* "The loop ... is fully cancellable through the AbortSignal": a turn whose
\* signal has fired comes to its end, leaving aside one that waits for a child.
CancelledTurnEnds ==
  \A t \in Turns : (t \in aborted /\ loop[t] # "delegating") ~> Returned(t)
=============================================================================
