--------------------------- MODULE RequestHistory ---------------------------
(***************************************************************************)
(* What the model is sent.  The loop of a turn writes its items to the     *)
(* thread's messages.jsonl; each model step reads the file back, heals it, *)
(* folds what is too long into a summary, repairs what is left and turns   *)
(* it into the messages of a request.                                      *)
(*                                                                         *)
(* Turns come one after the other, as clients start them (TurnLifecycle    *)
(* has them side by side), but an interrupt leaves a loop behind that may  *)
(* still write, and a client may fold the history at any time.  Reading    *)
(* and writing the file are atomic here: SessionStore has their races.     *)
(* Tools run one after the other: of those that run at once, too, results  *)
(* are written in the order of the calls. Left out: few-shot prefixes and  *)
(* historyLimit, which nothing sets, texts steered before the first step,  *)
(* and what is in the texts, that of a summary included, which has room    *)
(* for twenty items.                                                       *)
(***************************************************************************)
EXTENDS Naturals, Sequences, FiniteSets

CONSTANTS CallIds,    \* what the provider calls its tool calls: it may reuse a name
          Says,       \* what a response says beside its calls: sequences of kinds of items
          Ways,       \* what its calls may come to
          MaxTurns,   \* bound: turns
          MaxSteps,   \* bound: model steps, of all turns
          MaxCalls,   \* bound: tool calls of one response
          MaxFolds,   \* bound: histories folded
          MaxFaults,  \* bound: crashes, interrupts and turns that fail
          Keeps       \* how many recent items a fold keeps: 4, 2 or 1

ASSUME RequestHistoryAssumption ==
  /\ Says \subseteq Seq({"reasoning", "text"})
  /\ Ways \subseteq {"result", "partial", "asked", "storm", "refused", "hook"}
  /\ Keeps \subseteq Nat \ {0}

VARIABLES
  items,   \* messages.jsonl as loadItems returns it
  place,   \* the loop: between turns, before a step, in a stream, at its tool calls
  turn,    \* the turn it is in
  step,    \* the model steps so far
  calls,   \* the tool calls of the response that have not been dispatched
  ops,     \* what the loop is about to write
  late,    \* what the loop of an interrupted turn is about to write
  route,   \* a client's compaction: the history it has read, or that there is none
  sent,    \* the messages of the last request
  owed,    \* history: the results the tools gave and nothing has replaced
  mixed,   \* history: writes of two loops, or of a loop and a compaction, have met
  folds, faults

loopVars == <<place, turn, step, calls, ops>>
requestVars == <<items, loopVars, late, route, sent, owed, mixed, folds, faults>>

NoRoute == [items |-> <<>>, open |-> FALSE]

-----------------------------------------------------------------------------
(* Items *)

\* Items of which there is one of a kind in a step of a turn.
Item(kind, t, s) ==
  [id |-> <<kind, t, s>>, kind |-> kind, turn |-> t, call |-> "", step |-> s, open |-> FALSE, of |-> {}]

CallItem(t, c, s) ==
  [Item("call", t, s) EXCEPT !.id = <<"call", t, c>>, !.call = c, !.open = TRUE]

\* The id of a result says nothing of the turn; that of a denial by a hook is the call's.
Result(id, t, c, s) == [Item("result", t, s) EXCEPT !.id = id, !.call = c]

\* The items at the given places, in their order (joined to <<>> for TLC to compute them
\* only once).
At(h, places) ==
  <<>> \o [k \in 1..Cardinality(places) |->
            h[CHOOSE n \in places : Cardinality({m \in places : m <= n}) = k]]

\* loadItems has the latest item of each id, where it was written last.
Put(h, item) == Append(At(h, {n \in DOMAIN h : h[n].id # item.id}), item)

Has(h, id) == \E n \in DOMAIN h : h[n].id = id

\* What is written: an item, or whether one that is there is open; a part of a
\* result is a new item if there is none to change.
Write(h, op) ==
  IF op.how # "add" /\ Has(h, op.item.id)
  THEN Put(h, [h[CHOOSE n \in DOMAIN h : h[n].id = op.item.id] EXCEPT !.open = op.item.open])
  ELSE IF op.how = "change" THEN h ELSE Put(h, op.item)
Adding(item) == [how |-> "add", item |-> item]
Closing(item) == [how |-> "change", item |-> [item EXCEPT !.open = FALSE]]
Showing(item) == [how |-> "either", item |-> [item EXCEPT !.open = TRUE]]

-----------------------------------------------------------------------------
(* repairModelHistoryItems *)

\* The block of tool calls that n is in: the first and the last of them.
BlockStart(h, n) == CHOOSE s \in 1..n : (\A k \in s..n : h[k].kind = "call")
                                     /\ (s = 1 \/ h[s - 1].kind # "call")
BlockEnd(h, n)  == CHOOSE e \in n..Len(h) : (\A k \in n..e : h[k].kind = "call")
                                          /\ (e = Len(h) \/ h[e + 1].kind # "call")

\* isToolResultBridgeItem: k may stand between the calls that end at e and their results.
Bridges(h, t, e, k) ==
  \/ h[k].kind \in {"reasoning", "approval", "input", "error"}
  \/ h[k].kind = "text" /\ h[k].turn = t /\ \A j \in (e + 1)..(k - 1) : h[j].kind # "result"

\* findResultBlock: the results that follow n's block, the first of each call.
ResultsOf(h, n) ==
  LET s == BlockStart(h, n)
      e == BlockEnd(h, n)
      asked == {h[c].call : c \in s..e}
      reached == {k \in (e + 1)..Len(h) :
                    \A j \in (e + 1)..k : h[j].kind = "result" \/ Bridges(h, h[s].turn, e, j)}
      results == {k \in reached : h[k].kind = "result" /\ h[k].call \in asked}
  IN  {k \in results : \A j \in results : h[j].call = h[k].call => k <= j}

\* Mutant: a call whose result is missing is kept.
KeptCallAnyway(h, n) == \A c \in BlockStart(h, n)..(n - 1) : h[c].call # h[n].call

\* The first of the calls with its id that has a result.
KeptCall(h, n) ==
  /\ \A c \in BlockStart(h, n)..(n - 1) : h[c].call # h[n].call
  /\ \E k \in ResultsOf(h, n) : h[k].call = h[n].call

\* One of the results of the calls before it.
KeptResult(h, k) ==
  \E n \in 1..(k - 1) : /\ h[n].kind = "call"
                        /\ \A j \in (n + 1)..(k - 1) : h[j].kind # "call"
                        /\ k \in ResultsOf(h, n)

Repair(h) ==
  At(h, {n \in DOMAIN h : /\ h[n].kind = "call" => KeptCall(h, n)
                          /\ h[n].kind = "result" => KeptResult(h, n)})

-----------------------------------------------------------------------------
(* Folding *)

\* effectiveHistoryAfterLatestCompaction
Effective(h) ==
  LET folded == {n \in DOMAIN h : h[n].kind = "summary"}
  IN  IF folded = {} THEN h
      ELSE At(h, {n \in DOMAIN h : \A f \in folded : f <= n})

\* trimTrailingToolCalls
Trimmed(h) == At(h, {n \in DOMAIN h : \E k \in n..Len(h) : h[k].kind # "call"})

\* The results a summary of h is made from: those in it, and those of the summaries in it.
Told(h) == UNION {IF h[n].kind = "result" THEN {<<h[n].call, h[n].step>>} ELSE h[n].of : n \in DOMAIN h}

\* Mutant: the summary is made of what it replaces, but not of what is kept beside it.
SummaryOfHead(h, keep, t) ==
  [Item("summary", t, folds) EXCEPT !.of = Told(SubSeq(h, 1, Len(h) - keep))]

\* buildCompactionSummary: of the whole history, what is kept beside it included.
Summary(h, keep, t) == [Item("summary", t, folds) EXCEPT !.of = Told(h)]

\* compact: at least one item is replaced, and nothing is done with a single one.
Folds(h) == Len(Trimmed(h)) > 1
Kept(h, keep) == IF keep < Len(h) THEN keep ELSE Len(h) - 1
Compacted(h, keep, t) ==
  IF Folds(h)
  THEN LET whole == Trimmed(h)
           tail == Kept(whole, keep)
       IN  <<Summary(whole, tail, t)>> \o SubSeq(whole, Len(whole) - tail + 1, Len(whole))
  ELSE Trimmed(h)

-----------------------------------------------------------------------------
(* Messages *)

Message(role) == [role |-> role, calls |-> <<>>, step |-> 0, of |-> {}]

\* A text is part of the message of the calls it comes before, or whose results
\* it comes before.
Merged(h, n) ==
  \/ \E c \in (n + 1)..Len(h) :
       /\ h[c].kind = "call" /\ h[c].turn = h[n].turn
       /\ \A k \in n..(c - 1) : h[k].kind \in {"reasoning", "text"} /\ h[k].turn = h[n].turn
  \/ \E c \in 1..(n - 1) :
       /\ h[c].kind = "call" /\ BlockEnd(h, c) = c
       /\ \A k \in (c + 1)..n : Bridges(h, h[BlockStart(h, c)].turn, c, k)

\* toolCallBlockToMessages: one message with the calls, and one for each result.
\* In a repaired history every call of a block has its result.
BlockMessages(h, n) ==
  LET block == SubSeq(h, n, BlockEnd(h, n))
      results == At(h, ResultsOf(h, n))
  IN  <<[Message("assistant") EXCEPT !.calls = [k \in DOMAIN block |-> block[k].call]]>>
        \o [k \in DOMAIN results |->
              [Message("tool") EXCEPT !.calls = <<results[k].call>>, !.step = results[k].step]]

\* itemsToMessages
MessagesAt(h, n) ==
  CASE h[n].kind = "user" -> <<Message("user")>>
    [] h[n].kind = "summary" -> <<[Message("system") EXCEPT !.of = h[n].of]>>
    [] h[n].kind = "text" /\ ~Merged(h, n) -> <<Message("assistant")>>
    [] h[n].kind = "call" /\ BlockStart(h, n) = n -> BlockMessages(h, n)
    [] OTHER -> <<>>
Messages(h) ==
  LET upto[n \in 0..Len(h)] == IF n = 0 THEN <<>> ELSE upto[n - 1] \o MessagesAt(h, n)
  IN  upto[Len(h)]

\* The tool messages that follow the calls of m[n].
Answers(m, n) == {k \in (n + 1)..Len(m) : \A j \in (n + 1)..k : m[j].role = "tool"}

\* healToolMessagePairs: calls that are not all answered are dropped, and so is
\* a result that answers none of the calls before it.
Healed(m) ==
  LET Calling(n) == m[n].role = "assistant" /\ m[n].calls # <<>>
      Asked(n) == {m[n].calls[c] : c \in DOMAIN m[n].calls}
      Answered(n) == \A c \in Asked(n) : \E k \in Answers(m, n) : m[k].calls = <<c>>
      Keep(n) == /\ Calling(n) => Answered(n)
                 /\ m[n].role = "tool" =>
                      \E a \in 1..(n - 1) : /\ Calling(a) /\ Answered(a) /\ n \in Answers(m, a)
                                            /\ m[n].calls[1] \in Asked(a)
  IN  At(m, {n \in DOMAIN m : Keep(n)})

-----------------------------------------------------------------------------
(* Turns and model steps *)

RequestInit ==
  /\ items = <<>>
  /\ place = "idle"
  /\ turn = 0
  /\ step = 0
  /\ calls = <<>>
  /\ ops = <<>>
  /\ late = [turn |-> 0, ops |-> <<>>]
  /\ route = NoRoute
  /\ sent = <<>>
  /\ owed = {}
  /\ mixed = FALSE
  /\ folds = 0
  /\ faults = 0

\* startTurn: the prompt.
StartTurn ==
  /\ place = "idle"
  /\ turn < MaxTurns
  /\ turn' = turn + 1
  /\ items' = Put(items, Item("user", turn + 1, step))
  /\ place' = "head"
  /\ UNCHANGED <<step, calls, ops, late, route, sent, owed, mixed, folds, faults>>

\* What the client sends of a history.
Wire(h) == Healed(Messages(Repair(h)))

\* modelStep up to the request: the file is healed, and what follows the latest
\* summary is sent.
Request ==
  /\ place = "head"
  /\ step < MaxSteps
  /\ LET healed == Repair(items)
     IN  /\ items' = healed
         /\ sent' = Wire(Repair(Effective(healed)))
  /\ place' = "stream"
  /\ step' = step + 1
  /\ UNCHANGED <<turn, calls, ops, late, route, owed, mixed, folds, faults>>

\* The same when the history is too long: compactIfNeeded. The summary is added
\* to the file behind the items that are kept.
RequestFolded(keep) ==
  /\ place = "head"
  /\ step < MaxSteps
  /\ folds < MaxFolds
  /\ LET healed == Repair(items)
         h == Repair(Effective(healed))
         folded == Compacted(h, keep, turn)
     IN  /\ items' = IF Folds(h) THEN Put(healed, folded[1]) ELSE healed
         /\ sent' = Wire(folded)
         /\ folds' = IF Folds(h) THEN folds + 1 ELSE folds
  /\ place' = "stream"
  /\ step' = step + 1
  /\ UNCHANGED <<turn, calls, ops, late, route, owed, mixed, faults>>

\* tool_call_complete: the call is written as it arrives.
ReceiveCall(c) ==
  /\ place = "stream"
  /\ Len(calls) < MaxCalls
  /\ \A k \in DOMAIN calls : calls[k] # c
  /\ calls' = Append(calls, c)
  /\ items' = Put(items, CallItem(turn, c, step))
  /\ owed' = {o \in owed : <<o.turn, o.call>> # <<turn, c>>}
  /\ UNCHANGED <<place, turn, step, ops, late, route, sent, mixed, folds, faults>>

\* The response has ended: what the model thought and said is written, and the
\* tools are called.
EndStream ==
  /\ place = "stream"
  /\ \E said \in Says :
       /\ calls = <<>> => said # <<>>
       /\ ops' = [n \in DOMAIN said |-> Adding(Item(said[n], turn, step))]
  /\ place' = "tools"
  /\ UNCHANGED <<items, turn, step, calls, late, route, sent, owed, mixed, folds, faults>>

\* What a tool call comes to, as it is written: the call is closed, and its
\* result, the refused approval or the denial by a hook is added. Before that a
\* tool may have shown a part of its result, or asked the user.
Outcome(way, c) ==
  LET call == Closing(CallItem(turn, c, step))
      result == Result(<<"result", c>>, turn, c, step)
      question == [Item("input", turn, step) EXCEPT !.id = <<"input", c>>, !.open = TRUE]
      approval == [Item("approval", turn, step) EXCEPT !.id = <<"approval", c>>, !.open = TRUE]
  IN  CASE way = "result" -> <<call, Adding(result)>>
        [] way = "partial" -> <<Showing(result), call, Adding(result)>>
        [] way = "asked" -> <<Adding(question), Closing(question), call, Adding(result)>>
        [] way = "storm" -> <<call, Adding([result EXCEPT !.id = <<"storm", c>>])>>
        [] way = "refused" -> <<call, Adding(approval)>>
        [] way = "hook" -> <<call, Adding([result EXCEPT !.id = <<"call", turn, c>>])>>
CallOutcomes(c) == {Outcome(way, c) : way \in Ways}

\* The next call has come to its outcome.
Dispatch ==
  /\ place = "tools"
  /\ ops = <<>>
  /\ calls # <<>>
  /\ ops' \in CallOutcomes(Head(calls))
  /\ calls' = Tail(calls)
  /\ UNCHANGED <<items, place, turn, step, late, route, sent, owed, mixed, folds, faults>>

\* A result that a tool gave replaces the one with its id; a hook's is not one.
Gives(op) == op.item.kind = "result" /\ op.item.id[1] # "call" /\ ~op.item.open

\* The loop writes the next of its items.
WriteNext ==
  /\ place = "tools"
  /\ ops # <<>>
  /\ items' = Write(items, Head(ops))
  /\ owed' = {o \in owed : o.id # Head(ops).item.id}
                \union (IF Gives(Head(ops)) THEN {Head(ops).item} ELSE {})
  /\ ops' = Tail(ops)
  /\ mixed' = (mixed \/ route.open)
  /\ UNCHANGED <<place, turn, step, calls, late, route, sent, folds, faults>>

\* All calls have come to their outcomes: another step, and before it what the
\* user has said meanwhile.
NextStep ==
  /\ place = "tools" /\ ops = <<>> /\ calls = <<>>
  /\ place' = "head"
  /\ items' \in {items, Put(items, Item("user", turn, step))}
  /\ UNCHANGED <<turn, step, calls, ops, late, route, sent, owed, mixed, folds, faults>>

\* finalizePersistedOpenItems: the open items of the turn are closed, each in its turn.
Finalized(h, t) ==
  LET open   == {n \in DOMAIN h : h[n].turn = t /\ h[n].open}
      closed == At(h, open)
  IN  At(h, DOMAIN h \ open) \o [n \in DOMAIN closed |-> [closed[n] EXCEPT !.open = FALSE]]

\* finishTurn of a turn that has come to its answer.
Finish ==
  /\ place = "tools" /\ ops = <<>> /\ calls = <<>>
  /\ place' = "idle"
  /\ items' = Finalized(items, turn)
  /\ UNCHANGED <<turn, step, calls, ops, late, route, sent, owed, mixed, folds, faults>>

-----------------------------------------------------------------------------
(* Failures, interrupts and compaction by a client *)

Stop ==
  /\ place' = "idle"
  /\ calls' = <<>>
  /\ ops' = <<>>
  /\ faults' = faults + 1

\* The stream breaks off, something throws or the steps are used up: the turn has
\* failed, and may say why.
Fail ==
  /\ place # "idle"
  /\ faults < MaxFaults
  /\ Stop
  /\ LET closed == Finalized(items, turn)
     IN  items' \in {closed, Put(closed, Item("error", turn, step))}
  /\ UNCHANGED <<turn, step, late, route, sent, owed, mixed, folds>>

\* What is left to write of a loop that is interrupted: it finishes the call it
\* is at, or the response.
Leftovers ==
  CASE place = "stream" -> {<<>>, <<Adding(Item("text", turn, step))>>}
    [] place = "tools" /\ ops # <<>> -> {ops}
    [] place = "tools" /\ ops = <<>> /\ calls # <<>> -> {<<>>} \union CallOutcomes(Head(calls))
    [] OTHER -> {<<>>}

\* interruptTurn: the open items of the turn are closed, or all but the user's dropped.
Interrupt(discard) ==
  /\ place # "idle"
  /\ late.ops = <<>>
  /\ faults < MaxFaults
  /\ Stop
  /\ items' = IF discard THEN At(items, {n \in DOMAIN items : items[n].turn # turn \/ items[n].kind = "user"})
              ELSE Finalized(items, turn)
  /\ owed' = IF discard THEN {o \in owed : o.turn # turn} ELSE owed
  /\ \E left \in Leftovers : late' = [turn |-> turn, ops |-> left]
  /\ UNCHANGED <<turn, step, route, sent, mixed, folds>>

\* The provider has used the name of the item's call for one of the turn.
Reused(item) ==
  /\ item.kind = "result"
  /\ item.turn # turn
  /\ \E n \in DOMAIN items : <<items[n].kind, items[n].turn, items[n].call>> = <<"call", turn, item.call>>

\* Its loop goes on writing, and closes the turn once more.
WriteLate ==
  /\ late.ops # <<>>
  /\ LET written == Write(items, Head(late.ops))
     IN  items' = IF Len(late.ops) = 1 THEN Finalized(written, late.turn) ELSE written
  /\ owed' = {o \in owed : Head(late.ops).item.kind = "result" => o.call # Head(late.ops).item.call}
  /\ late' = [late EXCEPT !.ops = Tail(@)]
  /\ mixed' = (mixed \/ (ops # <<>> /\ Head(late.ops).item.kind = "text") \/ Reused(Head(late.ops).item))
  /\ UNCHANGED <<loopVars, route, sent, folds, faults>>

\* The runtime is started again.
Crash ==
  /\ faults < MaxFaults
  /\ Stop
  /\ late' = [late EXCEPT !.ops = <<>>]
  /\ route' = NoRoute
  /\ UNCHANGED <<items, turn, step, sent, owed, mixed, folds>>

\* TurnService.compact reads the history, without errors and earlier summaries.
LoadCompact ==
  /\ ~route.open
  /\ folds < MaxFolds
  /\ route' = [items |-> At(items, {n \in DOMAIN items : items[n].kind \notin {"summary", "error"}}),
               open |-> TRUE]
  /\ UNCHANGED <<items, loopVars, late, sent, owed, mixed, folds, faults>>

\* The summary of what it read is added to the file as it is now.
AppendCompact ==
  /\ route.open
  /\ route' = NoRoute
  /\ items' = IF Folds(route.items) THEN Put(items, Summary(Trimmed(route.items), 4, turn)) ELSE items
  /\ folds' = folds + 1
  /\ mixed' = (mixed \/ ops # <<>>)
  /\ UNCHANGED <<loopVars, late, sent, owed, faults>>

RequestNext ==
  \/ StartTurn \/ Request \/ EndStream \/ Dispatch \/ WriteNext \/ NextStep \/ Finish
  \/ \E keep \in Keeps : RequestFolded(keep)
  \/ \E c \in CallIds : ReceiveCall(c)
  \/ Fail \/ WriteLate \/ Crash
  \/ \E discard \in BOOLEAN : Interrupt(discard)
  \/ LoadCompact \/ AppendCompact

RequestSpec == RequestInit /\ [][RequestNext]_requestVars

-----------------------------------------------------------------------------
(* Properties *)

\* The results between the block of calls that ends at e and what follows it.
Following(h, e) ==
  {k \in (e + 1)..Len(h) : /\ h[k].kind = "result"
                           /\ \A j \in (e + 1)..k : h[j].kind \notin {"call", "user", "summary"}}
OneEach(calling, results) ==
  /\ Cardinality({calling[n] : n \in DOMAIN calling}) = Cardinality(DOMAIN calling)
  /\ Cardinality({results[n] : n \in DOMAIN results}) = Cardinality(DOMAIN results)
  /\ {calling[n] : n \in DOMAIN calling} = {results[n] : n \in DOMAIN results}

\* Every block of calls has one result for each of its calls, and there are no others.
Paired(h) ==
  LET Ends == {n \in DOMAIN h : h[n].kind = "call" /\ BlockEnd(h, n) = n}
  IN  /\ \A e \in Ends : OneEach([n \in BlockStart(h, e)..e |-> h[n].call], [n \in Following(h, e) |-> h[n].call])
      /\ \A k \in DOMAIN h : h[k].kind = "result" => \E e \in Ends : k \in Following(h, e)

\* The same of the messages of a request.
Valid(m) ==
  LET Calling == {n \in DOMAIN m : m[n].calls # <<>> /\ m[n].role = "assistant"}
  IN  /\ \A n \in Calling : OneEach(m[n].calls, [k \in Answers(m, n) |-> m[k].calls[1]])
      /\ \A k \in DOMAIN m : m[k].role = "tool" => \E n \in Calling : k \in Answers(m, n)

\* "Every assistant tool-call block must be followed by exactly one matching
\* result per call": so it is in the file once it has been healed, and in what is
\* sent, whatever was interrupted, folded, refused or written late before.
CallsArePaired == [][step' # step => (Paired(items) /\ Valid(sent))']_requestVars

\* What a tool has answered is in each later request, or the summary that is sent
\* was made from it: until the turn is discarded or the provider uses the call's
\* name again, and unless a client's compaction, or the loop of an interrupted
\* turn, wrote between a call and its result.
AnswersReachModel ==
  [][step' # step /\ ~mixed =>
       \A o \in owed : \E n \in DOMAIN sent' :
         \/ sent'[n].calls = <<o.call>> /\ sent'[n].step = o.step
         \/ <<o.call, o.step>> \in sent'[n].of]_requestVars

\* "Multiple tool_call in the same model response will be reassembled into a valid
\* assistant tool_calls message, followed by the corresponding tool_result".
Reassembled ==
  \A j, k \in DOMAIN sent :
    j < k /\ sent[j].role = "tool" /\ sent[k].role = "tool" /\ sent[j].step = sent[k].step =>
      \A n \in j..k : sent[n].role = "tool"
=============================================================================
