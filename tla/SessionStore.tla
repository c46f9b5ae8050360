---------------------------- MODULE SessionStore ----------------------------
(***************************************************************************)
(* The files of one thread (adapters/file/file-session-store.ts, and what   *)
(* hybrid/hybrid-session-store.ts hands on to it): messages.jsonl, where an *)
(* item is the last line with its id, and events.jsonl, whose usage events  *)
(* are thinned out when the file has grown.                                 *)
(*                                                                          *)
(* A step is what runs between two awaits. A call that reads a file and     *)
(* writes it later does so with what it read: nothing locks the files.      *)
(* Time goes in half days; a usage event carries the total of the thread.   *)
(***************************************************************************)
EXTENDS Naturals, Sequences

CONSTANTS StoreCalls,  \* calls of the store
          MayAsk,      \* what each may ask for: event, usage, item, patch, discard
          Items,       \* ids of items
          Models,      \* models that usage is counted for
          MaxLines,    \* usageEventCompaction.maxBytes, in lines
          Retention,   \* retentionDays, in half days
          LastTime,    \* bound of the clock
          MaxFailures, \* failed writes and crashes, together
          Missing

EventOps == {"event", "usage"}
ItemOps  == {"item", "patch", "discard"}

\* The lines of the files: an item, with all the calls in it; an event, with its call,
\* or of usage.
Lines      == [id : Items, has : SUBSET StoreCalls]
EventLines == [by : StoreCalls \cup {Missing}, time : Nat, total : Nat, model : Models \cup {Missing}]

ASSUME SessionAssumption ==
  /\ MayAsk \in [StoreCalls -> SUBSET (EventOps \cup ItemOps)]
  /\ Missing \notin StoreCalls /\ Missing \notin Lines
  /\ MaxLines \in Nat /\ Retention \in Nat /\ LastTime \in Nat /\ MaxFailures \in Nat

VARIABLES progress, asked, item, \* where a call is, what it asks for, of which item
          seen,          \* the file as a call read it
          messages, events, torn, \* the files; the files that end within a line
          now, spent,    \* the clock; tokens the thread has used
          owed, owedEvents, \* history: the calls each item, and the events, must show
          recorded,      \* history: the usage events that reached the file, until they overlap
          met,       \* history: a usage event was written while another was
          failures

files          == <<messages, events, torn>>
sessionHistory == <<owed, owedEvents, recorded, met>>
sessionVars    == <<progress, asked, item, seen, files, now, spent, sessionHistory, failures>>

IsUsage(e) == e.total > 0

SessionInit ==
  /\ progress = [c \in StoreCalls |-> "idle"]
  /\ asked = [c \in StoreCalls |-> Missing] /\ item = [c \in StoreCalls |-> Missing]
  /\ seen = [c \in StoreCalls |-> <<>>]
  /\ messages = <<>> /\ events = <<>> /\ torn = {}
  /\ now = 0 /\ spent = 0
  /\ owed = [i \in Items |-> {}] /\ owedEvents = {} /\ recorded = <<>> /\ met = FALSE /\ failures = 0

-----------------------------------------------------------------------------
(* Reading: readJsonl, loadItems                                            *)

\* The lines at some places, in their order.
At(lines, places) ==
  LET kept[k \in 0..Len(lines)] ==
        IF k = 0 THEN <<>> ELSE IF k \in places THEN Append(kept[k - 1], lines[k]) ELSE kept[k - 1]
  IN  kept[Len(lines)]

LastOf(S) == CHOOSE k \in S : \A j \in S : j <= k

\* The last line of each id, in the order of those lines.
Latest(lines) ==
  At(lines, {k \in DOMAIN lines : \A j \in DOMAIN lines : j > k => lines[j].id # lines[k].id})

\* What loadItems shows of an item; Missing if there is none.
ItemIn(lines, i) ==
  LET at == {k \in DOMAIN lines : lines[k].id = i}
  IN  IF at = {} THEN Missing ELSE lines[LastOf(at)]

-----------------------------------------------------------------------------
(* Thinning out the usage events: compactUsageEvents                        *)

Bucket(e) == <<e.time \div 2, e.model>>

\* Mutant: no total is kept for what lies before the cutoff.
CompactNoBaseline(lines, cutoff) ==
  LET usage    == {k \in DOMAIN lines : IsUsage(lines[k])}
      retained == {k \in usage : lines[k].time >= cutoff \/ k = LastOf(usage)}
  IN  At(lines, (DOMAIN lines \ usage) \cup
                {k \in retained : \A j \in retained : Bucket(lines[j]) = Bucket(lines[k]) => j <= k})

\* Kept are all other events, the last usage event before the cutoff, and of those
\* since then (and the last of all) the last of each day and model.
Compact(lines, cutoff) ==
  LET usage    == {k \in DOMAIN lines : IsUsage(lines[k])}
      before   == {k \in usage : lines[k].time < cutoff}
      baseline == IF before = {} THEN {} ELSE {LastOf(before)}
      retained == {k \in usage : lines[k].time >= cutoff \/ k = LastOf(usage)} \cup baseline
  IN  At(lines, (DOMAIN lines \ usage) \cup baseline \cup
                {k \in retained : \A j \in retained : Bucket(lines[j]) = Bucket(lines[k]) => j <= k})

Cutoff == IF now > Retention THEN now - Retention ELSE 0

-----------------------------------------------------------------------------
(* The calls                                                                *)

MoveTo(c, place) == progress' = [progress EXCEPT ![c] = place]
UsageUnderWay == {d \in StoreCalls : asked[d] = "usage" /\ progress[d] \notin {"idle", "done"}}

\* appendEvent and appendItem wait for the directory, updateItem and the callers
\* of rewriteItems (discardTurnItems, the repair of a history) for what they read.
AskStore(c) ==
  /\ progress[c] = "idle"
  /\ \E o \in MayAsk[c] :
       /\ asked' = [asked EXCEPT ![c] = o]
       /\ \E i \in IF o \in EventOps THEN {Missing} ELSE Items : item' = [item EXCEPT ![c] = i]
       /\ MoveTo(c, IF o \in {"patch", "discard"} THEN "read" ELSE "append")
       /\ met' = (met \/ (o = "usage" /\ UsageUnderWay # {}))
       /\ recorded' = IF met' THEN <<>> ELSE recorded
  /\ UNCHANGED <<seen, files, now, spent, owed, owedEvents, failures>>

\* A patch of an item that is not there returns null.
ReadItems(c) ==
  /\ progress[c] = "read"
  /\ IF asked[c] = "patch" /\ ItemIn(messages, item[c]) = Missing
     THEN MoveTo(c, "done") /\ UNCHANGED seen
     ELSE MoveTo(c, IF asked[c] = "patch" THEN "append" ELSE "rewrite")
          /\ seen' = [seen EXCEPT ![c] = Latest(messages)]
  /\ UNCHANGED <<asked, item, files, now, spent, sessionHistory, failures>>

\* Mutant: the item becomes the patch alone.
ItemLineBare(c) == [id |-> item[c], has |-> {c}]

\* An item as it was read, and patched; or a new one in its place.
ItemLine(c) ==
  [id |-> item[c], has |-> {c} \cup (IF asked[c] = "patch" THEN ItemIn(seen[c], item[c]).has ELSE {})]

File(c) == IF asked[c] \in EventOps THEN "events" ELSE "messages"

\* Another call has read messages.jsonl and will write the item as it read it.
Held(c, i) == \E d \in StoreCalls \ {c} :
                progress[d] = "rewrite" \/ (progress[d] = "append" /\ asked[d] = "patch" /\ item[d] = i)

\* appendFile of an item: a new item owes what was there nothing.
LandItem(c) ==
  LET i == item[c] IN
  /\ asked[c] \in {"item", "patch"} /\ MoveTo(c, "done")
  /\ messages' = Append(messages, ItemLine(c)) /\ seen' = [seen EXCEPT ![c] = <<>>]
  /\ owed' = [owed EXCEPT ![i] = (IF asked[c] = "patch" THEN @ ELSE {}) \cup (IF Held(c, i) THEN {} ELSE {c})]
  /\ UNCHANGED <<events, spent, owedEvents, recorded>>

\* appendFile of an event; one that lands while the events are compacted is lost.
LandEvent(c) ==
  /\ asked[c] = "event" /\ MoveTo(c, "done")
  /\ events' = Append(events, [by |-> c, time |-> now, total |-> 0, model |-> Missing])
  /\ owedEvents' = owedEvents \cup (IF \E d \in StoreCalls : progress[d] = "replace" THEN {} ELSE {c})
  /\ UNCHANGED <<seen, messages, spent, owed, recorded>>

LandUsage(c) ==
  /\ asked[c] = "usage" /\ MoveTo(c, "stat") /\ spent' = spent + 1
  /\ \E m \in Models :
       LET event == [by |-> Missing, time |-> now, total |-> spent', model |-> m]
       IN  /\ events' = Append(events, event)
           /\ recorded' = IF met THEN recorded ELSE Append(recorded, event)
  /\ UNCHANGED <<seen, messages, owed, owedEvents>>

Land(c) ==
  /\ progress[c] = "append" /\ File(c) \notin torn
  /\ (LandItem(c) \/ LandEvent(c) \/ LandUsage(c))
  /\ UNCHANGED <<asked, item, torn, now, met, failures>>

\* A line that follows half a line is no line; the call is told that it was written.
LandTorn(c) ==
  /\ progress[c] = "append" /\ File(c) \in torn /\ torn' = torn \ {File(c)}
  /\ MoveTo(c, IF asked[c] = "usage" THEN "stat" ELSE "done")
  /\ spent' = IF asked[c] = "usage" THEN spent + 1 ELSE spent
  /\ UNCHANGED <<asked, item, seen, messages, events, now, sessionHistory, failures>>

\* compactUsageEventsIfLarge: nothing is done to a file that is small, or would not shrink.
Look(c) ==
  LET new == Compact(events, Cutoff) IN
  /\ progress[c] = "stat"
  /\ IF Len(events) > MaxLines /\ Len(new) < Len(events)
     THEN MoveTo(c, "replace") /\ seen' = [seen EXCEPT ![c] = new]
     ELSE MoveTo(c, "done") /\ UNCHANGED seen
  /\ UNCHANGED <<asked, item, files, now, spent, sessionHistory, failures>>

\* atomicWriteFile renames a complete file into place; it may fail and leave the old one.
Replace(c) ==
  /\ progress[c] = "replace" /\ MoveTo(c, "done")
  /\ \/ events' = seen[c] /\ torn' = torn \ {"events"} /\ UNCHANGED failures
     \/ failures < MaxFailures /\ failures' = failures + 1 /\ UNCHANGED <<events, torn>>
  /\ seen' = [seen EXCEPT ![c] = <<>>]
  /\ UNCHANGED <<asked, item, messages, now, spent, sessionHistory>>

\* rewriteItems, with the items read before and without the one discarded.
Rewrite(c) ==
  /\ progress[c] = "rewrite" /\ MoveTo(c, "done") /\ seen' = [seen EXCEPT ![c] = <<>>]
  /\ \/ /\ messages' = At(seen[c], {k \in DOMAIN seen[c] : seen[c][k].id # item[c]})
        /\ torn' = torn \ {"messages"}
        /\ owed' = [owed EXCEPT ![item[c]] = {}] /\ UNCHANGED failures
     \/ failures < MaxFailures /\ failures' = failures + 1 /\ UNCHANGED <<messages, torn, owed>>
  /\ UNCHANGED <<asked, item, events, now, spent, owedEvents, recorded, met>>

\* The write fails, with nothing or half a line in the file; the call throws.
FailAppend(c) ==
  /\ progress[c] = "append" /\ failures < MaxFailures /\ failures' = failures + 1
  /\ MoveTo(c, "done") /\ torn' \in {torn, torn \cup {File(c)}}
  /\ UNCHANGED <<asked, item, seen, messages, events, now, spent, sessionHistory>>

\* The runtime dies: what was under way is not done, or half of it is.
Crash ==
  /\ failures < MaxFailures /\ failures' = failures + 1
  /\ progress' = [c \in StoreCalls |-> IF progress[c] = "idle" THEN "idle" ELSE "done"]
  /\ \E t \in SUBSET {File(c) : c \in {d \in StoreCalls : progress[d] = "append"}} : torn' = torn \cup t
  \* The count of tokens starts again from the last usage event (seedUsage).
  /\ LET usage == {k \in DOMAIN events : IsUsage(events[k])}
     IN  spent' = IF usage = {} THEN 0 ELSE events[LastOf(usage)].total
  /\ UNCHANGED <<asked, item, seen, messages, events, now, sessionHistory>>

TimePasses == /\ now < LastTime /\ now' = now + 1
              /\ UNCHANGED <<progress, asked, item, seen, files, spent, sessionHistory, failures>>

SessionNext == \/ \E c \in StoreCalls : \/ AskStore(c) \/ ReadItems(c) \/ Land(c) \/ LandTorn(c) \/ Look(c)
                            \/ Replace(c) \/ Rewrite(c) \/ FailAppend(c)
        \/ Crash \/ TimePasses

SessionSpec == SessionInit /\ [][SessionNext]_sessionVars

-----------------------------------------------------------------------------
\* A call that was told its item, patch or event was written finds it there after any
\* other calls, failed writes and crashes - unless what it wrote followed half a line,
\* or another call had read the file and was yet to write it (the code loses these).
NothingOwedIsLost ==
  /\ \A i \in Items : owed[i] # {} => /\ ItemIn(messages, i) # Missing
                                   /\ owed[i] \subseteq ItemIn(messages, i).has
  /\ owedEvents \subseteq {events[k].by : k \in DOMAIN events}

\* The tokens of a day, as the usage route counts them: what each usage event has more
\* than the one before it (usageRecords, diffUsage).
DayTotal(lines, day) ==
  LET counted[k \in 0..Len(lines)] ==
        IF k = 0 THEN [latest |-> 0, tokens |-> 0]
        ELSE IF ~IsUsage(lines[k]) THEN counted[k - 1]
        ELSE LET previous == counted[k - 1]
                 more == IF lines[k].total > previous.latest THEN lines[k].total - previous.latest ELSE 0
             IN  [latest |-> lines[k].total,
                  tokens |-> previous.tokens + (IF lines[k].time \div 2 = day THEN more ELSE 0)]
  IN  counted[Len(lines)].tokens

\* Compaction, and compaction of what was compacted, leaves the usage of every day
\* after the cutoff as it was recorded, unless usage events were written concurrently.
DaysKeepTheirUsage ==
  ~met => \A day \in 0..(LastTime \div 2) :
                2 * day >= Cutoff => DayTotal(events, day) = DayTotal(recorded, day)
=============================================================================
