-------------------------- MODULE KunProcessProofs --------------------------
(***************************************************************************)
(* KunProcess, proved for any callers, settings and processes: its types,   *)
(* that what lives is the child unless two starts ran at once, and that the *)
(* child has the settings last saved once all is quiet.                     *)
(***************************************************************************)
EXTENDS KunProcess, TLAPS

-----------------------------------------------------------------------------
(* Types *)

Places == {"idle", "pending", "drain", "port", "start", "config", "wait", "health", "ok", "failed",
           "waitIdle", "stopping", "exited"}
States == {"none", "starting", "ready", "ending", "dead"}

TypeOK ==
  /\ at \in [Actors -> Places]
  /\ with \in [Actors -> Settings \cup {None}]
  /\ mine \in [Actors -> Procs \cup {None}]
  /\ awaits \in [Callers -> Callers \cup {None}]
  /\ memo \in {None} \cup [by : Callers, with : Settings \cup {None}]
  /\ settings \in Settings
  /\ queue \in Seq(Settings \cup {None}) /\ queued \in Nat
  /\ target \in [Callers -> Nat]
  /\ proc \in [Procs -> [state : States, with : Settings \cup {None}]]
  /\ child \in Procs \cup {None}
  /\ well \subseteq Callers
  /\ overlap \in BOOLEAN /\ stale \in BOOLEAN
  /\ left \subseteq Procs /\ deaths \in Nat

LEMMA TypeInit == ProcessInit => TypeOK
<1> SUFFICES ASSUME ProcessInit PROVE TypeOK
  OBVIOUS
<1> USE ProcessAssumption DEF ProcessInit, ProcessAssumption
<1>1. at \in [Actors -> Places] /\ with \in [Actors -> Settings \cup {None}]
  BY DEF Places
<1>2. mine \in [Actors -> Procs \cup {None}] /\ awaits \in [Callers -> Callers \cup {None}]
  OBVIOUS
<1>3. proc \in [Procs -> [state : States, with : Settings \cup {None}]]
  BY DEF NoProc, States
<1>4. queue \in Seq(Settings \cup {None})
  OBVIOUS
<1> QED
  BY <1>1, <1>2, <1>3, <1>4 DEF TypeOK

\* The steps of an actor's move, and of the queue's.
LEMMA GoesTyped ==
  ASSUME at \in [Actors -> Places], NEW a \in Actors, NEW where \in Places, Goto(a, where)
  PROVE  at' \in [Actors -> Places]
  BY DEF Goto

LEMMA TailTyped ==
  ASSUME TypeOK, queue # <<>>
  PROVE  /\ Tail(queue) \in Seq(Settings \cup {None})
         /\ Len(Tail(queue)) = Len(queue) - 1
         /\ \A i \in DOMAIN Tail(queue) : i + 1 \in DOMAIN queue /\ Tail(queue)[i] = queue[i + 1]
         /\ \A i \in DOMAIN queue \ {1} : i - 1 \in DOMAIN Tail(queue) /\ Tail(queue)[i - 1] = queue[i]
  BY DEF TypeOK

LEMMA AppendTyped ==
  ASSUME TypeOK, NEW e \in Settings \cup {None}
  PROVE  /\ Append(queue, e) \in Seq(Settings \cup {None})
         /\ Append(queue, e) # <<>>
         /\ Len(Append(queue, e)) = Len(queue) + 1
         /\ Append(queue, e)[Len(queue) + 1] = e
         /\ \A i \in DOMAIN queue : i \in DOMAIN Append(queue, e) /\ Append(queue, e)[i] = queue[i]
<1> DEFINE S == Settings \cup {None}
<1>1. queue \in Seq(S) /\ e \in S
  BY DEF TypeOK
<1> HIDE DEF S
<1>2. /\ Append(queue, e) \in Seq(S)
      /\ Len(Append(queue, e)) = Len(queue) + 1
      /\ Append(queue, e)[Len(queue) + 1] = e
      /\ \A i \in 1..Len(queue) : Append(queue, e)[i] = queue[i]
  BY <1>1
<1>3. DOMAIN queue = 1..Len(queue) /\ Len(queue) \in Nat
  BY <1>1
<1>4. DOMAIN Append(queue, e) = 1..(Len(queue) + 1)
  BY <1>1, <1>2
<1> QED
  BY <1>2, <1>3, <1>4 DEF S

\* The step of a process to another state.
LEMMA MarkTyped ==
  ASSUME TypeOK, NEW p \in Procs, NEW s \in States, proc' = [proc EXCEPT ![p].state = s]
  PROVE  /\ proc' \in [Procs -> [state : States, with : Settings \cup {None}]]
         /\ proc'[p].state = s
         /\ \A q \in Procs : proc'[q].with = proc[q].with /\ (q # p => proc'[q].state = proc[q].state)
<1> DEFINE R == [state : States, with : Settings \cup {None}]
<1>1. proc \in [Procs -> R]
  BY DEF TypeOK
<1>2. proc[p] \in R
  BY <1>1
<1>3. /\ [proc[p] EXCEPT !.state = s] \in R
      /\ [proc[p] EXCEPT !.state = s].state = s
      /\ [proc[p] EXCEPT !.state = s].with = proc[p].with
  BY <1>2
<1>4. proc' = [proc EXCEPT ![p] = [proc[p] EXCEPT !.state = s]]
  BY <1>1
<1> HIDE DEF R
<1>5. /\ proc' \in [Procs -> R] /\ proc'[p] = [proc[p] EXCEPT !.state = s]
      /\ \A q \in Procs : q # p => proc'[q] = proc[q]
  BY <1>1, <1>3, <1>4
<1> QED
  BY <1>3, <1>5 DEF R

\* The task that the queue works on is in it.
TaskQueued == at["apply"] # "idle" => queue # <<>>

TypeInv == TypeOK /\ TaskQueued

LEMMA TypeInvInit == ProcessInit => TypeInv
  BY TypeInit DEF TypeInv, TaskQueued, ProcessInit, Actors

LEMMA TypeNext == TypeInv /\ [ProcessNext]_processVars => TypeInv'
<1> SUFFICES ASSUME TypeInv, [ProcessNext]_processVars PROVE TypeInv'
  OBVIOUS
<1> USE ProcessAssumption DEF ProcessAssumption, TypeInv
<1>t. TypeOK
  OBVIOUS
<1>p. /\ {"idle", "pending", "drain", "port", "start", "config", "wait"} \subseteq Places
      /\ {"health", "ok", "failed", "waitIdle", "stopping", "exited"} \subseteq Places
  BY DEF Places
<1>a. /\ \A c \in Callers : c \in Actors /\ c # "apply" /\ c # "quit"
      /\ "apply" \in Actors /\ "quit" \in Actors
  BY DEF Actors
<1>1. CASE UNCHANGED processVars
  BY <1>1 DEF processVars, TypeOK, TaskQueued
<1>2. ASSUME NEW c \in Callers, Ask(c) \/ Wake(c) \/ Drained(c) \/ CheckPort(c) PROVE TypeInv'
  <2>1. /\ \E where \in Places : Goto(c, where)
        /\ UNCHANGED <<mine, settings, queue, queued, proc, child, overlap, stale, left, deaths>>
    BY <1>2, <1>p DEF Ask, Wake, Drained, CheckPort, OwnEnsure
  <2>2. at' \in [Actors -> Places] /\ TaskQueued'
    BY <1>t, <1>a, <2>1, GoesTyped DEF TypeOK, TaskQueued, Goto
  <2>3. with' \in [Actors -> Settings \cup {None}] /\ well' \subseteq Callers
    BY <1>2, <1>a DEF Ask, Wake, Drained, CheckPort, TypeOK
  <2>4. /\ memo' \in {None} \cup [by : Callers, with : Settings \cup {None}]
        /\ target' \in [Callers -> Nat]
    BY <1>2, <1>a DEF Ask, Wake, Drained, CheckPort, OwnEnsure, TypeOK
  <2>5. awaits' \in [Callers -> Callers \cup {None}]
    BY <1>2 DEF Ask, Wake, Drained, CheckPort, TypeOK
  <2> QED
    BY <2>1, <2>2, <2>3, <2>4, <2>5 DEF TypeOK
<1>3. ASSUME NEW a \in Callers \cup {"apply"}, Start(a) \/ Spawn(a) PROVE TypeInv'
  <2>1. /\ \E where \in Places : Goto(a, where)
        /\ at[a] # "idle"
        /\ UNCHANGED <<with, awaits, memo, settings, queue, queued, target, well, stale, left, deaths>>
        /\ overlap' \in BOOLEAN
    BY <1>3, <1>p DEF Start, Starts, Spawn, At, TypeOK
  <2>2. at' \in [Actors -> Places] /\ TaskQueued'
    BY <1>t, <1>a, <2>1, GoesTyped DEF TypeOK, TaskQueued, Goto
  <2>3. /\ mine' \in [Actors -> Procs \cup {None}] /\ child' \in Procs \cup {None}
        /\ proc' \in [Procs -> [state : States, with : Settings \cup {None}]]
    <3>1. CASE Start(a)
      BY <3>1 DEF Start, TypeOK
    <3>2. ASSUME NEW p \in Procs, child' = p, mine' = [mine EXCEPT ![a] = p],
                 proc' = [proc EXCEPT ![p] = [state |-> "starting", with |-> with[a]]]
          PROVE  <2>3!:
      <4>1. [state |-> "starting", with |-> with[a]] \in [state : States, with : Settings \cup {None}]
        BY <1>a DEF TypeOK, States
      <4> QED
        BY <3>2, <4>1 DEF TypeOK
    <3> QED
      BY <1>3, <3>1, <3>2 DEF Spawn
  <2> QED
    BY <2>1, <2>2, <2>3 DEF TypeOK
<1>4. ASSUME NEW a \in Callers \cup {"apply"}, Waited(a) \/ HealthSeen(a) PROVE TypeInv'
  <2>1. /\ UNCHANGED <<with, awaits, memo, settings, queued, target, proc, child>>
        /\ UNCHANGED <<well, overlap, stale, left, deaths>>
        /\ at[a] # "idle"
        /\ mine' \in [Actors -> Procs \cup {None}]
    BY <1>4, <1>a DEF Waited, HealthSeen, At, TypeOK
  <2>2. \/ Goto(a, "health") /\ UNCHANGED queue
        \/ a = "apply" /\ Goto(a, "idle") /\ queue' = Tail(queue)
        \/ a # "apply" /\ (Goto(a, "ok") \/ Goto(a, "failed")) /\ UNCHANGED queue
    BY <1>4 DEF Waited, HealthSeen, Ends
  <2>3. at' \in [Actors -> Places]
    BY <1>t, <1>a, <1>p, <2>2, GoesTyped DEF TypeOK
  <2>4. queue' \in Seq(Settings \cup {None}) /\ TaskQueued'
    <3>1. CASE a = "apply" /\ Goto(a, "idle") /\ queue' = Tail(queue)
      BY <1>t, <1>a, <2>1, <3>1, TailTyped DEF TaskQueued, TypeOK, Goto
    <3>2. CASE UNCHANGED queue
      BY <1>t, <1>a, <2>1, <2>2, <3>2 DEF TaskQueued, TypeOK, Goto
    <3> QED
      BY <2>2, <3>1, <3>2
  <2> QED
    BY <2>1, <2>3, <2>4 DEF TypeOK
<1>5. ASSUME NEW s \in (Settings \ {settings}) \cup {None}, Change(s) PROVE TypeInv'
  BY <1>t, <1>5, AppendTyped DEF Change, Queued, TypeOK, TaskQueued
<1>6. CASE Take
  <2>1. at' \in [Actors -> Places] /\ with' \in [Actors -> Settings \cup {None}]
    <3>1. CASE Goto("apply", "waitIdle") /\ with' = [with EXCEPT !["apply"] = settings]
      <4>1. at' \in [Actors -> Places]
        BY <1>a, <1>p, <3>1, GoesTyped DEF TypeOK
      <4> QED
        BY <1>a, <3>1, <4>1 DEF TypeOK
    <3>2. CASE UNCHANGED <<at, with>>
      BY <3>2 DEF TypeOK
    <3> QED
      BY <1>6, <3>1, <3>2 DEF Take
  <2>2. queue' \in Seq(Settings \cup {None}) /\ TaskQueued'
    BY <1>t, <1>6, <1>a, TailTyped DEF Take, At, TaskQueued, TypeOK, Goto
  <2> QED
    BY <1>6, <2>1, <2>2 DEF Take, TypeOK
<1>7. ASSUME NEW a \in {"apply", "quit"}, NEW after \in {"start", "exited"}, Stop(a, after),
             a = "apply" => queue # <<>>,
             UNCHANGED <<with, awaits, memo, settings, queue, queued, target, well, stale, left, deaths>>,
             overlap' \in BOOLEAN
      PROVE  TypeInv'
  <2>1. \E where \in Places : Goto(a, where)
    BY <1>7, <1>p DEF Stop
  <2>2. at' \in [Actors -> Places] /\ TaskQueued'
    BY <1>t, <1>a, <1>7, <2>1, GoesTyped DEF TypeOK, TaskQueued, Goto
  <2>3. /\ mine' \in [Actors -> Procs \cup {None}] /\ child' \in Procs \cup {None}
        /\ proc' \in [Procs -> [state : States, with : Settings \cup {None}]]
    <3>1. /\ mine' = mine \/ mine' = [mine EXCEPT ![a] = child]
          /\ child' = child
          /\ \/ proc' = proc
             \/ child \in Procs /\ proc' = [proc EXCEPT ![child].state = "ending"]
      <4>1. child \in Procs \cup {None}
        BY DEF TypeOK
      <4>2. CASE child = None
        BY <1>7, <4>2 DEF Stop
      <4>3. CASE child # None
        BY <1>7, <4>1, <4>3 DEF Stop, ChildStopping
      <4> QED
        BY <4>2, <4>3
    <3>2. "ending" \in States
      BY DEF States
    <3>3. proc' \in [Procs -> [state : States, with : Settings \cup {None}]]
      <4>1. CASE proc' = proc
        BY <4>1 DEF TypeOK
      <4>2. CASE child \in Procs /\ proc' = [proc EXCEPT ![child].state = "ending"]
        BY <1>t, <3>2, <4>2, MarkTyped
      <4> QED
        BY <3>1, <4>1, <4>2
    <3>4. mine' \in [Actors -> Procs \cup {None}] /\ child' \in Procs \cup {None}
      BY <1>a, <3>1 DEF TypeOK
    <3> QED
      BY <3>3, <3>4
  <2> QED
    BY <1>7, <2>2, <2>3 DEF TypeOK
<1>8. ASSUME NEW a \in {"apply", "quit"}, Stopped(a) PROVE TypeInv'
  <2>1. (\E where \in Places : Goto(a, where)) /\ at[a] # "idle"
    BY <1>8, <1>p DEF Stopped, AfterStop, At
  <2>2. at' \in [Actors -> Places] /\ TaskQueued'
    BY <1>t, <1>a, <1>8, <2>1, GoesTyped DEF TypeOK, TaskQueued, Goto, Stopped
  <2>3. left' \subseteq Procs
    BY <1>8 DEF Stopped, TypeOK
  <2>4. mine' \in [Actors -> Procs \cup {None}] /\ child' \in Procs \cup {None}
    BY <1>8, <1>a DEF Stopped, TypeOK
  <2> QED
    BY <1>8, <2>2, <2>3, <2>4 DEF Stopped, TypeOK
<1>9. ASSUME NEW p \in Procs, Ready(p) \/ End(p) \/ Die(p) PROVE TypeInv'
  <2>1. UNCHANGED <<at, with, mine, awaits, memo, settings, queue, queued, target, overlap, stale, left>>
    BY <1>9 DEF Ready, End, Die
  <2>2. /\ well' \subseteq Callers /\ deaths' \in Nat /\ child' \in Procs \cup {None}
        /\ proc' \in [Procs -> [state : States, with : Settings \cup {None}]]
    <3>1. \E s \in States : proc' = [proc EXCEPT ![p].state = s]
      BY <1>9 DEF Ready, End, Die, States
    <3>2. proc' \in [Procs -> [state : States, with : Settings \cup {None}]]
      BY <1>t, <3>1, MarkTyped
    <3>3. child' \in {child, None} /\ well' \subseteq Callers /\ deaths' \in Nat
      BY <1>9 DEF Ready, End, Die, Gone, TypeOK
    <3> QED
      BY <3>2, <3>3 DEF TypeOK
  <2> QED
    BY <2>1, <2>2 DEF TypeOK, TaskQueued
<1>10. CASE StopForSettings \/ Quit
  <2>1. CASE StopForSettings
    BY <2>1, <1>7 DEF StopForSettings, At, TaskQueued, TypeOK
  <2>2. CASE Quit
    BY <2>2, <1>7 DEF Quit, TypeOK
  <2> QED
    BY <1>10, <2>1, <2>2
<1> QED
  BY <1>1, <1>2, <1>3, <1>4, <1>5, <1>6, <1>8, <1>9, <1>10 DEF ProcessNext

LEMMA TypeAlways == ProcessSpec => []TypeInv
  BY TypeInvInit, TypeNext, PTL DEF ProcessSpec

\* KunProcess keeps every variable in the range the code gives it; that a task is taken
\* off a queue that has one needs that the one at work is in it.
THEOREM TypeCorrect == ProcessSpec => []TypeOK
<1>1. TypeInv => TypeOK
  BY DEF TypeInv
<1> QED
  BY <1>1, TypeAlways, PTL
-----------------------------------------------------------------------------
(* One child *)

\* What lives has been left by a stop.
NoneLives == \A p \in Procs : Live(p) => p \in left

\* What lives is the child, or has been left by a stop.
OnlyChild == \A p \in Procs : Live(p) => p = child \/ p \in left

\* Who is about to spawn is alone with it, and nothing else lives.
AloneStarting ==
  \A a \in Actors : at[a] = "config" =>
    /\ NoneLives
    /\ at["quit"] = "idle"
    /\ \A b \in Actors : at[b] = "config" => b = a

\* A quit waits for what lives, and nothing lives when it is over.
QuitWaits == at["quit"] = "stopping" => \A p \in Procs : Live(p) => p = mine["quit"] \/ p \in left
QuitEnds  == Exited => NoneLives

\* What a stop has left was told to end.
LeftEnding == \A p \in left : proc[p].state \in {"ending", "dead"}

ChildInv ==
  /\ TypeInv
  /\ LeftEnding
  /\ ~overlap => OnlyChild /\ AloneStarting /\ QuitWaits /\ QuitEnds

LEMMA ChildInit == ProcessInit => ChildInv
  BY TypeInvInit, ProcessAssumption
     DEF ProcessInit, ChildInv, OnlyChild, AloneStarting, QuitWaits, QuitEnds, NoneLives, LeftEnding,
         Live, NoProc,
         Exited, Actors

LEMMA ChildNext == ChildInv /\ [ProcessNext]_processVars => ChildInv'
<1> SUFFICES ASSUME ChildInv, [ProcessNext]_processVars PROVE ChildInv'
  OBVIOUS
<1> USE ProcessAssumption DEF ProcessAssumption, OnlyChild, AloneStarting, QuitWaits, QuitEnds, NoneLives, LeftEnding
<1>t. /\ TypeInv' /\ TypeInv /\ TypeOK
      /\ at \in [Actors -> Places] /\ mine \in [Actors -> Procs \cup {None}]
  BY TypeNext DEF ChildInv, TypeInv, TypeOK
<1>a. /\ \A c \in Callers : c \in Actors /\ c # "apply" /\ c # "quit"
      /\ "apply" \in Actors /\ "quit" \in Actors
      /\ None \notin Procs
  BY DEF Actors, Procs
\* Some step other than a spawn, a stop or its end, of an actor that is not the quit.
<1>m. ASSUME NEW a \in Actors, a # "quit", NEW where \in Places \ {"config"}, Goto(a, where),
             proc' = proc, child' = child, left' = left, mine'["quit"] = mine["quit"], overlap => overlap'
      PROVE  ChildInv'
  BY <1>t, <1>a, <1>m DEF ChildInv, Goto, Live, Exited
<1>1. CASE UNCHANGED processVars
  BY <1>t, <1>1 DEF processVars, ChildInv, Live, Exited
<1>2. ASSUME NEW c \in Callers, Ask(c) \/ Wake(c) \/ Drained(c) \/ CheckPort(c) PROVE ChildInv'
  <2>1. /\ \E where \in {"pending", "drain", "ok", "port", "start", "failed"} : Goto(c, where)
        /\ UNCHANGED <<proc, child, mine, left, overlap>>
    BY <1>2 DEF Ask, Wake, Drained, CheckPort, OwnEnsure
  <2> QED
    BY <1>a, <1>m, <2>1 DEF Places
<1>3. ASSUME NEW a \in Callers \cup {"apply"}, Start(a) PROVE ChildInv'
  <2>1. /\ UNCHANGED <<proc, child, mine, left>>
        /\ ~overlap' => /\ ~overlap /\ at["quit"] = "idle"
                        /\ \A b \in Actors : at[b] # "config"
        /\ Goto(a, IF Running THEN "health" ELSE "config")
    BY <1>3 DEF Start, Starts
  <2>2. CASE Running
    BY <1>a, <1>m, <2>1, <2>2 DEF Places
  <2>3. CASE ~Running
    <3>1. ~overlap' => NoneLives
      BY <1>a, <2>1, <2>3 DEF ChildInv, Running
    <3> QED
      BY <1>t, <1>a, <2>1, <2>3, <3>1 DEF ChildInv, Goto, Live, Exited
  <2> QED
    BY <2>2, <2>3
<1>4. ASSUME NEW a \in Callers \cup {"apply"}, Spawn(a) PROVE ChildInv'
  <2>1. PICK p \in Procs : /\ proc' = [proc EXCEPT ![p] = [state |-> "starting", with |-> with[a]]]
                           /\ child' = p /\ proc[p].state = "none"
    BY <1>4 DEF Spawn
  <2>2. /\ at[a] = "config" /\ overlap' = overlap /\ left' = left
        /\ at'["quit"] = at["quit"]
        /\ \A b \in Actors : at'[b] = IF b = a THEN "wait" ELSE at[b]
    BY <1>4, <1>t, <1>a DEF Spawn, At, Goto
  <2>3. \A q \in Procs : q # p => proc'[q] = proc[q]
    BY <1>t, <2>1 DEF TypeOK
  <2>4. ~overlap => /\ \A q \in Procs : Live(q) => q \in left
                    /\ \A b \in Actors : at'[b] # "config"
                    /\ at'["quit"] = "idle"
    BY <1>a, <2>2 DEF ChildInv
  <2>5. ~overlap => \A q \in Procs : Live(q)' => q = child' \/ q \in left'
    BY <2>1, <2>2, <2>3, <2>4 DEF Live
  <2>6. LeftEnding'
    BY <1>t, <2>1, <2>2, <2>3 DEF ChildInv, TypeOK
  <2> QED
    BY <1>t, <2>2, <2>4, <2>5, <2>6 DEF ChildInv, Exited
<1>5. ASSUME NEW a \in Callers \cup {"apply"}, Waited(a) \/ HealthSeen(a) PROVE ChildInv'
  <2>1. /\ \E where \in {"health", "idle", "ok", "failed"} : Goto(a, where)
        /\ UNCHANGED <<proc, child, left, overlap>>
        /\ mine' \in {mine, [mine EXCEPT ![a] = None]}
    BY <1>5 DEF Waited, HealthSeen, Ends
  <2>2. mine'["quit"] = mine["quit"]
    BY <1>t, <1>a, <2>1
  <2> QED
    BY <1>a, <1>m, <2>1, <2>2 DEF Places
<1>6. ASSUME NEW s \in (Settings \ {settings}) \cup {None}, Change(s) PROVE ChildInv'
  BY <1>t, <1>6 DEF Change, ChildInv, Live, Exited
<1>7. CASE Take
  <2>1. CASE Goto("apply", "waitIdle")
    BY <1>a, <1>m, <1>7, <2>1 DEF Take, Places
  <2>2. CASE at' = at
    BY <1>t, <1>7, <2>2 DEF Take, ChildInv, Live, Exited
  <2> QED
    BY <1>7, <2>1, <2>2 DEF Take
\* A process that is told to end still lives.
<1>s. ASSUME NEW a \in {"apply", "quit"}, NEW after \in {"start", "exited"}, Stop(a, after)
      PROVE  /\ \A p \in Procs : Live(p)' = Live(p)
             /\ \A p \in Procs : proc[p].state \in {"ending", "dead"} => proc'[p].state = proc[p].state
             /\ child' = child
             /\ IF child = None THEN Goto(a, after) /\ mine' = mine
                ELSE Goto(a, "stopping") /\ mine' = [mine EXCEPT ![a] = child]
  <2>1. CASE child = None
    BY <1>s, <2>1 DEF Stop, Live
  <2>2. CASE child # None /\ Live(child)
    <3>1. child \in Procs /\ "ending" \in States
      BY <1>t, <2>2 DEF TypeOK, States
    <3>2. proc'[child].state = "ending" /\ \A q \in Procs : q # child => proc'[q].state = proc[q].state
      BY <1>s, <1>t, <2>2, <3>1, MarkTyped DEF Stop
    <3> QED
      BY <1>s, <2>2, <3>1, <3>2 DEF Stop, ChildStopping, Live
  <2>3. CASE child # None /\ ~Live(child)
    BY <1>s, <2>3 DEF Stop, ChildStopping, Live
  <2> QED
    BY <2>1, <2>2, <2>3
<1>8. CASE StopForSettings
  <2>1. Stop("apply", "start") /\ overlap' = overlap
    BY <1>8 DEF StopForSettings
  <2>2. /\ \A p \in Procs : Live(p)' = Live(p)
        /\ \A p \in Procs : proc[p].state \in {"ending", "dead"} => proc'[p].state = proc[p].state
        /\ child' = child
        /\ Goto("apply", "start") \/ Goto("apply", "stopping")
        /\ mine'["quit"] = mine["quit"]
    BY <1>s, <1>t, <1>a, <2>1
  <2>3. at'["quit"] = at["quit"] /\ \A b \in Actors : at'[b] = "config" => at[b] = "config"
    BY <1>t, <1>a, <2>2 DEF Goto
  <2> QED
    BY <1>t, <1>8, <2>1, <2>2, <2>3 DEF StopForSettings, ChildInv, Exited, TypeOK
<1>9. CASE Quit
  <2>1. Stop("quit", "exited") /\ (~overlap' => ~overlap /\ \A b \in Actors : at[b] # "config")
    BY <1>9 DEF Quit
  <2>2. /\ \A p \in Procs : Live(p)' = Live(p)
        /\ \A p \in Procs : proc[p].state \in {"ending", "dead"} => proc'[p].state = proc[p].state
        /\ child' = child
        /\ \/ child = None /\ at' = [at EXCEPT !["quit"] = "exited"]
           \/ at' = [at EXCEPT !["quit"] = "stopping"] /\ mine' = [mine EXCEPT !["quit"] = child]
    BY <1>s, <2>1 DEF Goto
  <2>3. ~overlap' => /\ \A b \in Actors : at'[b] # "config"
                     /\ at'["quit"] = "stopping" => mine'["quit"] = child
                     /\ at'["quit"] = "exited" => child = None
    BY <1>t, <1>a, <2>1, <2>2
  <2>4. left' = left /\ LeftEnding'
    BY <1>t, <1>9, <2>2 DEF Quit, ChildInv, TypeOK
  <2> QED
    BY <1>t, <1>a, <2>1, <2>2, <2>3, <2>4 DEF ChildInv, Exited
<1>10. ASSUME NEW a \in {"apply", "quit"}, Stopped(a) PROVE ChildInv'
  <2>1. /\ at[a] = "stopping" /\ at' = [at EXCEPT ![a] = AfterStop(a)]
        /\ child' = IF child = mine[a] THEN None ELSE child
        /\ mine' = [mine EXCEPT ![a] = None]
        /\ left' = left \cup {p \in Procs : p = mine[a] /\ proc[p].state = "ending"}
        /\ proc[mine[a]].state \in {"ending", "dead"}
        /\ UNCHANGED <<proc, overlap>>
    BY <1>10 DEF Stopped, At, Goto
  <2>2. /\ \A p \in Procs : Live(p)' = Live(p)
        /\ \A p \in Procs : p = mine[a] /\ Live(p) => p \in left'
        /\ left \subseteq left'
        /\ LeftEnding'
    BY <2>1 DEF Live, ChildInv
  <2>3. ~overlap => OnlyChild'
    BY <2>1, <2>2 DEF ChildInv
  <2>4. CASE a = "apply"
    <3>1. /\ at'["quit"] = at["quit"] /\ mine'["quit"] = mine["quit"]
          /\ \A b \in Actors : at'[b] = "config" => at[b] = "config"
      BY <1>t, <1>a, <2>1, <2>4 DEF AfterStop
    <3> QED
      BY <1>t, <2>1, <2>2, <2>3, <3>1 DEF ChildInv, Exited
  <2>5. CASE a = "quit"
    <3>1. /\ at'["quit"] = "exited"
          /\ \A b \in Actors : at'[b] = "config" => at[b] = "config"
      BY <1>t, <1>a, <2>1, <2>5 DEF AfterStop
    <3>2. ~overlap => NoneLives'
      BY <2>1, <2>2, <2>5 DEF ChildInv
    <3>3. ~overlap => \A b \in Actors : at[b] # "config"
      BY <2>1, <2>5 DEF ChildInv
    <3> QED
      BY <1>t, <2>1, <2>3, <3>1, <3>2, <3>3 DEF ChildInv, Exited
  <2> QED
    BY <2>4, <2>5
<1>11. ASSUME NEW p \in Procs, Ready(p) \/ End(p) \/ Die(p) PROVE ChildInv'
  <2>1. UNCHANGED <<at, mine, overlap>>
    BY <1>11 DEF Ready, End, Die
  <2>2. PICK s \in {"dead", "ready"} : /\ proc' = [proc EXCEPT ![p].state = s]
                                       /\ s = "dead" => child' = IF child = p THEN None ELSE child
                                       /\ s = "ready" => child' = child
    BY <1>11 DEF Ready, End, Die, Gone
  <2>3. Live(p)
    BY <1>11 DEF Ready, End, Die, Live
  <2>4. left' = left /\ proc[p].state \in {"starting", "ready", "ending"}
    BY <1>11 DEF Ready, End, Die
  <2>5. p \in left => s = "dead"
    BY <1>11, <1>t, <2>2 DEF Ready, End, Die, ChildInv, TypeOK
  <2>6. proc'[p].state = s /\ \A q \in Procs : q # p => proc'[q].state = proc[q].state
    BY <1>t, <2>2, MarkTyped DEF States
  <2>7. /\ \A q \in Procs : Live(q)' => Live(q)
        /\ s = "dead" => ~Live(p)'
    BY <2>3, <2>6 DEF Live
  <2>8. OnlyChild => OnlyChild'
    BY <2>2, <2>7, <2>4
  <2>9. LeftEnding'
    BY <1>t, <2>6, <2>4, <2>5 DEF ChildInv, TypeOK
  <2> QED
    BY <1>t, <2>1, <2>7, <2>8, <2>4, <2>9 DEF ChildInv, Exited
<1> QED
  BY <1>1, <1>2, <1>3, <1>4, <1>5, <1>6, <1>7, <1>8, <1>9, <1>10, <1>11 DEF ProcessNext

\* Every process that lives is the child, which a quit ends, or one that was told to end
\* and had not when the stop gave up - unless two starts ran at once, or the application
\* quit during one.
THEOREM ChildAlone == ProcessSpec => []OneChild
<1>1. ChildInv => OneChild
  BY DEF ChildInv, OneChild, OnlyChild, QuitEnds, NoneLives, LeftEnding, Live
<1> QED
  BY ChildInit, ChildNext, <1>1, PTL DEF ProcessSpec

-----------------------------------------------------------------------------
(* The settings *)

\* A caller that is yet to spawn has the settings of now.
CallersFresh == ~stale => \A c \in Callers : at[c] \in BeforeSpawn => with[c] = settings

\* A later task knows other settings than those of now: it restarts the child.
RestartsLater == \E i \in DOMAIN queue \ {1} : queue[i] # settings

\* The task at work goes with the settings of now, or another restarts after it.
TaskFresh == at["apply"] # "idle" => with["apply"] = settings \/ RestartsLater

\* The task at work has done its stop: it starts a child for this task, and no more.
Restarting == at["apply"] \in {"stopping", "start", "config", "wait", "health"}

\* A child that runs has the settings of now, or a task is there to restart it.
ChildFresh ==
  ~stale /\ Running /\ proc[child].state # "ending" =>
    \/ proc[child].with = settings
    \/ RestartsLater
    \/ ~Restarting /\ queue # <<>> /\ Head(queue) # settings

SettingsInv == TypeInv /\ CallersFresh /\ TaskFresh /\ ChildFresh

LEMMA SettingsInit == ProcessInit => SettingsInv
  BY TypeInvInit, ProcessAssumption
     DEF ProcessInit, SettingsInv, CallersFresh, TaskFresh, ChildFresh, Running, BeforeSpawn, Actors

LEMMA TailKeeps ==
  ASSUME TypeOK, queue # <<>>, RestartsLater, queue' = Tail(queue), settings' = settings
  PROVE  RestartsLater' \/ (queue' # <<>> /\ Head(queue') # settings')
<1>1. PICK i \in DOMAIN queue \ {1} : queue[i] # settings
  BY DEF RestartsLater
<1>2. /\ i - 1 \in DOMAIN queue' /\ queue'[i - 1] # settings'
      /\ queue' \in Seq(Settings \cup {None})
  BY <1>1, TailTyped
<1>3. queue' # <<>> /\ (i - 1 = 1 => Head(queue') # settings')
  BY <1>2
<1> QED
  BY <1>2, <1>3 DEF RestartsLater

LEMMA SettingsNext == SettingsInv /\ [ProcessNext]_processVars => SettingsInv'
<1> SUFFICES ASSUME SettingsInv, [ProcessNext]_processVars PROVE SettingsInv'
  OBVIOUS
<1> USE ProcessAssumption DEF ProcessAssumption, SettingsInv, CallersFresh, TaskFresh, ChildFresh
<1>t. /\ TypeInv' /\ TypeInv /\ TypeOK /\ TaskQueued
      /\ at \in [Actors -> Places] /\ with \in [Actors -> Settings \cup {None}]
      /\ queue \in Seq(Settings \cup {None})
  BY TypeNext DEF TypeInv, TypeOK
<1>a. /\ \A c \in Callers : c \in Actors /\ c # "apply" /\ c # "quit"
      /\ "apply" \in Actors /\ "quit" \in Actors
      /\ None \notin Procs
  BY DEF Actors, Procs
\* What leaves the tasks, the settings and the children alone.
<1>m. ASSUME NEW a \in Callers \cup {"apply"}, a = "apply" => at[a] # "idle",
             NEW where \in Places, Goto(a, where),
             a = "apply" => (where \in {"stopping", "start", "config", "wait", "health"} <=> Restarting),
             where \in BeforeSpawn => at[a] \in BeforeSpawn,
             UNCHANGED <<with, settings, queue, proc, child, stale>>
      PROVE  SettingsInv'
  <2>1. at'["apply"] # "idle" => at["apply"] # "idle"
    BY <1>t, <1>a, <1>m DEF Goto
  <2>2. Restarting' = Restarting
    BY <1>t, <1>a, <1>m DEF Goto, Restarting
  <2>3. \A c \in Callers : at'[c] \in BeforeSpawn => at[c] \in BeforeSpawn
    BY <1>t, <1>a, <1>m DEF Goto
  <2>4. RestartsLater' = RestartsLater /\ Running' = Running /\ BeforeSpawn' = BeforeSpawn
    BY <1>m DEF RestartsLater, Running, Live, BeforeSpawn
  <2> QED
    BY <1>t, <1>m, <2>1, <2>2, <2>3, <2>4
<1>2. ASSUME NEW c \in Callers, Ask(c) PROVE SettingsInv'
  <2>1. /\ with' = [with EXCEPT ![c] = settings]
        /\ \E where \in {"drain", "pending"} : at' = [at EXCEPT ![c] = where]
        /\ UNCHANGED <<settings, queue, proc, child, stale>>
    BY <1>2 DEF Ask, OwnEnsure, Goto
  <2>2. /\ at'["apply"] = at["apply"] /\ with'["apply"] = with["apply"] /\ with'[c] = settings
        /\ \A d \in Callers \ {c} : at'[d] = at[d] /\ with'[d] = with[d]
    BY <1>t, <1>a, <2>1
  <2>3. RestartsLater' = RestartsLater /\ Running' = Running /\ Restarting' = Restarting
    BY <2>1, <2>2 DEF RestartsLater, Running, Live, Restarting
  <2> QED
    BY <1>t, <2>1, <2>2, <2>3 DEF BeforeSpawn
<1>3. ASSUME NEW c \in Callers, Wake(c) \/ Drained(c) \/ CheckPort(c) PROVE SettingsInv'
  <2>1. /\ \E where \in {"drain", "ok", "port", "start", "failed"} : Goto(c, where)
        /\ at[c] \in BeforeSpawn
        /\ UNCHANGED <<with, settings, queue, proc, child, stale>>
    BY <1>3 DEF Wake, Drained, CheckPort, OwnEnsure, At, BeforeSpawn
  <2> QED
    BY <1>a, <1>m, <2>1 DEF Places
<1>4. ASSUME NEW a \in Callers \cup {"apply"}, Start(a) PROVE SettingsInv'
  <2>1. /\ \E where \in {"health", "config"} : Goto(a, where)
        /\ at[a] = "start"
        /\ UNCHANGED <<with, settings, queue, proc, child, stale>>
    BY <1>4 DEF Start, Starts, At
  <2> QED
    BY <1>a, <1>m, <2>1 DEF Places, BeforeSpawn, Restarting
<1>5. ASSUME NEW a \in Callers \cup {"apply"}, Spawn(a) PROVE SettingsInv'
  <2>1. PICK p \in Procs : /\ proc' = [proc EXCEPT ![p] = [state |-> "starting", with |-> with[a]]]
                           /\ child' = p
    BY <1>5 DEF Spawn
  <2>2. /\ at[a] = "config" /\ at' = [at EXCEPT ![a] = "wait"]
        /\ UNCHANGED <<with, settings, queue, stale>>
    BY <1>5 DEF Spawn, At, Goto
  <2>3. \A b \in Actors : at'[b] = IF b = a THEN "wait" ELSE at[b]
    BY <1>t, <1>a, <2>2
  <2>4. RestartsLater' = RestartsLater
    BY <2>2 DEF RestartsLater
  <2>5. proc'[child'].with = with[a]
    BY <1>t, <2>1 DEF TypeOK
  <2>6. ~stale => with[a] = settings \/ RestartsLater
    BY <1>a, <2>2 DEF BeforeSpawn
  <2>7. CallersFresh' /\ TaskFresh'
    BY <1>t, <1>a, <2>2, <2>3, <2>4 DEF BeforeSpawn
  <2> QED
    BY <1>t, <2>2, <2>4, <2>5, <2>6, <2>7
\* The task ends: the one after it is the first.
<1>e. ASSUME at["apply"] \in {"wait", "health"}, at' = [at EXCEPT !["apply"] = "idle"],
             queue' = Tail(queue), UNCHANGED <<with, settings, proc, child, stale>>
      PROVE  SettingsInv'
  <2>1. at'["apply"] = "idle" /\ \A c \in Callers : at'[c] = at[c]
    BY <1>t, <1>a, <1>e
  <2>2. Restarting /\ ~Restarting' /\ Running' = Running /\ queue # <<>>
    BY <1>t, <1>e, <2>1 DEF Restarting, Running, Live, TaskQueued
  <2>3. RestartsLater => RestartsLater' \/ (queue' # <<>> /\ Head(queue') # settings')
    BY <1>t, <1>e, <2>2, TailKeeps
  <2> QED
    BY <1>t, <1>e, <2>1, <2>2, <2>3 DEF BeforeSpawn
<1>6. ASSUME NEW a \in Callers \cup {"apply"}, Waited(a) \/ HealthSeen(a) PROVE SettingsInv'
  <2>1. /\ at[a] \in {"wait", "health"}
        /\ UNCHANGED <<with, settings, proc, child, stale>>
        /\ \/ Goto(a, "health") /\ UNCHANGED queue
           \/ a # "apply" /\ (Goto(a, "ok") \/ Goto(a, "failed")) /\ UNCHANGED queue
           \/ a = "apply" /\ Goto(a, "idle") /\ queue' = Tail(queue)
    BY <1>6 DEF Waited, HealthSeen, Ends, At
  <2>2. CASE a = "apply" /\ Goto(a, "idle") /\ queue' = Tail(queue)
    BY <1>e, <2>1, <2>2 DEF Goto
  <2>3. CASE UNCHANGED queue /\ Goto(a, "health")
    BY <1>a, <1>m, <2>1, <2>3 DEF Places, BeforeSpawn, Restarting
  <2>4. CASE UNCHANGED queue /\ a # "apply" /\ (Goto(a, "ok") \/ Goto(a, "failed"))
    BY <1>a, <1>m, <2>1, <2>4 DEF Places, BeforeSpawn
  <2> QED
    BY <2>1, <2>2, <2>3, <2>4
<1>7. ASSUME NEW s \in (Settings \ {settings}) \cup {None}, Change(s) PROVE SettingsInv'
  <2> DEFINE before == IF s = None THEN None ELSE settings
  <2>1. /\ queue' = Append(queue, before) /\ before \in Settings \cup {None} /\ before # settings'
        /\ UNCHANGED <<at, with, proc, child>>
        /\ ~stale' => ~stale /\ \A c \in Callers : at[c] \notin BeforeSpawn
    BY <1>7, <1>t DEF Change, Queued, TypeOK
  <2> HIDE DEF before
  <2>2. /\ queue' \in Seq(Settings \cup {None}) /\ queue' # <<>>
        /\ Len(queue) + 1 \in DOMAIN queue' /\ queue'[Len(queue) + 1] # settings'
    BY <1>t, <2>1, AppendTyped
  <2>3. CASE queue = <<>>
    <3>1. Head(queue') # settings' /\ ~Restarting' /\ at'["apply"] = "idle"
      BY <1>t, <2>1, <2>2, <2>3 DEF TaskQueued, Restarting
    <3> QED
      BY <1>t, <2>1, <2>2, <3>1
  <2>4. CASE queue # <<>>
    <3>1. Len(queue) + 1 # 1
      BY <1>t, <2>4
    <3>2. RestartsLater'
      BY <2>2, <3>1 DEF RestartsLater
    <3> QED
      BY <1>t, <2>1, <3>2
  <2> QED
    BY <2>3, <2>4
<1>8. CASE Take
  <2>1. /\ at["apply"] = "idle" /\ queue # <<>> /\ ~Restarting
        /\ UNCHANGED <<settings, proc, child, stale>>
    BY <1>8 DEF Take, At, Restarting
  <2>2. CASE /\ at' = [at EXCEPT !["apply"] = "waitIdle"] /\ UNCHANGED queue
             /\ with' = [with EXCEPT !["apply"] = settings]
    <3>1. /\ at'["apply"] = "waitIdle" /\ with'["apply"] = settings
          /\ \A c \in Callers : at'[c] = at[c] /\ with'[c] = with[c]
      BY <1>t, <1>a, <2>2
    <3>2. ~Restarting' /\ RestartsLater' = RestartsLater /\ Running' = Running
      BY <2>1, <2>2, <3>1 DEF Restarting, RestartsLater, Running, Live
    <3> QED
      BY <1>t, <2>1, <2>2, <3>1, <3>2 DEF BeforeSpawn
  <2>3. CASE /\ Head(queue) = settings \/ ~Running
             /\ queue' = Tail(queue) /\ UNCHANGED <<at, with>>
    <3>1. RestartsLater => RestartsLater' \/ (queue' # <<>> /\ Head(queue') # settings')
      BY <1>t, <2>1, <2>3, TailKeeps
    <3>2. Restarting' = Restarting /\ Running' = Running
      BY <2>1, <2>3 DEF Restarting, Running, Live
    <3> QED
      BY <1>t, <2>1, <2>3, <3>1, <3>2 DEF BeforeSpawn
  <2> QED
    BY <1>8, <2>2, <2>3 DEF Take, Goto
\* What is told to end has ended or is ending.
<1>s. ASSUME NEW a \in {"apply", "quit"}, NEW after \in {"start", "exited"}, Stop(a, after),
             UNCHANGED <<with, settings, queue, stale>>,
             a = "apply" => at[a] = "waitIdle" /\ after = "start",
             a = "quit" => after = "exited"
      PROVE  SettingsInv'
  <2>1. /\ \E where \in {after, "stopping"} : at' = [at EXCEPT ![a] = where]
        /\ child' = child
    BY <1>s DEF Stop, ChildStopping, Goto
  <2>2. /\ at'["apply"] # "idle" => at["apply"] # "idle"
        /\ \A c \in Callers : at'[c] = at[c]
    BY <1>t, <1>a, <1>s, <2>1
  <2>3. RestartsLater' = RestartsLater
    BY <1>s DEF RestartsLater
  <2>4. ~(Running /\ proc[child].state # "ending")'
    <3>1. CASE child = None \/ ~Live(child)
      BY <1>s, <2>1, <3>1 DEF Stop, Running, Live
    <3>2. CASE child # None /\ Live(child)
      <4>1. child \in Procs /\ "ending" \in States
        BY <1>t, <3>2 DEF TypeOK, States
      <4>2. proc'[child].state = "ending"
        BY <1>s, <1>t, <3>2, <4>1, MarkTyped DEF Stop
      <4> QED
        BY <2>1, <4>2
    <3> QED
      BY <3>1, <3>2
  <2> QED
    BY <1>t, <1>s, <2>2, <2>3, <2>4 DEF BeforeSpawn
<1>9. CASE StopForSettings
  BY <1>s, <1>9 DEF StopForSettings, At
<1>10. CASE Quit
  BY <1>s, <1>10 DEF Quit
<1>11. ASSUME NEW a \in {"apply", "quit"}, Stopped(a) PROVE SettingsInv'
  <2>1. /\ at[a] = "stopping" /\ at' = [at EXCEPT ![a] = AfterStop(a)]
        /\ child' \in {child, None}
        /\ UNCHANGED <<with, settings, queue, proc, stale>>
    BY <1>11 DEF Stopped, At, Goto
  <2>2. /\ at'["apply"] # "idle" => at["apply"] # "idle"
        /\ Restarting' = Restarting
        /\ \A c \in Callers : at'[c] = at[c]
    BY <1>t, <1>a, <2>1 DEF Restarting, AfterStop
  <2>3. RestartsLater' = RestartsLater /\ (Running' => Running /\ child' = child)
    BY <2>1 DEF RestartsLater, Running, Live
  <2> QED
    BY <1>t, <2>1, <2>2, <2>3 DEF BeforeSpawn
<1>12. ASSUME NEW p \in Procs, Ready(p) \/ End(p) \/ Die(p) PROVE SettingsInv'
  <2>1. UNCHANGED <<at, with, settings, queue, stale>>
    BY <1>12 DEF Ready, End, Die
  <2>2. /\ \E s \in {"dead", "ready"} : proc' = [proc EXCEPT ![p].state = s]
        /\ child' \in {child, None}
    BY <1>12 DEF Ready, End, Die, Gone
  <2>3. /\ \A q \in Procs : proc'[q].with = proc[q].with /\ (q # p => proc'[q].state = proc[q].state)
        /\ proc'[p].state \in {"dead", "ready"}
    BY <1>t, <2>2, MarkTyped DEF States
  <2>4. (Running /\ proc[child].state # "ending")' =>
          Running /\ proc[child].state # "ending" /\ child' = child
    <3>1. proc[p].state = "ending" => proc'[p].state # "ready"
      BY <1>12, <1>t, <2>2, MarkTyped DEF Ready, End, Die, States, TypeOK
    <3> QED
      BY <1>12, <1>t, <2>2, <2>3, <3>1 DEF Running, Live, TypeOK, Ready, End, Die
  <2>5. RestartsLater' = RestartsLater /\ Restarting' = Restarting
    BY <2>1 DEF RestartsLater, Restarting
  <2>6. child \in Procs => proc'[child].with = proc[child].with
    BY <2>3
  <2> QED
    BY <1>t, <2>1, <2>4, <2>5, <2>6 DEF BeforeSpawn, TypeOK, Running
<1>13. CASE UNCHANGED processVars
  BY <1>t, <1>13 DEF processVars, RestartsLater, Restarting, Running, Live, BeforeSpawn
<1> QED
  BY <1>2, <1>3, <1>4, <1>5, <1>6, <1>7, <1>8, <1>9, <1>10, <1>11, <1>12, <1>13 DEF ProcessNext

\* When all is quiet, a child that runs has the settings last saved - unless they were
\* saved while an ensure that had read the old ones was yet to start it.
THEOREM SettingsReach == ProcessSpec => []SettingsTaken
<1>1. SettingsInv => SettingsTaken
  <2> SUFFICES ASSUME SettingsInv, queue = <<>> PROVE SettingsTaken
    BY DEF SettingsTaken
  <2>1. ~RestartsLater
    BY DEF RestartsLater
  <2> QED
    BY <2>1 DEF SettingsInv, ChildFresh, SettingsTaken
<1> QED
  BY SettingsInit, SettingsNext, <1>1, PTL DEF ProcessSpec
=============================================================================
