----------------------- MODULE FileMutationLockProofs -----------------------
(***************************************************************************)
(* FileMutationLock, proved for any calls and processes: the variables     *)
(* keep their types, the calls of a process take turns in their order, a   *)
(* lock is left only by the dead and by an rm that failed, and the calls   *)
(* that know the file by one key write one at a time until a lock is       *)
(* removed that is not the one found dead.                                 *)
(*                                                                         *)
(* ChatStore, proved for any threads, messages, operations and streams:    *)
(* the variables keep their types, a message runs in the thread it was     *)
(* typed in, a thread has one turn at a time, and text is shown once and   *)
(* in order, with the exceptions that the three properties name.           *)
(*                                                                         *)
(* Checkpoints, proved for any files, contents, checkpoints, restores and  *)
(* forks: the variables keep their types, and a restore or fork that       *)
(* nothing got in the way of gives back the index and the files.           *)
(***************************************************************************)
EXTENDS FileMutationLock, ChatStore, Checkpoints, WellFoundedInduction, SequenceTheorems,
        FiniteSetTheorems, TLAPS

LEMMA TypeInit == Init => TypeOK
  BY LockAssumption DEF Init, TypeOK, Keys

LEMMA TypeStep == TypeOK /\ [Next]_vars => TypeOK'
<1> SUFFICES ASSUME TypeOK, [Next]_vars PROVE TypeOK'
  OBVIOUS
<1> USE LockAssumption DEF TypeOK, queueVars, lockVars, raceVars
<1>1. CASE UNCHANGED vars
  BY <1>1 DEF vars
<1>2. ASSUME NEW c \in Calls, QueueStep(c) PROVE TypeOK'
  <2>1. CASE Register(c)
    <3>1. KeyOf(c) \in Keys
      BY DEF KeyOf, Keys
    <3>2. {d \in Calls : pc[d] # "idle" /\ ProcOf[d] = ProcOf[c] /\ key[d] = KeyOf(c)} \in SUBSET Calls
      OBVIOUS
    <3> HIDE DEF KeyOf
    <3> QED
      BY <2>1, <3>1, <3>2 DEF Register, At, Go
  <2>2. CASE Enter(c)
    BY <2>2 DEF Enter, At, Go
  <2>3. CASE Leave(c)
    BY <2>3 DEF Leave, At, Go
  <2> QED
    BY <1>2, <2>1, <2>2, <2>3 DEF QueueStep
<1>3. ASSUME NEW c \in Calls, LockStep(c) PROVE TypeOK'
  <2>k. key[c] \in Keys /\ ProcOf[c] \in Procs
    OBVIOUS
  <2>1. pc' = pc \/ \E to \in {"making", "naming", "checking", "stating", "removing", "waiting", "running",
                              "releasing", "leaving"} : pc' = [pc EXCEPT ![c] = to]
    BY <1>3 DEF LockStep, Make, Name, ReadOwner, Stat, Condemn, Remove, Poll, GiveUp, Create, Finish,
                Release, Go
  <2>2. pc' \in [Calls -> {"idle", "queued", "making", "naming", "checking", "stating", "removing",
                           "waiting", "running", "releasing", "leaving", "done", "dead"}]
    BY <2>1
  <2>3. UNCHANGED <<alive, key, previous, tail, before>> /\ exists' \in BOOLEAN
    BY <1>3 DEF LockStep, Make, Name, ReadOwner, Stat, Remove, Poll, GiveUp, Create, Finish, Release
  <2>4. made' \in [Keys -> Calls \union {None}]
    BY <1>3, <2>k DEF LockStep, Make, Name, ReadOwner, Stat, Remove, Poll, GiveUp, Create, Finish,
                      Release, GiveBack, RemoveLock, FailRemoval
  <2>5. owner' \in [Keys -> Procs \union {None}] /\ old' \in [Keys -> BOOLEAN]
    BY <1>3, <2>k DEF LockStep, Make, Name, ReadOwner, Stat, Remove, Poll, GiveUp, Create, Finish,
                      Release, GiveBack, RemoveLock, FailRemoval
  <2>6. seen' \in [Calls -> Calls \union {None}]
    <3>1. made[key[c]] \in Calls \union {None}
      BY <2>k
    <3>2. seen' = seen \/ \E d \in Calls \union {None} : seen' = [seen EXCEPT ![c] = d]
      BY <1>3, <3>1 DEF LockStep, Make, Name, ReadOwner, Stat, Condemn, Remove, Poll, GiveUp, Create,
                        Finish, Release, GiveBack
    <3> QED
      BY <3>2
  <2>7. raced' \subseteq Keys /\ kept' \subseteq Calls
    BY <1>3, <2>k DEF LockStep, Make, Name, ReadOwner, Stat, Condemn, Remove, Poll, GiveUp, Create,
                      Finish, Release, GiveBack
  <2> QED
    BY <2>2, <2>3, <2>4, <2>5, <2>6, <2>7
<1>4. ASSUME NEW p \in Procs, Crash(p) PROVE TypeOK'
  BY <1>4 DEF Crash
<1>5. ASSUME NEW k \in Keys, Age(k) PROVE TypeOK'
  BY <1>5 DEF Age
<1> QED
  BY <1>1, <1>2, <1>3, <1>4, <1>5 DEF Next

\* FileMutationLock keeps every variable in the range the code gives it.
THEOREM TypeCorrect == Spec => []TypeOK
  BY TypeInit, TypeStep, PTL DEF Spec

-----------------------------------------------------------------------------
(* The queues. *)

\* Who came before a call is of its process and knows the file by its key.
Alike ==
  \A c \in Calls : \A d \in before[c] :
    pc[c] # "idle" /\ pc[d] # "idle" /\ ProcOf[d] = ProcOf[c] /\ key[d] = key[c]

\* A call waits for all who came before it, by waiting for the last of them.
Chained ==
  \A c \in Calls : \A d \in before[c] :
    Ended(d) \/ d = previous[c] \/ (previous[c] # None /\ d \in before[previous[c]])

\* The end of a chain has every call of it before it that has not ended.
TailLast ==
  /\ \A p \in Procs : \A k \in Keys : tail[p][k] # None =>
       ProcOf[tail[p][k]] = p /\ key[tail[p][k]] = k /\ pc[tail[p][k]] # "idle"
  /\ \A d \in Calls : pc[d] # "idle" /\ ~Ended(d) =>
       LET t == tail[ProcOf[d]][key[d]] IN t # None /\ (d = t \/ d \in before[t])

QueueInv == TypeOK /\ Alike /\ Chained /\ TailLast /\ InOrder

LEMMA QueueInit == Init => QueueInv
  BY TypeInit, LockAssumption DEF QueueInv, Init, Alike, Chained, TailLast, InOrder, Keys, TypeOK

\* What has ended stays ended.
LEMMA EndedStays ==
  ASSUME TypeOK, [Next]_vars, NEW d \in Calls, Ended(d)
  PROVE  pc'[d] = pc[d]
<1>1. ASSUME NEW c \in Calls, QueueStep(c) \/ LockStep(c) PROVE pc'[d] = pc[d]
  <2>1. pc[c] \notin {"done", "dead"} /\ (pc' = pc \/ \E to : pc' = [pc EXCEPT ![c] = to])
    BY <1>1 DEF QueueStep, LockStep, Register, Enter, Leave, Make, Name, ReadOwner, Stat, Remove, Poll,
                GiveUp, Create, Finish, Release, Condemn, At, Go
  <2> QED
    BY <2>1 DEF TypeOK, Ended
<1> QED
  BY <1>1 DEF Next, Crash, Age, vars, Ended, TypeOK

LEMMA RegisterQueue == ASSUME QueueInv, NEW c \in Calls, Register(c) PROVE QueueInv'
<1>t. TypeOK' /\ TypeOK
  BY TypeStep DEF QueueInv, Next, QueueStep
<1> DEFINE k == KeyOf(c)
           p == ProcOf[c]
           earlier == {d \in Calls : pc[d] # "idle" /\ ProcOf[d] = p /\ key[d] = k}
<1>1. k \in Keys /\ p \in Procs
  BY LockAssumption DEF KeyOf, Keys
<1>2. /\ pc[c] = "idle" /\ pc'[c] = "queued" /\ key'[c] = k
      /\ previous'[c] = tail[p][k] /\ before'[c] = earlier
      /\ \A d \in Calls : d # c => /\ pc'[d] = pc[d] /\ key'[d] = key[d]
                                   /\ previous'[d] = previous[d] /\ before'[d] = before[d]
      /\ \A q \in Procs : \A h \in Keys : tail'[q][h] = IF q = p /\ h = k THEN c ELSE tail[q][h]
  BY <1>t, <1>1 DEF Register, At, Go, TypeOK
<1> HIDE DEF k, p
<1>3. before[c] = {} /\ \A d \in Calls : c \notin before[d]
  BY <1>t, <1>2 DEF QueueInv, Alike, TypeOK
<1>4. \A d \in Calls : Ended(d)' <=> Ended(d)
  BY <1>2 DEF Ended
<1>5. Alike'
  <2> SUFFICES ASSUME NEW e \in Calls, NEW d \in before'[e]
               PROVE  pc'[e] # "idle" /\ pc'[d] # "idle" /\ ProcOf[d] = ProcOf[e] /\ key'[d] = key'[e]
    BY DEF Alike
  <2>1. CASE e = c
    BY <1>2, <2>1 DEF p
  <2>2. CASE e # c
    <3>1. d \in before[e] /\ d \in Calls /\ d # c
      BY <1>t, <1>2, <1>3, <2>2 DEF TypeOK
    <3> QED
      BY <1>2, <2>2, <3>1 DEF QueueInv, Alike
  <2> QED
    BY <2>1, <2>2
<1>6. Chained'
  <2> SUFFICES ASSUME NEW e \in Calls, NEW d \in before'[e], ~Ended(d)'
               PROVE  d = previous'[e] \/ (previous'[e] # None /\ d \in before'[previous'[e]])
    BY DEF Chained
  <2>d. d \in Calls
    BY <1>t DEF TypeOK
  <2>1. CASE e = c
    <3>1. d \in earlier /\ d # c /\ ~Ended(d)
      BY <1>2, <1>4, <2>1, <2>d
    <3>2. tail[p][k] # None /\ (d = tail[p][k] \/ d \in before[tail[p][k]])
      BY <3>1, <2>d DEF QueueInv, TailLast
    <3>3. tail[p][k] \in Calls /\ tail[p][k] # c
      BY <1>t, <1>1, <1>2, <3>2 DEF QueueInv, TailLast, TypeOK
    <3> QED
      BY <1>2, <2>1, <3>2, <3>3
  <2>2. CASE e # c
    <3>1. d = previous[e] \/ (previous[e] # None /\ d \in before[previous[e]])
      BY <1>2, <1>4, <2>2, <2>d DEF QueueInv, Chained
    <3>2. CASE d = previous[e]
      BY <1>2, <2>2, <3>2
    <3>3. CASE previous[e] # None /\ d \in before[previous[e]]
      <4>1. previous[e] \in Calls /\ previous[e] # c
        BY <1>t, <1>3, <3>3 DEF TypeOK
      <4> QED
        BY <1>2, <2>2, <3>3, <4>1
    <3> QED
      BY <3>1, <3>2, <3>3
  <2> QED
    BY <2>1, <2>2
<1>7. TailLast'
  <2>1. ASSUME NEW q \in Procs, NEW h \in Keys, tail'[q][h] # None
        PROVE  /\ ProcOf[tail'[q][h]] = q /\ key'[tail'[q][h]] = h /\ pc'[tail'[q][h]] # "idle"
    <3>1. CASE q = p /\ h = k
      BY <1>2, <2>1, <3>1 DEF p
    <3>2. CASE ~(q = p /\ h = k)
      BY <1>t, <1>2, <2>1, <3>2 DEF QueueInv, TailLast, TypeOK
    <3> QED
      BY <3>1, <3>2
  <2>2. ASSUME NEW d \in Calls, pc'[d] # "idle", ~Ended(d)'
        PROVE  LET t == tail'[ProcOf[d]][key'[d]] IN t # None /\ (d = t \/ d \in before'[t])
    <3>0. ProcOf[d] \in Procs /\ key'[d] \in Keys /\ c # None
      BY <1>t, LockAssumption DEF TypeOK
    <3>1. CASE ProcOf[d] = p /\ key'[d] = k
      BY <1>1, <1>2, <2>2, <3>0, <3>1
    <3>2. CASE ~(ProcOf[d] = p /\ key'[d] = k)
      <4>1. d # c /\ tail'[ProcOf[d]][key'[d]] = tail[ProcOf[d]][key[d]]
        BY <1>2, <3>0, <3>2 DEF p
      <4>2. tail[ProcOf[d]][key[d]] # c
        BY <1>t, <1>2, <3>0, <4>1 DEF QueueInv, TailLast, TypeOK
      <4>3. LET t == tail[ProcOf[d]][key[d]] IN t # None /\ (d = t \/ d \in before[t])
        BY <1>2, <1>4, <2>2, <4>1 DEF QueueInv, TailLast
      <4>4. tail[ProcOf[d]][key[d]] \in Calls
        BY <1>t, <1>2, <3>0, <4>1, <4>3 DEF TypeOK
      <4> QED
        BY <1>2, <4>1, <4>2, <4>3, <4>4
    <3> QED
      BY <3>1, <3>2
  <2> QED
    BY <2>1, <2>2 DEF TailLast
<1>8. InOrder'
  BY <1>t, <1>2, <1>4 DEF QueueInv, InOrder, TypeOK
<1> QED
  BY <1>t, <1>5, <1>6, <1>7, <1>8 DEF QueueInv

\* A step of a call that has joined its queue.
LEMMA LaterQueue ==
  ASSUME QueueInv, NEW c \in Calls, Enter(c) \/ Leave(c) \/ LockStep(c)
  PROVE  QueueInv'
<1>t. TypeOK' /\ TypeOK
  BY TypeStep DEF QueueInv, Next, QueueStep
<1>1. /\ \A d \in Calls : d # c => pc'[d] = pc[d]
      /\ UNCHANGED <<previous, key, before>>
      /\ ~Ended(c)
      /\ pc'[c] \notin {"idle", "queued"} /\ pc[c] # "idle"
      /\ pc[c] = "queued" /\ previous[c] # None => Ended(previous[c])
  BY <1>t DEF Enter, Leave, LockStep, Make, Name, ReadOwner, Stat, Poll, GiveUp, Create, Condemn,
              Finish, Remove, Release, At, Go, TypeOK, queueVars, Ended
<1>2. \A d \in Calls : Ended(d) => Ended(d)'
  BY <1>1 DEF Ended
<1>3. Alike'
  BY <1>t, <1>1 DEF QueueInv, Alike, TypeOK
<1>4. Chained'
  BY <1>t, <1>1, <1>2 DEF QueueInv, Chained, TypeOK
<1>5. \A d \in before[c] : Ended(d)
  <2>1. CASE pc[c] = "queued"
    <3> SUFFICES ASSUME NEW d \in before[c], ~Ended(d) PROVE FALSE
      OBVIOUS
    <3>1. d = previous[c] \/ (previous[c] # None /\ d \in before[previous[c]])
      BY DEF QueueInv, Chained
    <3>2. d \in Calls /\ None \notin Calls
      BY <1>t, LockAssumption DEF TypeOK
    <3>3. previous[c] # None /\ previous[c] \in Calls /\ Ended(previous[c])
      BY <1>t, <1>1, <2>1, <3>1, <3>2 DEF TypeOK
    <3>4. d \in before[previous[c]]
      BY <3>1, <3>3
    <3> QED
      BY <3>3, <3>4 DEF QueueInv, InOrder, Ended
  <2>2. CASE pc[c] # "queued"
    BY <1>1, <2>2 DEF QueueInv, InOrder
  <2> QED
    BY <2>1, <2>2
<1>6. InOrder'
  <2> SUFFICES ASSUME NEW e \in Calls, pc'[e] \notin {"idle", "queued"}, NEW d \in before[e]
               PROVE  Ended(d)'
    BY <1>1 DEF InOrder
  <2>1. d \in Calls
    BY <1>t DEF TypeOK
  <2>2. Ended(d)
    BY <1>1, <1>5 DEF QueueInv, InOrder
  <2> QED
    BY <1>2, <2>1, <2>2
<1>7. TailLast'
  <2>1. CASE tail' = tail
    BY <1>t, <1>1, <1>2, <2>1 DEF QueueInv, TailLast, TypeOK
  <2>2. CASE tail' # tail
    <3>1. Leave(c) /\ Ended(c)'
      BY <1>t, <2>2 DEF Enter, LockStep, Make, Name, ReadOwner, Stat, Poll, GiveUp, Create, Finish, Remove,
                   Release, Condemn, queueVars, Leave, Go, Ended, TypeOK
    <3>2. \A p \in Procs : \A k \in Keys :
            \/ tail'[p][k] = tail[p][k]
            \/ tail'[p][k] = None /\ tail[p][k] = c
      BY <1>t, <3>1, LockAssumption DEF Leave, TypeOK
    <3>3. ASSUME NEW p \in Procs, NEW k \in Keys, tail'[p][k] # None
          PROVE  ProcOf[tail'[p][k]] = p /\ key'[tail'[p][k]] = k /\ pc'[tail'[p][k]] # "idle"
      <4>1. tail'[p][k] = tail[p][k] /\ tail[p][k] \in Calls
        BY <1>t, <3>2, <3>3 DEF TypeOK
      <4> QED
        BY <1>1, <3>3, <4>1 DEF QueueInv, TailLast
    <3>4. ASSUME NEW d \in Calls, pc'[d] # "idle", ~Ended(d)'
          PROVE  LET t == tail'[ProcOf[d]][key'[d]] IN t # None /\ (d = t \/ d \in before'[t])
      <4>1. d # c /\ pc[d] # "idle" /\ ~Ended(d)
        BY <1>1, <1>2, <3>1, <3>4
      <4>2. ProcOf[d] \in Procs /\ key[d] \in Keys
        BY <1>t, LockAssumption DEF TypeOK
      <4>3. LET t == tail[ProcOf[d]][key[d]] IN t # None /\ (d = t \/ d \in before[t])
        BY <4>1 DEF QueueInv, TailLast
      <4>4. tail[ProcOf[d]][key[d]] # c
        BY <1>5, <4>1, <4>3
      <4> QED
        BY <1>1, <3>2, <4>2, <4>3, <4>4
    <3> QED
      BY <3>3, <3>4 DEF TailLast
  <2> QED
    BY <2>1, <2>2
<1> QED
  BY <1>t, <1>3, <1>4, <1>6, <1>7 DEF QueueInv

LEMMA CrashQueue == ASSUME QueueInv, NEW p \in Procs, Crash(p) PROVE QueueInv'
<1>t. TypeOK' /\ TypeOK
  BY TypeStep DEF QueueInv, Next
<1>1. /\ UNCHANGED <<previous, tail, key, before>>
      /\ \A c \in Calls : pc'[c] = IF ProcOf[c] = p /\ pc[c] # "done" THEN "dead" ELSE pc[c]
  BY DEF Crash, queueVars
<1>2. \A d \in Calls : (Ended(d) => Ended(d)') /\ (ProcOf[d] = p => Ended(d)')
                       /\ (pc[d] # "idle" => pc'[d] # "idle")
  BY <1>1 DEF Ended
<1>3. \A d \in Calls : before[d] \subseteq Calls
  BY <1>t DEF TypeOK
<1>4. Alike'
  BY <1>1, <1>2, <1>3 DEF QueueInv, Alike
<1>5. Chained'
  BY <1>1, <1>2, <1>3 DEF QueueInv, Chained
<1>6. InOrder'
  BY <1>1, <1>2, <1>3 DEF QueueInv, InOrder, Alike
<1>7. TailLast'
  <2>1. ASSUME NEW q \in Procs, NEW k \in Keys, tail[q][k] # None
        PROVE  ProcOf[tail[q][k]] = q /\ key[tail[q][k]] = k /\ pc'[tail[q][k]] # "idle"
    <3>1. tail[q][k] \in Calls
      BY <1>t, <2>1 DEF TypeOK
    <3> QED
      BY <1>2, <2>1, <3>1 DEF QueueInv, TailLast
  <2>2. ASSUME NEW d \in Calls, pc'[d] # "idle", ~Ended(d)'
        PROVE  LET t == tail[ProcOf[d]][key[d]] IN t # None /\ (d = t \/ d \in before[t])
    <3>1. pc[d] # "idle" /\ ~Ended(d)
      BY <1>1, <1>2, <2>2
    <3> QED
      BY <3>1 DEF QueueInv, TailLast
  <2> QED
    BY <1>1, <2>1, <2>2 DEF TailLast
<1> QED
  BY <1>t, <1>4, <1>5, <1>6, <1>7 DEF QueueInv

LEMMA QueueStepInv == QueueInv /\ [Next]_vars => QueueInv'
<1> SUFFICES ASSUME QueueInv, [Next]_vars PROVE QueueInv'
  OBVIOUS
<1>t. TypeOK'
  BY TypeStep DEF QueueInv
<1>1. CASE UNCHANGED vars
  BY <1>t, <1>1 DEF QueueInv, vars, queueVars, Alike, Chained, TailLast, InOrder, Ended
<1>2. ASSUME NEW k \in Keys, Age(k) PROVE QueueInv'
  BY <1>t, <1>2 DEF Age, queueVars, QueueInv, Alike, Chained, TailLast, InOrder, Ended
<1> QED
  BY <1>1, <1>2, RegisterQueue, LaterQueue, CrashQueue DEF Next, QueueStep

\* A call gets to the lock after every call of its process that had joined the queue
\* of that file before it, whichever of them give up, throw or die.
THEOREM Ordered == Spec => []InOrder
<1>1. QueueInv => InOrder
  BY DEF QueueInv
<1> QED
  BY QueueInit, QueueStepInv, <1>1, PTL DEF Spec

-----------------------------------------------------------------------------
(* The lock. *)

Past == {"leaving", "done", "dead"}

\* Until a wrong lock is removed, the directory is there while the call that made it
\* relies on it, and names its process.
HoldersOwn ==
  /\ \A c \in Calls : Holding(c) /\ key[c] \notin raced => made[key[c]] = c
  /\ \A c \in Calls : pc[c] \in {"running", "releasing"} /\ key[c] \notin raced =>
       owner[key[c]] = ProcOf[c]
  /\ \A k \in Keys : k \notin raced /\ made[k] # None /\ owner[k] # None =>
       owner[k] = ProcOf[made[k]]

\* Whoever made a directory holds it or is past it, and no call makes one twice.
MakersKnown ==
  \A k \in Keys :
    IF made[k] = None
    THEN owner[k] = None /\ ~old[k]
    ELSE key[made[k]] = k /\ pc[made[k]] \in {"naming", "running", "releasing"} \union Past

\* What is taken for dead or stale is.
CondemnedPast ==
  /\ \A k \in Keys : old[k] /\ k \notin raced /\ made[k] # None => pc[made[k]] \in Past
  /\ \A c \in Calls : pc[c] = "removing" /\ key[c] \notin raced /\ seen[c] # None =>
       pc[seen[c]] \in Past
  /\ \A c \in Calls : ProcOf[c] \notin alive => pc[c] \in {"done", "dead"}

\* Nothing is taken for dead or stale before something was left behind.
NothingCondemned ==
  alive = Procs /\ kept = {} =>
    /\ raced = {}
    /\ \A c \in Calls : pc[c] # "removing"
    /\ \A k \in Keys : ~old[k] /\ (made[k] # None => pc[made[k]] = "naming" \/ owner[k] # None)

LockInv == TypeOK /\ HoldersOwn /\ MakersKnown /\ CondemnedPast /\ NothingCondemned

LEMMA LockInit == Init => LockInv
  BY TypeInit, LockAssumption
     DEF Init, LockInv, HoldersOwn, MakersKnown, CondemnedPast, NothingCondemned, Holding, Keys, TypeOK

\* What a step of a call at the lock leaves alone.
LEMMA AtLock ==
  ASSUME TypeOK, NEW c \in Calls, LockStep(c)
  PROVE  /\ UNCHANGED <<alive, key>>
         /\ ProcOf[c] \in alive /\ key[c] \in Keys
         /\ \A d \in Calls : d # c => pc'[d] = pc[d]
  BY DEF TypeOK, LockStep, Make, Name, ReadOwner, Stat, Condemn, Remove, Poll, GiveUp, Create,
         Finish, Release, At, Go, queueVars

\* What an rm leaves of the lock of k, and of the others.
LEMMA RemovedLock ==
  ASSUME TypeOK, NEW k \in Keys, RemoveLock(k)
  PROVE  /\ made'[k] = None /\ owner'[k] = None /\ ~old'[k]
         /\ \A h \in Keys : h # k => made'[h] = made[h] /\ owner'[h] = owner[h] /\ old'[h] = old[h]
  BY DEF TypeOK, RemoveLock

LEMMA FailedRemoval ==
  ASSUME TypeOK, NEW k \in Keys, FailRemoval(k)
  PROVE  /\ made'[k] = made[k] /\ made[k] # None
         /\ (owner'[k] = owner[k] /\ old'[k] = old[k]) \/ (owner'[k] = None /\ ~old'[k])
         /\ \A h \in Keys : h # k => made'[h] = made[h] /\ owner'[h] = owner[h] /\ old'[h] = old[h]
<1>1. CASE UNCHANGED <<owner, old>>
  BY <1>1 DEF FailRemoval
<1>2. CASE owner' = [owner EXCEPT ![k] = None] /\ old' = [old EXCEPT ![k] = FALSE]
  BY <1>2 DEF FailRemoval, TypeOK
<1> QED
  BY <1>1, <1>2 DEF FailRemoval

LEMMA MakeKeeps == ASSUME LockInv, TypeOK', NEW c \in Calls, Make(c) PROVE LockInv'
<1>t. TypeOK /\ None \notin Calls
  BY LockAssumption DEF LockInv
<1>l. /\ UNCHANGED <<alive, key>> /\ key[c] \in Keys /\ ProcOf[c] \in alive
      /\ \A d \in Calls : d # c => pc'[d] = pc[d]
  BY <1>t, AtLock DEF LockStep
<1>r. /\ \A d \in Calls : key[d] \in Keys /\ seen[d] \in Calls \union {None}
      /\ \A h \in Keys : made[h] \in Calls \union {None}
      /\ alive \subseteq Procs /\ ProcOf \in [Calls -> Procs] /\ None \notin Procs
  BY <1>t, LockAssumption DEF TypeOK
<1> DEFINE k == key[c]
           Same(h) == made'[h] = made[h] /\ owner'[h] = owner[h] /\ old'[h] = old[h]
<1>2. /\ pc[c] = "making" /\ UNCHANGED <<seen, raced, kept>>
      /\ \A h \in Keys : h # k => Same(h)
      /\ \/ pc'[c] \in {"checking", "leaving"} /\ Same(k)
         \/ /\ pc'[c] = "naming" /\ made[k] = None /\ made'[k] = c
            /\ owner'[k] = owner[k] /\ old'[k] = old[k]
  BY <1>t, <1>l DEF Make, At, Go, TypeOK, lockVars, raceVars
<1>3. HoldersOwn'
  <2>1. CASE pc'[c] \in {"checking", "leaving"} /\ Same(k)
    BY <1>l, <1>r, <1>2, <2>1 DEF LockInv, HoldersOwn, Holding
  <2>2. CASE pc'[c] = "naming" /\ made[k] = None /\ made'[k] = c /\ owner'[k] = owner[k]
    <3>1. owner'[k] = None
      BY <1>l, <2>2 DEF LockInv, MakersKnown
    <3>2. \A d \in Calls : d # c /\ Holding(d)' /\ key[d] = k => k \in raced
      BY <1>t, <1>l, <1>r, <2>2 DEF LockInv, HoldersOwn, Holding
    <3> QED
      BY <1>l, <1>r, <1>2, <2>2, <3>1, <3>2 DEF LockInv, HoldersOwn, Holding
  <2> QED
    BY <1>2, <2>1, <2>2
<1>4. MakersKnown'
  BY <1>l, <1>r, <1>2 DEF LockInv, MakersKnown, Past
<1>5. CondemnedPast'
  BY <1>l, <1>r, <1>2 DEF LockInv, HoldersOwn, MakersKnown, CondemnedPast, Holding, Past
<1>6. NothingCondemned'
  BY <1>l, <1>r, <1>2 DEF LockInv, HoldersOwn, MakersKnown, NothingCondemned, Holding, Past
<1> QED
  BY <1>3, <1>4, <1>5, <1>6 DEF LockInv

LEMMA NameKeeps == ASSUME LockInv, TypeOK', NEW c \in Calls, Name(c) PROVE LockInv'
<1>t. TypeOK /\ None \notin Calls
  BY LockAssumption DEF LockInv
<1>l. /\ UNCHANGED <<alive, key>> /\ key[c] \in Keys /\ ProcOf[c] \in alive
      /\ \A d \in Calls : d # c => pc'[d] = pc[d]
  BY <1>t, AtLock DEF LockStep
<1>r. /\ \A d \in Calls : key[d] \in Keys /\ seen[d] \in Calls \union {None}
      /\ \A h \in Keys : made[h] \in Calls \union {None}
      /\ alive \subseteq Procs /\ ProcOf \in [Calls -> Procs] /\ None \notin Procs
  BY <1>t, LockAssumption DEF TypeOK
<1> DEFINE k == key[c]
           Same(h) == made'[h] = made[h] /\ owner'[h] = owner[h] /\ old'[h] = old[h]
           Gone(h) == made'[h] = None /\ owner'[h] = None /\ ~old'[h]
           Left(h) == /\ made'[h] = made[h] /\ made[h] # None
                      /\ (owner'[h] = owner[h] /\ old'[h] = old[h]) \/ (owner'[h] = None /\ ~old'[h])
<1>2. /\ pc[c] = "naming" /\ UNCHANGED <<seen, raced>>
      /\ \A h \in Keys : h # k => Same(h)
      /\ \/ /\ pc'[c] = "running" /\ made[k] # None /\ kept' = kept
            /\ made'[k] = made[k] /\ owner'[k] = ProcOf[c] /\ ~old'[k]
         \/ pc'[c] = "leaving" /\ Gone(k) /\ kept' = kept
         \/ pc'[c] = "leaving" /\ Left(k) /\ kept' # {}
  <2>1. pc[c] = "naming" /\ UNCHANGED <<seen, raced>>
    BY DEF Name, GiveBack, At, raceVars
  <2>2. CASE /\ made[k] # None /\ Go(c, "running") /\ owner' = [owner EXCEPT ![k] = ProcOf[c]]
             /\ old' = [old EXCEPT ![k] = FALSE] /\ UNCHANGED <<made, raceVars>>
    BY <1>t, <1>l, <2>1, <2>2 DEF Go, TypeOK, raceVars
  <2>3. CASE Go(c, "leaving") /\ RemoveLock(k) /\ UNCHANGED kept
    <3>1. pc'[c] = "leaving"
      BY <1>t, <2>3 DEF Go, TypeOK
    <3> QED
      BY <1>t, <1>l, <2>1, <2>3, <3>1, RemovedLock
  <2>4. CASE Go(c, "leaving") /\ FailRemoval(k) /\ kept' = kept \union {c}
    <3>1. pc'[c] = "leaving"
      BY <1>t, <2>4 DEF Go, TypeOK
    <3> QED
      BY <1>t, <1>l, <2>1, <2>4, <3>1, FailedRemoval
  <2> QED
    BY <2>2, <2>3, <2>4 DEF Name, GiveBack
<1>3. HoldersOwn'
  BY <1>l, <1>r, <1>2 DEF LockInv, HoldersOwn, MakersKnown, CondemnedPast, Holding, Past
<1>4. MakersKnown'
  <2> SUFFICES ASSUME NEW h \in Keys
               PROVE  IF made'[h] = None
                      THEN owner'[h] = None /\ ~old'[h]
                      ELSE /\ key'[made'[h]] = h
                           /\ pc'[made'[h]] \in {"naming", "running", "releasing"} \union Past
    BY DEF MakersKnown
  <2>1. CASE h = k
    BY <1>l, <1>r, <1>2, <2>1 DEF LockInv, MakersKnown, Past
  <2>2. CASE h # k
    BY <1>l, <1>r, <1>2, <2>2 DEF LockInv, MakersKnown, Past
  <2> QED
    BY <2>1, <2>2
<1>5. CondemnedPast'
  BY <1>l, <1>r, <1>2 DEF LockInv, HoldersOwn, MakersKnown, CondemnedPast, Holding, Past
<1>6. NothingCondemned'
  BY <1>l, <1>r, <1>2 DEF LockInv, HoldersOwn, MakersKnown, NothingCondemned, Holding, Past
<1> QED
  BY <1>3, <1>4, <1>5, <1>6 DEF LockInv

LEMMA ReadOwnerKeeps == ASSUME LockInv, TypeOK', NEW c \in Calls, ReadOwner(c) PROVE LockInv'
<1>t. TypeOK /\ None \notin Calls
  BY LockAssumption DEF LockInv
<1>l. /\ UNCHANGED <<alive, key>> /\ key[c] \in Keys /\ ProcOf[c] \in alive
      /\ \A d \in Calls : d # c => pc'[d] = pc[d]
  BY <1>t, AtLock DEF LockStep
<1>r. /\ \A d \in Calls : key[d] \in Keys /\ seen[d] \in Calls \union {None}
      /\ \A h \in Keys : made[h] \in Calls \union {None}
      /\ alive \subseteq Procs /\ ProcOf \in [Calls -> Procs] /\ None \notin Procs
  BY <1>t, LockAssumption DEF TypeOK
<1> DEFINE k == key[c]
<1>2. /\ pc[c] = "checking" /\ UNCHANGED <<made, owner, old, raced, kept>>
      /\ \A d \in Calls : d # c => seen'[d] = seen[d]
      /\ \/ pc'[c] \in {"stating", "waiting"}
         \/ pc'[c] = "removing" /\ owner[k] \in Procs \ alive /\ seen'[c] = made[k]
  BY <1>t, <1>l DEF ReadOwner, Condemn, At, Go, TypeOK, lockVars, raceVars
<1>3. HoldersOwn'
  BY <1>l, <1>r, <1>2 DEF LockInv, HoldersOwn, MakersKnown, CondemnedPast, Holding, Past
<1>4. MakersKnown'
  BY <1>l, <1>r, <1>2 DEF LockInv, MakersKnown, Past
<1>5. CondemnedPast'
  BY <1>l, <1>r, <1>2 DEF LockInv, HoldersOwn, MakersKnown, CondemnedPast, Holding, Past
<1>6. NothingCondemned'
  BY <1>l, <1>r, <1>2 DEF LockInv, HoldersOwn, MakersKnown, NothingCondemned, Holding, Past
<1> QED
  BY <1>3, <1>4, <1>5, <1>6 DEF LockInv

LEMMA StatKeeps == ASSUME LockInv, TypeOK', NEW c \in Calls, Stat(c) PROVE LockInv'
<1>t. TypeOK /\ None \notin Calls
  BY LockAssumption DEF LockInv
<1>l. /\ UNCHANGED <<alive, key>> /\ key[c] \in Keys /\ ProcOf[c] \in alive
      /\ \A d \in Calls : d # c => pc'[d] = pc[d]
  BY <1>t, AtLock DEF LockStep
<1>r. /\ \A d \in Calls : key[d] \in Keys /\ seen[d] \in Calls \union {None}
      /\ \A h \in Keys : made[h] \in Calls \union {None}
      /\ alive \subseteq Procs /\ ProcOf \in [Calls -> Procs] /\ None \notin Procs
  BY <1>t, LockAssumption DEF TypeOK
<1> DEFINE k == key[c]
<1>2. /\ pc[c] = "stating" /\ UNCHANGED <<made, owner, old, raced, kept>>
      /\ \A d \in Calls : d # c => seen'[d] = seen[d]
      /\ \/ pc'[c] \in {"making", "waiting"}
         \/ pc'[c] = "removing" /\ old[k] /\ made[k] # None /\ seen'[c] = made[k]
  BY <1>t, <1>l DEF Stat, Condemn, At, Go, TypeOK, lockVars, raceVars
<1>3. HoldersOwn'
  BY <1>l, <1>r, <1>2 DEF LockInv, HoldersOwn, MakersKnown, CondemnedPast, Holding, Past
<1>4. MakersKnown'
  BY <1>l, <1>r, <1>2 DEF LockInv, MakersKnown, Past
<1>5. CondemnedPast'
  BY <1>l, <1>r, <1>2 DEF LockInv, HoldersOwn, MakersKnown, CondemnedPast, Holding, Past
<1>6. NothingCondemned'
  BY <1>l, <1>r, <1>2 DEF LockInv, HoldersOwn, MakersKnown, NothingCondemned, Holding, Past
<1> QED
  BY <1>3, <1>4, <1>5, <1>6 DEF LockInv

LEMMA RemoveKeeps == ASSUME LockInv, TypeOK', NEW c \in Calls, Remove(c) PROVE LockInv'
<1>t. TypeOK /\ None \notin Calls
  BY LockAssumption DEF LockInv
<1>l. /\ UNCHANGED <<alive, key>> /\ key[c] \in Keys /\ ProcOf[c] \in alive
      /\ \A d \in Calls : d # c => pc'[d] = pc[d]
  BY <1>t, AtLock DEF LockStep
<1>r. /\ \A d \in Calls : key[d] \in Keys /\ seen[d] \in Calls \union {None}
      /\ \A h \in Keys : made[h] \in Calls \union {None}
      /\ alive \subseteq Procs /\ ProcOf \in [Calls -> Procs] /\ None \notin Procs
  BY <1>t, LockAssumption DEF TypeOK
<1> DEFINE k == key[c]
           Same(h) == made'[h] = made[h] /\ owner'[h] = owner[h] /\ old'[h] = old[h]
           Gone(h) == made'[h] = None /\ owner'[h] = None /\ ~old'[h]
           Left(h) == /\ made'[h] = made[h] /\ made[h] # None
                      /\ (owner'[h] = owner[h] /\ old'[h] = old[h]) \/ (owner'[h] = None /\ ~old'[h])
<1>2. /\ pc[c] = "removing" /\ kept' = kept
      /\ \A d \in Calls : d # c => seen'[d] = seen[d]
      /\ raced' = IF made[k] \in {None, seen[c]} THEN raced ELSE raced \union {k}
      /\ \A h \in Keys : h # k => Same(h)
      /\ (pc'[c] = "making" /\ Gone(k)) \/ (pc'[c] = "leaving" /\ Left(k))
  <2>1. /\ pc[c] = "removing" /\ kept' = kept
        /\ \A d \in Calls : d # c => seen'[d] = seen[d]
        /\ raced' = IF made[k] \in {None, seen[c]} THEN raced ELSE raced \union {k}
    BY <1>t DEF Remove, At, TypeOK
  <2>2. \/ pc'[c] = "making" /\ RemoveLock(k)
        \/ pc'[c] = "leaving" /\ FailRemoval(k)
    BY <1>t DEF Remove, Go, TypeOK
  <2> QED
    BY <1>t, <1>l, <2>1, <2>2, RemovedLock, FailedRemoval
<1>3. HoldersOwn'
  <2>1. \A d \in Calls : Holding(d)' => Holding(d) /\ d # c
    BY <1>l, <1>2 DEF Holding
  <2>2. \A d \in Calls : Holding(d) /\ key[d] = k => k \in raced'
    <3> SUFFICES ASSUME NEW d \in Calls, Holding(d), key[d] = k, k \notin raced' PROVE FALSE
      OBVIOUS
    <3>1. k \notin raced /\ made[k] = d /\ d # None
      BY <1>t, <1>2 DEF LockInv, HoldersOwn
    <3>2. seen[c] = d
      BY <1>2, <3>1
    <3> QED
      BY <1>2, <3>1, <3>2 DEF LockInv, CondemnedPast, Holding, Past
  <2>3. /\ \A h \in Keys : h # k => Same(h) /\ (h \notin raced' => h \notin raced)
        /\ made'[k] = None \/ (made'[k] = made[k] /\ owner'[k] \in {owner[k], None})
        /\ k \notin raced' => k \notin raced
    BY <1>2
  <2> QED
    BY <1>l, <1>r, <2>1, <2>2, <2>3 DEF LockInv, HoldersOwn, Holding
<1>4. MakersKnown'
  <2> SUFFICES ASSUME NEW h \in Keys
               PROVE  IF made'[h] = None
                      THEN owner'[h] = None /\ ~old'[h]
                      ELSE /\ key'[made'[h]] = h
                           /\ pc'[made'[h]] \in {"naming", "running", "releasing"} \union Past
    BY DEF MakersKnown
  <2>1. CASE h = k
    BY <1>l, <1>r, <1>2, <2>1 DEF LockInv, MakersKnown, Past
  <2>2. CASE h # k
    BY <1>l, <1>r, <1>2, <2>2 DEF LockInv, MakersKnown, Past
  <2> QED
    BY <2>1, <2>2
<1>5. CondemnedPast'
  BY <1>l, <1>r, <1>2 DEF LockInv, HoldersOwn, MakersKnown, CondemnedPast, Holding, Past
<1>6. NothingCondemned'
  BY <1>l, <1>r, <1>2 DEF LockInv, HoldersOwn, MakersKnown, NothingCondemned, Holding, Past
<1> QED
  BY <1>3, <1>4, <1>5, <1>6 DEF LockInv

LEMMA ReleaseKeeps == ASSUME LockInv, TypeOK', NEW c \in Calls, Release(c) PROVE LockInv'
<1>t. TypeOK /\ None \notin Calls
  BY LockAssumption DEF LockInv
<1>l. /\ UNCHANGED <<alive, key>> /\ key[c] \in Keys /\ ProcOf[c] \in alive
      /\ \A d \in Calls : d # c => pc'[d] = pc[d]
  BY <1>t, AtLock DEF LockStep
<1>r. /\ \A d \in Calls : key[d] \in Keys /\ seen[d] \in Calls \union {None}
      /\ \A h \in Keys : made[h] \in Calls \union {None}
      /\ alive \subseteq Procs /\ ProcOf \in [Calls -> Procs] /\ None \notin Procs
  BY <1>t, LockAssumption DEF TypeOK
<1> DEFINE k == key[c]
           Same(h) == made'[h] = made[h] /\ owner'[h] = owner[h] /\ old'[h] = old[h]
           Gone(h) == made'[h] = None /\ owner'[h] = None /\ ~old'[h]
           Left(h) == /\ made'[h] = made[h] /\ made[h] # None
                      /\ (owner'[h] = owner[h] /\ old'[h] = old[h]) \/ (owner'[h] = None /\ ~old'[h])
<1>2. /\ pc[c] = "releasing" /\ pc'[c] = "leaving" /\ UNCHANGED <<seen, raced>>
      /\ \A h \in Keys : h # k => Same(h)
      /\ (Gone(k) /\ kept' = kept) \/ (Left(k) /\ kept' # {})
  <2>1. pc[c] = "releasing" /\ pc'[c] = "leaving" /\ UNCHANGED <<seen, raced>>
    BY <1>t DEF Release, GiveBack, At, Go, TypeOK
  <2>2. \/ RemoveLock(k) /\ kept' = kept
        \/ FailRemoval(k) /\ kept' # {}
    BY DEF Release, GiveBack
  <2> QED
    BY <1>t, <1>l, <2>1, <2>2, RemovedLock, FailedRemoval
<1>3. HoldersOwn'
  BY <1>l, <1>r, <1>2 DEF LockInv, HoldersOwn, MakersKnown, CondemnedPast, Holding, Past
<1>4. MakersKnown'
  <2> SUFFICES ASSUME NEW h \in Keys
               PROVE  IF made'[h] = None
                      THEN owner'[h] = None /\ ~old'[h]
                      ELSE /\ key'[made'[h]] = h
                           /\ pc'[made'[h]] \in {"naming", "running", "releasing"} \union Past
    BY DEF MakersKnown
  <2>1. CASE h = k
    BY <1>l, <1>r, <1>2, <2>1 DEF LockInv, MakersKnown, Past
  <2>2. CASE h # k
    BY <1>l, <1>r, <1>2, <2>2 DEF LockInv, MakersKnown, Past
  <2> QED
    BY <2>1, <2>2
<1>5. CondemnedPast'
  BY <1>l, <1>r, <1>2 DEF LockInv, HoldersOwn, MakersKnown, CondemnedPast, Holding, Past
<1>6. NothingCondemned'
  BY <1>l, <1>r, <1>2 DEF LockInv, HoldersOwn, MakersKnown, NothingCondemned, Holding, Past
<1> QED
  BY <1>3, <1>4, <1>5, <1>6 DEF LockInv

\* A step that leaves the locks and who condemned them alone.
LEMMA QuietStep ==
  ASSUME LockInv, TypeOK', NEW c \in Calls,
         Register(c) \/ Enter(c) \/ Leave(c) \/ Poll(c) \/ GiveUp(c) \/ Create(c) \/ Finish(c)
  PROVE  LockInv'
<1>t. TypeOK /\ None \notin Calls
  BY LockAssumption DEF LockInv
<1>1. /\ UNCHANGED <<alive, made, owner, old, seen, raced, kept>> /\ ProcOf[c] \in alive
      /\ \A d \in Calls : d # c => pc'[d] = pc[d] /\ key'[d] = key[d]
  BY <1>t DEF Register, Enter, Leave, Poll, GiveUp, Create, Finish, At, Go, TypeOK, lockVars, raceVars,
              queueVars
<1>2. \/ /\ pc[c] \notin {"naming", "running", "releasing", "removing"} \union Past
         /\ pc'[c] \notin {"naming", "running", "releasing", "removing"}
      \/ key'[c] = key[c] /\ pc[c] = "running" /\ pc'[c] \in {"running", "releasing"}
      \/ key'[c] = key[c] /\ pc[c] = "leaving" /\ pc'[c] = "done"
  BY <1>t DEF Register, Enter, Leave, Poll, GiveUp, Create, Finish, At, Go, TypeOK, Past, queueVars
<1>r. \A h \in Keys : made[h] \in Calls \union {None}
  BY <1>t DEF TypeOK
<1>3. HoldersOwn'
  BY <1>r, <1>1, <1>2 DEF LockInv, HoldersOwn, MakersKnown, Holding, Past
<1>4. MakersKnown'
  BY <1>t, <1>1, <1>2 DEF LockInv, MakersKnown, Past, TypeOK
<1>5. CondemnedPast'
  BY <1>t, <1>1, <1>2 DEF LockInv, CondemnedPast, Past, TypeOK
<1>6. NothingCondemned'
  BY <1>t, <1>1, <1>2 DEF LockInv, MakersKnown, NothingCondemned, Past, TypeOK
<1> QED
  BY <1>3, <1>4, <1>5, <1>6 DEF LockInv

LEMMA CrashLock == ASSUME LockInv, TypeOK', NEW p \in Procs, Crash(p) PROVE LockInv'
<1>t. TypeOK /\ None \notin Calls /\ ProcOf \in [Calls -> Procs]
  BY LockAssumption DEF LockInv
<1>1. /\ UNCHANGED <<key, made, owner, old, seen, raced, kept>> /\ alive' = alive \ {p} /\ alive' # Procs
      /\ \A d \in Calls : pc'[d] = IF ProcOf[d] = p /\ pc[d] # "done" THEN "dead" ELSE pc[d]
  BY <1>t DEF Crash, queueVars, lockVars, raceVars
<1>2. HoldersOwn'
  BY <1>t, <1>1 DEF LockInv, HoldersOwn, Holding, TypeOK
<1>3. MakersKnown'
  BY <1>t, <1>1 DEF LockInv, MakersKnown, Past, TypeOK
<1>4. CondemnedPast'
  BY <1>t, <1>1 DEF LockInv, CondemnedPast, Past, TypeOK
<1>5. NothingCondemned'
  BY <1>1 DEF NothingCondemned
<1> QED
  BY <1>2, <1>3, <1>4, <1>5 DEF LockInv

LEMMA AgeLock == ASSUME LockInv, TypeOK', NEW k \in Keys, Age(k) PROVE LockInv'
<1>t. TypeOK /\ None \notin Calls /\ ProcOf \in [Calls -> Procs]
  BY LockAssumption DEF LockInv
<1>1. /\ UNCHANGED <<alive, pc, key, made, owner, seen, raced, kept>>
      /\ made[k] # None /\ made[k] \in Calls /\ pc[made[k]] # "naming" /\ owner[k] = None
      /\ \A h \in Keys : old'[h] = IF h = k THEN TRUE ELSE old[h]
  BY <1>t DEF Age, TypeOK, queueVars, raceVars
<1>2. HoldersOwn'
  BY <1>t, <1>1 DEF LockInv, HoldersOwn, Holding
<1>3. MakersKnown'
  BY <1>t, <1>1 DEF LockInv, MakersKnown
<1>4. CondemnedPast'
  <2>1. k \notin raced => pc[made[k]] \in Past
    <3> SUFFICES ASSUME k \notin raced, pc[made[k]] \in {"running", "releasing"} PROVE FALSE
      BY <1>1 DEF LockInv, MakersKnown
    <3>1. key[made[k]] = k
      BY <1>1 DEF LockInv, MakersKnown
    <3>2. owner[k] = ProcOf[made[k]]
      BY <1>1, <3>1 DEF LockInv, HoldersOwn
    <3>3. ProcOf[made[k]] \in Procs
      BY <1>t, <1>1
    <3> QED
      BY <1>1, <3>2, <3>3, LockAssumption
  <2> QED
    BY <1>1, <2>1 DEF LockInv, CondemnedPast
<1>5. NothingCondemned'
  BY <1>t, <1>1 DEF LockInv, NothingCondemned
<1> QED
  BY <1>2, <1>3, <1>4, <1>5 DEF LockInv

LEMMA LockStepInv == LockInv /\ [Next]_vars => LockInv'
<1> SUFFICES ASSUME LockInv, [Next]_vars PROVE LockInv'
  OBVIOUS
<1>t. TypeOK'
  BY TypeStep DEF LockInv
<1>1. CASE UNCHANGED vars
  BY <1>t, <1>1 DEF LockInv, vars, queueVars, lockVars, raceVars, HoldersOwn, MakersKnown, CondemnedPast,
                    NothingCondemned, Holding, Past
<1> QED
  BY <1>t, <1>1, MakeKeeps, NameKeeps, ReadOwnerKeeps, StatKeeps, RemoveKeeps, ReleaseKeeps, QuietStep,
     CrashLock, AgeLock DEF Next, QueueStep, LockStep

\* The calls that know the file by one key write it one at a time, whichever processes
\* they are of and whichever die, until a process removes a lock other than the one
\* it found dead or stale; which takes a process that died or an rm that failed.
THEOREM Exclusive == Spec => []OneRuns
<1>1. LockInv => OneRuns
  BY DEF LockInv, HoldersOwn, NothingCondemned, OneRuns, Holding
<1> QED
  BY LockInit, LockStepInv, <1>1, PTL DEF Spec

-----------------------------------------------------------------------------
(* What is left, with crashes. *)

\* Whose directory is there has not come to the end that removes it, is dead, or could
\* not remove it; a lock may have been removed under its holder and made again by
\* another call.
HeldOrDead ==
  \A k \in Keys : made[k] # None =>
    (Holding(made[k]) /\ key[made[k]] = k) \/ pc[made[k]] = "dead" \/ made[k] \in kept
DeadWithProcess == \A c \in Calls : pc[c] = "dead" => ProcOf[c] \notin alive

LeftInv == TypeOK /\ HeldOrDead /\ DeadWithProcess

LEMMA LeftStep == LeftInv /\ [Next]_vars => LeftInv'
<1> SUFFICES ASSUME LeftInv, [Next]_vars PROVE LeftInv'
  OBVIOUS
<1>t. TypeOK' /\ TypeOK /\ None \notin Calls
  BY TypeStep, LockAssumption DEF LeftInv
<1> USE DEF LeftInv
<1>1. CASE UNCHANGED vars
  BY <1>t, <1>1 DEF vars, queueVars, lockVars, raceVars, HeldOrDead, DeadWithProcess, Holding
<1>2. ASSUME NEW c \in Calls, QueueStep(c) \/ LockStep(c) PROVE LeftInv'
  <2>1. /\ alive' = alive /\ ProcOf[c] \in alive /\ pc[c] # "dead" /\ pc'[c] # "dead"
        /\ \A d \in Calls : d # c => pc'[d] = pc[d] /\ key'[d] = key[d]
        /\ pc[c] # "idle" => key'[c] = key[c]
        /\ kept \subseteq kept'
    BY <1>t, <1>2 DEF QueueStep, LockStep, Register, Enter, Leave, Make, Name, ReadOwner, Stat, Remove,
                      Poll, GiveUp, Create, Finish, Release, Condemn, GiveBack, At, Go, TypeOK, queueVars,
                      raceVars, DeadWithProcess
  <2>2. DeadWithProcess'
    BY <2>1 DEF DeadWithProcess
  <2>3. ASSUME NEW k \in Keys, made'[k] # None
        PROVE  \/ made'[k] = c /\ Holding(c)' /\ key[c] = k /\ pc[c] # "idle"
               \/ /\ made'[k] = made[k]
                  /\ made[k] = c /\ key[c] = k /\ Holding(c) => Holding(c)' \/ c \in kept'
    BY <1>t, <1>2, <2>3 DEF QueueStep, LockStep, Register, Enter, Leave, Make, Name, ReadOwner, Stat,
                            Remove, Poll, GiveUp, Create, Finish, Release, Condemn, GiveBack, RemoveLock,
                            FailRemoval, At, Go, TypeOK, lockVars, Holding
  <2>4. HeldOrDead'
    <3> SUFFICES ASSUME NEW k \in Keys, made'[k] # None
                 PROVE  \/ pc'[made'[k]] \in {"naming", "running", "releasing"} /\ key'[made'[k]] = k
                        \/ pc'[made'[k]] = "dead" \/ made'[k] \in kept'
      BY DEF HeldOrDead, Holding
    <3>1. CASE made'[k] = c /\ Holding(c)' /\ key[c] = k /\ pc[c] # "idle"
      BY <2>1, <3>1 DEF Holding
    <3>2. CASE made'[k] = made[k] /\ made[k] = c
      BY <2>1, <2>3, <3>2 DEF HeldOrDead, Holding
    <3>3. CASE made'[k] = made[k] /\ made[k] # c
      BY <1>t, <2>1, <3>3 DEF HeldOrDead, Holding, TypeOK
    <3> QED
      BY <2>3, <3>1, <3>2, <3>3
  <2> QED
    BY <1>t, <2>2, <2>4
<1>3. ASSUME NEW p \in Procs, Crash(p) PROVE LeftInv'
  BY <1>t, <1>3 DEF Crash, TypeOK, queueVars, lockVars, raceVars, HeldOrDead, DeadWithProcess, Holding
<1>4. ASSUME NEW k \in Keys, Age(k) PROVE LeftInv'
  BY <1>t, <1>4 DEF Age, queueVars, raceVars, HeldOrDead, DeadWithProcess, Holding
<1> QED
  BY <1>1, <1>2, <1>3, <1>4 DEF Next

\* A directory whose call is through is that of a process that died or of a call
\* whose rm failed, whichever processes die and whoever takes whose lock for a stale
\* one.
THEOREM NothingLeft == Spec => []NoLockLeft
<1>1. Init => LeftInv
  BY TypeInit DEF Init, LeftInv, HeldOrDead, DeadWithProcess
<1>2. LeftInv => NoLockLeft
  BY LockAssumption DEF LeftInv, TypeOK, HeldOrDead, DeadWithProcess, NoLockLeft, LockAssumption
<1> QED
  BY <1>1, <1>2, LeftStep, PTL DEF Spec

-----------------------------------------------------------------------------
(* The chat: its types. *)

Turns     == Nat \union {Nil}
Places    == {"asking", "answered"}
Sends     == [kind : {"send"}, at : Places, thread : Threads, msg : Messages,
              saved : Seq(Messages), seq : Nat, turn : Turns]
Loads     == [kind : {"select", "recover"}, thread : Threads, turn : Turns, busy : BOOLEAN, from : Nat]
Stops     == [kind : {"interrupt"}, at : Places, thread : Threads, turn : Turns]
Underway  == Sends \union Loads \union Stops \union {Idle}
Open      == [thread : Threads, at : Nat, recovers : BOOLEAN]
Events    == [kind : {"user", "delta"} \union EndKinds, turn : Turns]

Stores ==
  [active : Threads, seq : Nat, busy : BOOLEAN, turn : Turns, queue : Seq(Messages),
   ref : Streams \union {Nil}, streams : [Streams -> Open \union {Nil}], armed : BOOLEAN,
   attempts : Nat, draining : Ops \union {Nil}, op : [Ops -> Underway], base : Nat,
   shown : Seq(Nat)]

ChatTypeOK ==
  /\ ui \in Stores
  /\ log \in [Threads -> Seq(Events)]
  /\ typed \in [Messages -> Threads \union {Nil}]
  /\ sent \in [Messages -> Seq(Threads)]
  /\ crossed \in BOOLEAN /\ overlap \in BOOLEAN /\ early \in BOOLEAN
  /\ calls \in Nat /\ faults \in Nat

-----------------------------------------------------------------------------
(* Where messages were typed. *)

\* All of a queue were typed in one thread.
AllFrom(queue, t, origin) == \A i \in DOMAIN queue : origin[queue[i]] = t

\* What waits was typed in the active thread, and what is on its way, with the queue
\* it would put back, in the thread it is for.
Placed(u, origin) ==
  /\ AllFrom(u.queue, u.active, origin)
  /\ \A o \in Ops : u.op[o].kind = "send" =>
       /\ origin[u.op[o].msg] = u.op[o].thread
       /\ AllFrom(u.op[o].saved, u.op[o].thread, origin)

ChatInv ==
  /\ ChatTypeOK
  /\ ~crossed => Placed(ui, typed) /\ SentWhereTyped

-----------------------------------------------------------------------------
(* Induction: every nonempty set of numbers has a least element. *)

LEMMA LeastNatural ==
  ASSUME NEW T \in SUBSET Nat, T # {} PROVE \E x \in T : \A y \in T : x <= y
<1> DEFINE R == OpToRel(<, Nat)
<1>1. \A x, y \in Nat : x < y => <<x, y>> \in R
  BY Zenon DEF OpToRel
<1>2. IsWellFoundedOn(R, Nat)
  BY NatLessThanWellFounded
<1> HIDE DEF R
<1>3. PICK x \in T : \A y \in T : <<y, x>> \notin R
  BY <1>2, WFMin, Zenon
<1>4. \A y \in T : ~(y < x)
  BY <1>1, <1>3
<1> QED
  BY <1>4

LEMMA MinOf ==
  ASSUME NEW T \in SUBSET Nat, T # {} PROVE Min(T) \in T
  BY LeastNatural DEF Min

\* The greatest number of a set is the least of its bounds.
LEMMA MaxOf ==
  ASSUME NEW n \in Nat, NEW T \in SUBSET (1..n), T # {} PROVE Max(T) \in T
<1> DEFINE bounds == {k \in Nat : \A i \in T : i <= k}
<1>1. n \in bounds /\ bounds \in SUBSET Nat
  OBVIOUS
<1> HIDE DEF bounds
<1>2. PICK k \in bounds : \A j \in bounds : k <= j
  BY <1>1, LeastNatural
<1> USE DEF bounds
<1>3. CASE k \in T
  BY <1>2, <1>3 DEF Max
<1>4. CASE k \notin T
  <2>1. \A i \in T : i <= k - 1 /\ i >= 1
    BY <1>2, <1>4
  <2>2. PICK i \in T : TRUE
    OBVIOUS
  <2>3. k - 1 \in Nat
    BY <1>2, <2>1, <2>2
  <2>4. k - 1 \in bounds
    BY <2>1, <2>3
  <2> QED
    BY <1>2, <2>3, <2>4
<1> QED
  BY <1>3, <1>4

-----------------------------------------------------------------------------
(* What the store does between two awaits keeps its types and the places. *)

LEMMA FreeOp ==
  ASSUME NEW u \in Stores, FreeOps(u) # {} PROVE Min(FreeOps(u)) \in Ops
  BY MinOf, ChatAssumption DEF FreeOps, Ops

LEMMA FreeStream ==
  ASSUME NEW u \in Stores, FreeStreams(u) # {} PROVE Min(FreeStreams(u)) \in Streams
  BY MinOf, ChatAssumption DEF FreeStreams, Streams

LEMMA BeginKeeps ==
  ASSUME NEW u \in Stores, NEW rec \in Underway, NEW origin, FreeOps(u) # {}
  PROVE  /\ Begin(u, rec) \in Stores
         /\ /\ Placed(u, origin)
            /\ rec.kind = "send" => origin[rec.msg] = rec.thread /\ AllFrom(rec.saved, rec.thread, origin)
            => Placed(Begin(u, rec), origin)
<1>1. Min(FreeOps(u)) \in Ops
  BY FreeOp
<1>2. Begin(u, rec) = [u EXCEPT !.op = [u.op EXCEPT ![Min(FreeOps(u))] = rec]]
  BY DEF Begin
<1> QED
  BY <1>1, <1>2 DEF Stores, Placed

LEMMA OverKeeps ==
  ASSUME NEW u \in Stores, NEW o \in Ops, NEW origin
  PROVE  /\ Over(u, o) \in Stores /\ o \in FreeOps(Over(u, o))
         /\ \A f \in {"active", "queue", "streams", "draining"} : Over(u, o)[f] = u[f]
         /\ Placed(u, origin) => Placed(Over(u, o), origin)
  BY DEF Over, Stores, Placed, Idle, Underway, FreeOps

LEMMA AbortKeeps ==
  ASSUME NEW u \in Stores, NEW origin
  PROVE  /\ Abort(u) \in Stores /\ FreeOps(Abort(u)) = FreeOps(u)
         /\ Abort(u).active = u.active /\ Abort(u).queue = u.queue /\ Abort(u).op = u.op
         /\ Placed(u, origin) => Placed(Abort(u), origin)
  BY DEF Abort, Stores, Placed, FreeOps

LEMMA SubscribeKeeps ==
  ASSUME NEW u \in Stores, NEW t \in Threads, NEW after \in Nat, NEW recovers \in BOOLEAN,
         FreeStreams(u) # {}, NEW origin
  PROVE  /\ Subscribe(u, t, after, recovers) \in Stores
         /\ FreeOps(Subscribe(u, t, after, recovers)) = FreeOps(u)
         /\ Subscribe(u, t, after, recovers).queue = u.queue
         /\ Subscribe(u, t, after, recovers).active = u.active
         /\ Placed(u, origin) => Placed(Subscribe(u, t, after, recovers), origin)
<1>1. Min(FreeStreams(u)) \in Streams
  BY FreeStream
<1>2. [thread |-> t, at |-> after, recovers |-> recovers] \in Open
  BY DEF Open
<1> QED
  BY <1>1, <1>2 DEF Subscribe, Stores, Placed, FreeOps

LEMMA OpKinds ==
  ASSUME NEW u \in Stores, NEW o \in Ops
  PROVE  /\ u.op[o].kind = "send" => u.op[o] \in Sends
         /\ u.op[o].kind \in {"select", "recover"} => u.op[o] \in Loads
         /\ u.op[o].kind = "interrupt" => u.op[o] \in Stops
<1>1. u.op[o] \in Underway
  BY DEF Stores
<1> DEFINE rec == u.op[o]
<1>2. rec \in Sends => rec.kind = "send"
  BY DEF Sends
<1>3. rec \in Loads => rec.kind \in {"select", "recover"}
  BY DEF Loads
<1>4. rec \in Stops => rec.kind = "interrupt"
  BY DEF Stops
<1>5. Idle.kind = "none"
  BY DEF Idle
<1> HIDE DEF rec
<1>6. rec \in Underway
  BY <1>1 DEF rec
<1>7. /\ rec.kind = "send" => rec \in Sends
      /\ rec.kind \in {"select", "recover"} => rec \in Loads
      /\ rec.kind = "interrupt" => rec \in Stops
  BY <1>2, <1>3, <1>4, <1>5, <1>6 DEF Underway
<1> QED
  BY <1>7 DEF rec

LEMMA BeginSendKeeps ==
  ASSUME NEW u \in Stores, NEW m \in Messages, NEW rest \in Seq(Messages), FreeOps(u) # {}, NEW origin
  PROVE  /\ BeginSend(u, m, rest) \in Stores
         /\ Placed(u, origin) /\ origin[m] = u.active /\ AllFrom(rest, u.active, origin) =>
              Placed(BeginSend(u, m, rest), origin)
<1> DEFINE v   == [Abort(u) EXCEPT !.busy = TRUE, !.armed = FALSE, !.attempts = 0, !.queue = rest]
           rec == [kind |-> "send", at |-> "asking", thread |-> u.active, msg |-> m,
                   saved |-> u.queue, seq |-> u.seq, turn |-> Nil]
<1>1. rec \in Underway
  BY DEF Underway, Sends, Stores, Turns, Places
<1>2. v \in Stores /\ FreeOps(v) = FreeOps(u)
  BY AbortKeeps DEF Stores, FreeOps
<1>3. Placed(u, origin) /\ AllFrom(rest, u.active, origin) => Placed(v, origin)
  <2>1. v.active = u.active /\ v.queue = rest /\ v.op = u.op
    BY AbortKeeps DEF Stores
  <2> HIDE DEF v
  <2> QED
    BY <2>1 DEF Placed
<1>4. rec.kind = "send" /\ rec.msg = m /\ rec.thread = u.active /\ rec.saved = u.queue
  OBVIOUS
<1>5. BeginSend(u, m, rest) = Begin(v, rec)
  BY DEF BeginSend
<1>6. Placed(u, origin) => AllFrom(u.queue, u.active, origin)
  BY DEF Placed
<1> HIDE DEF v, rec
<1> QED
  BY <1>1, <1>2, <1>3, <1>4, <1>5, <1>6, BeginKeeps

\* There is room for what a drain begins, if it begins something.
HasRoom(u) == FreeOps(u) # {} \/ u.queue = <<>> \/ u.draining # Nil

LEMMA DrainKeeps ==
  ASSUME NEW u \in Stores, HasRoom(u), NEW origin
  PROVE  /\ Drain(u) \in Stores /\ HasRoom(Drain(u))
         /\ Placed(u, origin) => Placed(Drain(u), origin)
<1>1. CASE u.draining # Nil \/ u.busy \/ u.queue = <<>>
  BY <1>1 DEF Drain
<1>2. CASE ~(u.draining # Nil \/ u.busy \/ u.queue = <<>>)
  <2> DEFINE m == Head(u.queue)
             rest == Tail(u.queue)
             v == BeginSend(u, m, rest)
  <2>1. u.queue \in Seq(Messages) /\ u.queue # <<>>
    BY <1>2 DEF Stores
  <2>2. m \in Messages /\ rest \in Seq(Messages)
    BY <2>1, HeadTailProperties
  <2>3. Placed(u, origin) => origin[m] = u.active /\ AllFrom(rest, u.active, origin)
    <3>1. m = u.queue[1] /\ 1 \in DOMAIN u.queue
      BY <2>1
    <3>2. \A i \in DOMAIN rest : i + 1 \in DOMAIN u.queue /\ rest[i] = u.queue[i + 1]
      BY <2>1
    <3> QED
      BY <3>1, <3>2 DEF Placed, AllFrom
  <2> HIDE DEF m, rest
  <2>4. v \in Stores /\ (Placed(u, origin) => Placed(v, origin))
    BY <1>2, <2>2, <2>3, BeginSendKeeps DEF HasRoom
  <2>5. Min(FreeOps(u)) \in Ops /\ Min(FreeOps(u)) # Nil
    BY <1>2, FreeOp, ChatAssumption DEF HasRoom, Ops
  <2>6. Drain(u) = [v EXCEPT !.draining = Min(FreeOps(u))]
    BY <1>2 DEF Drain, m, rest
  <2> HIDE DEF v
  <2>7. Drain(u).draining # Nil
    BY <2>4, <2>5, <2>6 DEF Stores
  <2> QED
    BY <2>4, <2>5, <2>6, <2>7 DEF Stores, Placed, HasRoom
<1> QED
  BY <1>1, <1>2

LEMMA DrainOnKeeps ==
  ASSUME NEW u \in Stores, NEW o, NEW started \in BOOLEAN, FreeOps(u) # {}, NEW origin
  PROVE  DrainOn(u, o, started) \in Stores /\ (Placed(u, origin) => Placed(DrainOn(u, o, started), origin))
<1> DEFINE v == [u EXCEPT !.draining = Nil]
<1>1. v \in Stores /\ FreeOps(v) = FreeOps(u) /\ (Placed(u, origin) => Placed(v, origin))
  BY DEF Stores, FreeOps, Placed
<1>2. DrainOn(u, o, started) \in {u, v, Drain(v)}
  BY DEF DrainOn
<1> HIDE DEF v
<1> QED
  BY <1>1, <1>2, DrainKeeps DEF HasRoom

LEMMA FailedSendKeeps ==
  ASSUME NEW u \in Stores, NEW o \in Ops, u.op[o].kind = "send", NEW origin
  PROVE  /\ FailedSend(u, o) \in Stores
         /\ Placed(u, origin) /\ u.op[o].thread = u.active => Placed(FailedSend(u, o), origin)
<1> DEFINE w == Over(u, o)
           v == [w EXCEPT !.armed = FALSE, !.busy = FALSE, !.turn = Nil, !.queue = u.op[o].saved]
<1>1. u.op[o] \in Sends
  BY OpKinds
<1>2. w \in Stores /\ o \in FreeOps(w) /\ w.active = u.active /\ (Placed(u, origin) => Placed(w, origin))
  BY OverKeeps
<1> HIDE DEF w
<1>3. v \in Stores /\ o \in FreeOps(v)
  BY <1>1, <1>2 DEF Stores, FreeOps, Sends, Turns
<1>4. Placed(u, origin) /\ u.op[o].thread = u.active => Placed(v, origin)
  BY <1>1, <1>2 DEF Stores, Placed, Sends
<1>5. FailedSend(u, o) = DrainOn(v, o, FALSE)
  BY DEF FailedSend, w
<1> HIDE DEF v
<1> QED
  BY <1>3, <1>4, <1>5, DrainOnKeeps

LEMMA EndedSendKeeps ==
  ASSUME NEW u \in Stores, NEW o \in Ops, u.op[o].kind = "send", FreeStreams(u) # {}, NEW origin
  PROVE  EndedSend(u, o) \in Stores /\ (Placed(u, origin) => Placed(EndedSend(u, o), origin))
<1> DEFINE w == Over(u, o)
           x == Subscribe(w, u.op[o].thread, u.op[o].seq, TRUE)
           v == [x EXCEPT !.turn = u.op[o].turn, !.armed = TRUE]
<1>1. u.op[o] \in Sends
  BY OpKinds
<1>2. w \in Stores /\ o \in FreeOps(w) /\ w.streams = u.streams /\ (Placed(u, origin) => Placed(w, origin))
  BY OverKeeps
<1>3. EndedSend(u, o) = DrainOn(v, o, TRUE)
  BY DEF EndedSend
<1> HIDE DEF w
<1>4. FreeStreams(w) # {} /\ u.op[o].thread \in Threads /\ u.op[o].seq \in Nat /\ u.op[o].turn \in Turns
  BY <1>1, <1>2 DEF FreeStreams, Sends
<1>5. x \in Stores /\ FreeOps(x) = FreeOps(w) /\ (Placed(w, origin) => Placed(x, origin))
  BY <1>2, <1>4, SubscribeKeeps
<1> HIDE DEF x
<1>6. v \in Stores /\ FreeOps(v) = FreeOps(w) /\ (Placed(w, origin) => Placed(v, origin))
  BY <1>4, <1>5 DEF Stores, FreeOps, Placed
<1> HIDE DEF v
<1> QED
  BY <1>2, <1>3, <1>6, DrainOnKeeps

LEMMA BeginLoadKeeps ==
  ASSUME ChatTypeOK, NEW u \in Stores, NEW kind \in {"select", "recover"}, NEW t \in Threads,
         FreeOps(u) # {}, NEW origin
  PROVE  BeginLoad(u, kind, t) \in Stores /\ (Placed(u, origin) => Placed(BeginLoad(u, kind, t), origin))
<1> DEFINE w == Abort(u)
           v == [w EXCEPT !.armed = FALSE, !.attempts = IF kind = "select" THEN 0 ELSE @]
           rec == [kind |-> kind, thread |-> t, turn |-> u.turn, busy |-> u.busy, from |-> Len(log[t])]
<1>1. Len(log[t]) \in Nat
  BY DEF ChatTypeOK
<1>2. rec \in Underway /\ rec.kind # "send"
  BY <1>1 DEF Underway, Loads, Stores
<1>3. w \in Stores /\ FreeOps(w) = FreeOps(u) /\ (Placed(u, origin) => Placed(w, origin))
  BY AbortKeeps
<1>4. BeginLoad(u, kind, t) = Begin(v, rec)
  BY DEF BeginLoad
<1> HIDE DEF w, rec
<1>5. v \in Stores /\ v.active = w.active /\ v.queue = w.queue /\ v.op = w.op
  BY <1>3 DEF Stores
<1> HIDE DEF v
<1>6. FreeOps(v) = FreeOps(w) /\ (Placed(w, origin) => Placed(v, origin))
  BY <1>5 DEF FreeOps, Placed
<1> QED
  BY <1>2, <1>3, <1>4, <1>5, <1>6, BeginKeeps

LEMMA BeginRecoverKeeps ==
  ASSUME ChatTypeOK, NEW u \in Stores, FreeOps(u) # {}, NEW origin
  PROVE  BeginRecover(u) \in Stores /\ (Placed(u, origin) => Placed(BeginRecover(u), origin))
<1>1. u.active \in Threads
  BY DEF Stores
<1> QED
  BY <1>1, BeginLoadKeeps DEF BeginRecover

LEMMA LoadedKeeps ==
  ASSUME NEW u \in Stores, NEW t \in Threads, NEW status, NEW n \in Nat, NEW turn \in Turns, NEW origin
  PROVE  /\ Loaded(u, t, status, n, turn) \in Stores
         /\ Loaded(u, t, status, n, turn).streams = u.streams
         /\ Loaded(u, t, status, n, turn).op = u.op
         /\ Placed(u, origin) /\ t = u.active => Placed(Loaded(u, t, status, n, turn), origin)
<1> DEFINE runs == RunningAt(t, status) # {}
           v == [u EXCEPT !.active = t, !.seq = n, !.base = n, !.shown = <<>>, !.busy = runs,
                          !.turn = IF ~runs THEN Nil ELSE turn, !.armed = @ \/ runs]
<1>1. Loaded(u, t, status, n, turn) = v
  BY DEF Loaded
<1>2. runs \in BOOLEAN /\ u.armed \in BOOLEAN
  BY DEF Stores
<1> HIDE DEF runs
<1>3. (u.armed \/ runs) \in BOOLEAN /\ (IF ~runs THEN Nil ELSE turn) \in Turns /\ <<>> \in Seq(Nat)
  BY <1>2 DEF Turns
<1>4. v \in Stores
  BY <1>2, <1>3 DEF Stores
<1>5. /\ v.streams = u.streams /\ v.op = u.op /\ v.queue = u.queue /\ v.active = t
  BY DEF Stores
<1> HIDE DEF v
<1> QED
  BY <1>1, <1>4, <1>5 DEF Placed

\* The last turn that runs.
LEMMA LatestTurn ==
  ASSUME NEW t, NEW n \in Nat PROVE Latest(t, n) \in Turns
<1> DEFINE runs == RunningAt(t, n)
<1>1. runs \in SUBSET (1..n)
  BY DEF RunningAt
<1>2. Latest(t, n) = IF runs = {} THEN Nil ELSE Max(runs)
  BY DEF Latest
<1> HIDE DEF runs
<1>3. CASE runs = {}
  BY <1>2, <1>3 DEF Turns
<1>4. CASE runs # {}
  <2>1. Max(runs) \in 1..n
    BY <1>1, <1>4, MaxOf
  <2>2. Max(runs) \in Nat
    BY <2>1
  <2> QED
    BY <1>2, <1>4, <2>2 DEF Turns
<1> QED
  BY <1>3, <1>4

LEMMA SelectedKeeps ==
  ASSUME NEW u \in Stores, NEW o \in Ops, u.op[o].kind = "select", FreeStreams(u) # {},
         NEW status \in Nat, NEW n \in Nat, NEW origin
  PROVE  /\ Selected(u, o, status, n) \in Stores
         /\ Placed(u, origin) => Placed(Selected(u, o, status, n), origin)
<1> DEFINE t == u.op[o].thread
           w == Over(u, o)
           x == Loaded(w, t, status, n, Latest(t, status))
           y == Subscribe(x, t, n, TRUE)
           v == [y EXCEPT !.queue = <<>>]
<1>1. t \in Threads /\ Latest(t, status) \in Turns
  BY OpKinds, LatestTurn DEF Loads
<1>2. Selected(u, o, status, n) = v
  BY DEF Selected
<1>3. w \in Stores /\ w.streams = u.streams /\ (Placed(u, origin) => Placed(w, origin))
  BY OverKeeps
<1> HIDE DEF w, t
<1>4. x \in Stores /\ x.streams = w.streams /\ x.op = w.op
  BY <1>1, <1>3, LoadedKeeps
<1> HIDE DEF x
<1>5. FreeStreams(x) # {}
  BY <1>3, <1>4 DEF FreeStreams
<1>6. y \in Stores /\ y.op = x.op
  BY <1>1, <1>4, <1>5, FreeStream DEF Subscribe, Stores, Open
<1> HIDE DEF y
<1>7. v \in Stores /\ v.op = y.op /\ v.queue = <<>>
  BY <1>6, EmptySeq DEF Stores
<1>8. Placed(w, origin) => Placed(v, origin)
  BY <1>4, <1>6, <1>7 DEF Placed, AllFrom
<1> QED
  BY <1>2, <1>3, <1>7, <1>8

LEMMA RecoveredKeeps ==
  ASSUME NEW u \in Stores, NEW o \in Ops, u.op[o].kind = "recover", FreeStreams(u) # {},
         NEW status \in Nat, NEW n \in Nat, NEW origin
  PROVE  /\ Recovered(u, o, status, n) \in Stores
         /\ Placed(u, origin) /\ u.op[o].thread = u.active => Placed(Recovered(u, o, status, n), origin)
<1> DEFINE t == u.op[o].thread
           turn == IF u.op[o].turn # Nil THEN u.op[o].turn ELSE Latest(t, status)
           w == Over(u, o)
           x == Loaded(w, t, status, n, turn)
           y == Subscribe(x, t, n, FALSE)
           v == [y EXCEPT !.attempts = 0]
<1>1. t \in Threads /\ turn \in Turns
  BY OpKinds, LatestTurn DEF Loads
<1>2. Recovered(u, o, status, n) = IF y.busy THEN y ELSE Drain(v)
  BY DEF Recovered
<1>3. /\ w \in Stores /\ w.streams = u.streams /\ w.active = u.active /\ o \in FreeOps(w)
      /\ Placed(u, origin) => Placed(w, origin)
  BY OverKeeps
<1> HIDE DEF w, t, turn
<1>4. /\ x \in Stores /\ x.streams = w.streams /\ x.op = w.op
      /\ Placed(w, origin) /\ t = w.active => Placed(x, origin)
  BY <1>1, <1>3, LoadedKeeps
<1> HIDE DEF x
<1>5. FreeStreams(x) # {} /\ FreeOps(x) = FreeOps(w)
  BY <1>3, <1>4 DEF FreeStreams, FreeOps
<1>6. y \in Stores /\ FreeOps(y) = FreeOps(x) /\ (Placed(x, origin) => Placed(y, origin))
  BY <1>1, <1>4, <1>5, SubscribeKeeps
<1> HIDE DEF y
<1>7. v \in Stores /\ FreeOps(v) = FreeOps(y) /\ (Placed(y, origin) => Placed(v, origin))
  BY <1>6 DEF Stores, FreeOps, Placed
<1> HIDE DEF v
<1>8. Drain(v) \in Stores /\ (Placed(v, origin) => Placed(Drain(v), origin))
  BY <1>3, <1>5, <1>6, <1>7, DrainKeeps DEF HasRoom
<1>9. t = u.op[o].thread
  BY DEF t
<1> QED
  BY <1>2, <1>3, <1>4, <1>6, <1>7, <1>8, <1>9

LEMMA FailedLoadKeeps ==
  ASSUME NEW u \in Stores, NEW o \in Ops, u.op[o].kind \in {"select", "recover"}, NEW origin
  PROVE  FailedLoad(u, o) \in Stores /\ (Placed(u, origin) => Placed(FailedLoad(u, o), origin))
<1> DEFINE w == Over(u, o)
           b == u.op[o].kind = "recover" /\ u.op[o].busy
<1>1. w \in Stores /\ (Placed(u, origin) => Placed(w, origin))
  BY OverKeeps
<1>2. FailedLoad(u, o) = [w EXCEPT !.armed = @ \/ b]
  BY DEF FailedLoad
<1> HIDE DEF w, b
<1>3. (w.armed \/ b) \in BOOLEAN
  OBVIOUS
<1> QED
  BY <1>1, <1>2, <1>3 DEF Stores, Placed

LEMMA InterruptedKeeps ==
  ASSUME NEW u \in Stores, NEW o \in Ops, NEW origin
  PROVE  Interrupted(u, o) \in Stores /\ (Placed(u, origin) => Placed(Interrupted(u, o), origin))
<1> DEFINE w == Over(u, o)
           v == [w EXCEPT !.attempts = 0, !.armed = FALSE, !.busy = FALSE, !.turn = Nil]
<1>1. w \in Stores /\ o \in FreeOps(w) /\ (Placed(u, origin) => Placed(w, origin))
  BY OverKeeps
<1>2. Interrupted(u, o) = Drain(v)
  BY DEF Interrupted
<1> HIDE DEF w
<1>3. v \in Stores /\ FreeOps(v) = FreeOps(w) /\ (Placed(w, origin) => Placed(v, origin))
  BY <1>1 DEF Stores, FreeOps, Placed, Turns
<1> HIDE DEF v
<1> QED
  BY <1>1, <1>2, <1>3, DrainKeeps DEF HasRoom

LEMMA CompletedKeeps ==
  ASSUME NEW u \in Stores, HasRoom(u), NEW origin
  PROVE  /\ Completed(u) \in Stores /\ HasRoom(Completed(u))
         /\ Placed(u, origin) => Placed(Completed(u), origin)
<1> DEFINE v == [u EXCEPT !.armed = FALSE, !.busy = FALSE, !.turn = Nil]
<1>1. v \in Stores /\ FreeOps(v) = FreeOps(u) /\ v.queue = u.queue /\ v.draining = u.draining
  BY DEF Stores, FreeOps, Turns
<1>2. Placed(u, origin) => Placed(v, origin)
  BY DEF Stores, Placed
<1>3. Completed(u) = Drain(v)
  BY DEF Completed
<1> HIDE DEF v
<1> QED
  BY <1>1, <1>2, <1>3, DrainKeeps DEF HasRoom

LEMMA ErroredFields ==
  ASSUME NEW u \in Stores, NEW cancelled \in BOOLEAN
  PROVE  LET v == Errored(u, cancelled) IN
         /\ v \in Stores /\ FreeOps(v) = FreeOps(u) /\ v.queue = u.queue /\ v.draining = u.draining
         /\ v.active = u.active /\ v.seq = u.seq /\ v.base = u.base /\ v.shown = u.shown
         /\ v.op = u.op /\ v.ref = u.ref /\ v.streams = u.streams
         /\ ~cancelled => v.busy = u.busy /\ (u.busy => v.turn = u.turn)
         /\ ~v.busy => v.turn = Nil
<1>1. u.busy \in BOOLEAN /\ u.turn \in Turns /\ Nil \in Turns
  BY DEF Stores, Turns
<1> DEFINE waits == u.busy /\ ~cancelled
           turn  == IF waits THEN u.turn ELSE Nil
           v     == [u EXCEPT !.attempts = 0, !.armed = waits, !.busy = waits, !.turn = turn]
<1>2. waits \in BOOLEAN /\ turn \in Turns
  BY <1>1
<1>3. Errored(u, cancelled) = v
  BY DEF Errored, Stores
<1>4. (~cancelled => waits = u.busy) /\ (waits => turn = u.turn) /\ (~waits => turn = Nil)
  BY <1>1
<1> HIDE DEF waits, turn
<1>5. v \in Stores /\ v.busy = waits /\ v.turn = turn
  BY <1>2 DEF Stores
<1>6. /\ v.queue = u.queue /\ v.draining = u.draining
      /\ v.active = u.active /\ v.seq = u.seq /\ v.base = u.base /\ v.shown = u.shown
      /\ v.op = u.op /\ v.ref = u.ref /\ v.streams = u.streams
  BY DEF Stores
<1> HIDE DEF v
<1>7. FreeOps(v) = FreeOps(u)
  BY <1>6 DEF FreeOps
<1> QED
  BY <1>3, <1>4, <1>5, <1>6, <1>7

LEMMA ApplyKeeps ==
  ASSUME NEW u \in Stores, HasRoom(u), NEW s \in Streams, NEW event \in Events, NEW n \in Nat, NEW origin
  PROVE  /\ Apply(u, s, event, n) \in Stores /\ HasRoom(Apply(u, s, event, n))
         /\ Placed(u, origin) => Placed(Apply(u, s, event, n), origin)
<1>1. event.kind \in {"user", "delta", "done", "failed", "cancelled"} /\ event.turn \in Turns
  BY DEF Events, EndKinds
<1>2. CASE u.streams[s] = Nil
  BY <1>2 DEF Apply
<1>3. CASE u.streams[s] # Nil /\ event.kind = "user"
  <2> DEFINE v == [u EXCEPT !.busy = TRUE, !.turn = event.turn, !.armed = TRUE]
  <2>1. v \in Stores /\ FreeOps(v) = FreeOps(u) /\ v.queue = u.queue /\ v.draining = u.draining
    BY <1>1 DEF Stores, FreeOps
  <2>2. Placed(u, origin) => Placed(v, origin)
    BY DEF Stores, Placed
  <2>3. Apply(u, s, event, n) = v
    BY <1>3 DEF Apply
  <2> HIDE DEF v
  <2> QED
    BY <2>1, <2>2, <2>3 DEF HasRoom
<1>4. CASE u.streams[s] # Nil /\ event.kind = "delta"
  <2> DEFINE v == [u EXCEPT !.shown = Append(@, n), !.armed = @ \/ ~u.busy, !.busy = TRUE]
  <2>1. Append(u.shown, n) \in Seq(Nat) /\ (u.armed \/ ~u.busy) \in BOOLEAN
    BY DEF Stores
  <2>2. v \in Stores /\ FreeOps(v) = FreeOps(u) /\ v.queue = u.queue /\ v.draining = u.draining
    BY <2>1 DEF Stores, FreeOps
  <2>3. Placed(u, origin) => Placed(v, origin)
    BY DEF Stores, Placed
  <2>4. Apply(u, s, event, n) = v
    BY <1>4 DEF Apply
  <2> HIDE DEF v
  <2> QED
    BY <2>2, <2>3, <2>4 DEF HasRoom
<1>5. CASE u.streams[s] # Nil /\ event.kind = "done"
  <2>1. Apply(u, s, event, n) = Completed(u)
    BY <1>5 DEF Apply
  <2> QED
    BY <2>1, CompletedKeeps
<1>6. CASE u.streams[s] # Nil /\ event.kind \in {"failed", "cancelled"}
  <2> DEFINE cancelled == event.kind = "cancelled"
             v == Errored(u, cancelled)
  <2>1. Apply(u, s, event, n) = v
    BY <1>6 DEF Apply
  <2>2. cancelled \in BOOLEAN
    OBVIOUS
  <2> HIDE DEF cancelled
  <2>3. /\ v \in Stores /\ FreeOps(v) = FreeOps(u) /\ v.queue = u.queue /\ v.draining = u.draining
        /\ v.active = u.active /\ v.op = u.op
    BY <2>2, ErroredFields
  <2> HIDE DEF v
  <2> QED
    BY <2>1, <2>3 DEF HasRoom, Placed
<1> QED
  BY <1>1, <1>2, <1>3, <1>4, <1>5, <1>6

\* What a batch makes of the store, event by event.
Dispatches(f, first, n, v, s, t) ==
  f = [k \in first..n |-> IF k = first THEN v ELSE Apply(f[k - 1], s, log[t][k], k)]

\* There is such a function: by induction on the length of the batch.
LEMMA BatchExists ==
  ASSUME NEW first \in Nat, NEW v, NEW s, NEW t
  PROVE  \A n \in Nat : first <= n => \E f : Dispatches(f, first, n, v, s, t)
<1> DEFINE Batch(n) == \E f : Dispatches(f, first, n, v, s, t)
           failing == {n \in Nat : first <= n /\ ~Batch(n)}
<1> SUFFICES ASSUME failing # {} PROVE FALSE
  OBVIOUS
<1>1. PICK n \in failing : \A m \in failing : n <= m
  <2>1. failing \in SUBSET Nat
    OBVIOUS
  <2> HIDE DEF failing
  <2> QED
    BY <2>1, LeastNatural
<1>2. n \in Nat /\ first <= n /\ ~Batch(n)
  BY <1>1
<1>3. CASE n = first
  <2> DEFINE f == [k \in first..n |-> v]
  <2>1. Dispatches(f, first, n, v, s, t)
    BY <1>2, <1>3 DEF Dispatches
  <2> QED
    BY <1>2, <2>1
<1>4. CASE n # first
  <2>1. n - 1 \in Nat /\ first <= n - 1 /\ n - 1 < n
    BY <1>2, <1>4
  <2>2. Batch(n - 1)
    <3>1. n - 1 \notin failing
      <4> HIDE DEF failing
      <4> QED
        BY <1>1, <1>2, <2>1
    <3> QED
      BY <2>1, <3>1
  <2>3. PICK g : g = [k \in first..n - 1 |-> IF k = first THEN v ELSE Apply(g[k - 1], s, log[t][k], k)]
    BY <2>2 DEF Dispatches
  <2> DEFINE f == [k \in first..n |-> IF k = n THEN Apply(g[n - 1], s, log[t][n], n) ELSE g[k]]
  <2>4. \A k \in first..n : k # n => f[k] = IF k = first THEN v ELSE Apply(g[k - 1], s, log[t][k], k)
    BY <1>2, <2>1, <2>3
  <2>5. \A k \in first..n : k # first => f[k - 1] = g[k - 1]
    BY <1>2, <2>1
  <2>6. \A k \in first..n : f[k] = IF k = first THEN v ELSE Apply(f[k - 1], s, log[t][k], k)
    BY <1>2, <1>4, <2>1, <2>4, <2>5
  <2>7. f = [k \in first..n |-> f[k]]
    OBVIOUS
  <2> HIDE DEF f
  <2>8. f = [k \in first..n |-> IF k = first THEN v ELSE Apply(f[k - 1], s, log[t][k], k)]
    BY <2>6, <2>7
  <2> QED
    BY <1>2, <2>8 DEF Dispatches
<1> QED
  BY <1>3, <1>4

LEMMA DispatchedKeeps ==
  ASSUME ChatTypeOK, NEW u \in Stores, HasRoom(u), NEW s \in Streams, u.streams[s] # Nil,
         NEW n \in (u.streams[s].at + 1)..Len(log[u.streams[s].thread]), NEW origin
  PROVE  Dispatched(u, s, n) \in Stores /\ (Placed(u, origin) => Placed(Dispatched(u, s, n), origin))
<1> DEFINE t     == u.streams[s].thread
           first == u.streams[s].at
           v     == [u EXCEPT !.streams[s].at = n]
           w     == [v EXCEPT !.seq = n, !.attempts = 0]
           after == CHOOSE f : f = [k \in first..n |-> IF k = first THEN w ELSE Apply(f[k - 1], s, log[t][k], k)]
<1>1. u.streams[s] \in Open
  BY DEF Stores
<1>2. t \in Threads /\ first \in Nat
  BY <1>1 DEF Open
<1>3. log[t] \in Seq(Events)
  BY <1>2 DEF ChatTypeOK
<1>4. n \in Nat /\ first < n /\ n <= Len(log[t])
  BY <1>2, <1>3
<1>5. Dispatched(u, s, n) = IF u.active # t THEN v ELSE after[n]
  BY DEF Dispatched
<1>6. v \in Stores /\ FreeOps(v) = FreeOps(u) /\ v.queue = u.queue /\ v.draining = u.draining
  <2>1. [u.streams[s] EXCEPT !.at = n] \in Open
    BY <1>1, <1>4 DEF Open
  <2> QED
    BY <2>1 DEF Stores, FreeOps
<1>7. Placed(u, origin) => Placed(v, origin)
  BY DEF Stores, Placed
<1> HIDE DEF v
<1>8. w \in Stores /\ FreeOps(w) = FreeOps(v) /\ w.queue = v.queue /\ w.draining = v.draining
  BY <1>4, <1>6 DEF Stores, FreeOps
<1>9. Placed(v, origin) => Placed(w, origin)
  BY <1>6 DEF Stores, Placed
<1>10. w \in Stores /\ HasRoom(w) /\ (Placed(u, origin) => Placed(w, origin))
  BY <1>6, <1>7, <1>8, <1>9 DEF HasRoom
<1> HIDE DEF w, t, first
<1>11. after = [k \in first..n |-> IF k = first THEN w ELSE Apply(after[k - 1], s, log[t][k], k)]
  <2>1. \E f : Dispatches(f, first, n, w, s, t)
    <3>1. first <= n
      BY <1>2, <1>4
    <3>2. \A m \in Nat : first <= m => \E f : Dispatches(f, first, m, w, s, t)
      BY <1>2, BatchExists
    <3> QED
      BY <1>4, <3>1, <3>2
  <2> QED
    BY <2>1, Zenon DEF Dispatches
<1> HIDE DEF after
<1> DEFINE Kept(k) == after[k] \in Stores /\ HasRoom(after[k]) /\ (Placed(u, origin) => Placed(after[k], origin))
           failing == {k \in first..n : ~Kept(k)}
<1>12. failing = {}
  <2> SUFFICES ASSUME failing # {} PROVE FALSE
    OBVIOUS
  <2>1. PICK k \in failing : \A m \in failing : k <= m
    <3>1. failing \in SUBSET Nat
      BY <1>2
    <3> HIDE DEF failing
    <3> QED
      BY <3>1, LeastNatural
  <2>2. k \in first..n /\ ~Kept(k)
    BY <2>1
  <2>3. CASE k = first
    BY <1>10, <1>11, <2>2, <2>3
  <2>4. CASE k # first
    <3>1. k - 1 \in first..n /\ k - 1 < k /\ k \in 1..Len(log[t]) /\ k \in Nat
      BY <1>2, <1>3, <1>4, <2>2, <2>4
    <3>2. Kept(k - 1)
      <4>1. k - 1 \notin failing
        <5> HIDE DEF failing
        <5> QED
          BY <2>1, <3>1, <1>2
      <4> QED
        BY <3>1, <4>1
    <3>3. after[k] = Apply(after[k - 1], s, log[t][k], k)
      BY <1>11, <2>2, <2>4
    <3>4. log[t][k] \in Events
      BY <1>3, <3>1, ElementOfSeq
    <3> QED
      BY <2>2, <3>1, <3>2, <3>3, <3>4, ApplyKeeps
  <2> QED
    BY <2>3, <2>4
<1>13. Kept(n)
  <2>1. n \in first..n
    BY <1>2, <1>4
  <2> QED
    BY <1>12, <2>1
<1> QED
  BY <1>5, <1>6, <1>7, <1>13

-----------------------------------------------------------------------------
(* The actions of the chat. *)

LEMMA ChatInvInit == ChatInit => ChatInv
<1> SUFFICES ASSUME ChatInit PROVE ChatInv
  OBVIOUS
<1>1. PICK t \in Threads :
        ui = [active |-> t, seq |-> 0, busy |-> FALSE, turn |-> Nil, queue |-> <<>>,
              ref |-> Nil, streams |-> [s \in Streams |-> Nil], armed |-> FALSE, attempts |-> 0,
              draining |-> Nil, op |-> [o \in Ops |-> Idle], base |-> 0, shown |-> <<>>]
  BY DEF ChatInit
<1>2. ui \in Stores
  BY <1>1, EmptySeq DEF Stores, Turns, Underway
<1>3. ChatTypeOK
  BY <1>2, EmptySeq DEF ChatInit, ChatTypeOK
<1>4. \A o \in Ops : ui.op[o].kind # "send"
  BY <1>1 DEF Idle
<1>5. ui.queue = <<>> /\ \A m \in Messages : sent[m] = <<>>
  BY <1>1 DEF ChatInit
<1>6. Placed(ui, typed)
  BY <1>4, <1>5 DEF Placed, AllFrom
<1>7. SentWhereTyped
  BY <1>5 DEF SentWhereTyped
<1> QED
  BY <1>3, <1>6, <1>7 DEF ChatInv

\* A step of the store that leaves the runtime alone.
LEMMA StoreStep ==
  ASSUME ChatInv, UNCHANGED <<log, typed, sent>>, NEW u \in Stores, Store(u),
         crossed' \in BOOLEAN, early' \in BOOLEAN, calls' \in Nat, faults' \in Nat,
         crossed => crossed', ~crossed' /\ Placed(ui, typed) => Placed(u, typed)
  PROVE  ChatInv'
<1>1. ui' = u /\ overlap' \in BOOLEAN
  BY DEF Store, ChatInv, ChatTypeOK
<1>2. ChatTypeOK'
  BY <1>1 DEF ChatInv, ChatTypeOK
<1>3. ~crossed' => Placed(ui', typed')
  BY <1>1 DEF ChatInv
<1>4. ~crossed' => SentWhereTyped'
  BY DEF ChatInv, SentWhereTyped
<1> QED
  BY <1>2, <1>3, <1>4 DEF ChatInv

LEMMA TypeMessage == ASSUME ChatInv, NEW m \in Messages, Type(m) PROVE ChatInv'
<1>1. /\ typed[m] = Nil /\ typed' = [typed EXCEPT ![m] = ui.active]
      /\ UNCHANGED <<log, sent, crossed, early, calls, faults>>
  BY DEF Type
<1>2. ChatTypeOK /\ ui \in Stores /\ ui.active \in Threads /\ ui.queue \in Seq(Messages)
  BY DEF ChatInv, ChatTypeOK, Stores
<1>3. typed \in [Messages -> Threads \union {Nil}] /\ typed' \in [Messages -> Threads \union {Nil}]
  BY <1>1, <1>2 DEF ChatTypeOK
<1>4. typed'[m] = ui.active /\ \A x \in Messages : typed[x] \in Threads => typed'[x] = typed[x]
  BY <1>1, <1>3, ChatAssumption
\* What was typed before stays where it was.
<1>5. ASSUME NEW queue \in Seq(Messages), NEW t \in Threads, AllFrom(queue, t, typed)
      PROVE  AllFrom(queue, t, typed')
  <2>1. ASSUME NEW i \in DOMAIN queue PROVE typed'[queue[i]] = t
    <3>1. queue[i] \in Messages /\ typed[queue[i]] = t
      BY <1>5, <2>1, ElementOfSeq DEF AllFrom
    <3> QED
      BY <1>4, <3>1
  <2> QED
    BY <2>1 DEF AllFrom
<1>6. Placed(ui, typed) => Placed(ui, typed')
  <2> SUFFICES ASSUME Placed(ui, typed) PROVE Placed(ui, typed')
    OBVIOUS
  <2>1. AllFrom(ui.queue, ui.active, typed')
    BY <1>2, <1>5 DEF Placed
  <2>2. ASSUME NEW o \in Ops, ui.op[o].kind = "send"
        PROVE  /\ typed'[ui.op[o].msg] = ui.op[o].thread
               /\ AllFrom(ui.op[o].saved, ui.op[o].thread, typed')
    <3>1. /\ ui.op[o].msg \in Messages /\ ui.op[o].thread \in Threads
          /\ ui.op[o].saved \in Seq(Messages)
      BY <1>2, <2>2, OpKinds DEF Sends
    <3>2. /\ typed[ui.op[o].msg] = ui.op[o].thread
          /\ AllFrom(ui.op[o].saved, ui.op[o].thread, typed)
      BY <2>2 DEF Placed
    <3> QED
      BY <1>4, <1>5, <3>1, <3>2
  <2> QED
    BY <2>1, <2>2 DEF Placed
<1>7. ui' \in Stores /\ overlap' \in BOOLEAN /\ (Placed(ui, typed') => Placed(ui', typed'))
  <2>1. CASE ui.busy
    <3> DEFINE v == [ui EXCEPT !.queue = Append(@, m)]
    <3>1. ui' = v /\ overlap' \in BOOLEAN
      BY <1>2, <2>1 DEF Type, Store, ChatTypeOK
    <3>2. v \in Stores /\ v.queue = Append(ui.queue, m) /\ v.active = ui.active /\ v.op = ui.op
      BY <1>2, AppendProperties DEF Stores
    <3>3. AllFrom(ui.queue, ui.active, typed') => AllFrom(Append(ui.queue, m), ui.active, typed')
      BY <1>2, <1>4, AppendProperties DEF AllFrom
    <3> HIDE DEF v
    <3> QED
      BY <3>1, <3>2, <3>3 DEF Placed
  <2>2. CASE ~ui.busy
    <3>1. ui' = BeginSend(ui, m, ui.queue) /\ overlap' \in BOOLEAN /\ FreeOps(ui) # {}
      BY <1>2, <2>2 DEF Type, Store, ChatTypeOK, Room
    <3>2. Placed(ui, typed') => AllFrom(ui.queue, ui.active, typed')
      BY DEF Placed
    <3> QED
      BY <1>2, <1>4, <3>1, <3>2, BeginSendKeeps
  <2> QED
    BY <2>1, <2>2
<1>8. ChatTypeOK'
  BY <1>1, <1>2, <1>3, <1>7 DEF ChatTypeOK
<1>9. ~crossed => SentWhereTyped'
  <2> SUFFICES ASSUME ~crossed, NEW x \in Messages, NEW i \in DOMAIN sent[x]
               PROVE  sent[x][i] = typed'[x]
    BY <1>1 DEF SentWhereTyped
  <2>1. sent[x] \in Seq(Threads) /\ sent[x][i] \in Threads
    <3>1. sent[x] \in Seq(Threads)
      BY <1>2 DEF ChatTypeOK
    <3> QED
      BY <3>1, ElementOfSeq
  <2>2. sent[x][i] = typed[x]
    BY DEF ChatInv, SentWhereTyped
  <2> QED
    BY <1>4, <2>1, <2>2
<1> QED
  BY <1>1, <1>6, <1>7, <1>8, <1>9 DEF ChatInv

LEMMA UserStep ==
  ASSUME ChatInv, (\E t \in Threads : Select(t)) \/ Interrupt PROVE ChatInv'
<1>1. ChatTypeOK /\ ui \in Stores
  BY DEF ChatInv, ChatTypeOK
<1>2. ASSUME NEW t \in Threads, Select(t) PROVE ChatInv'
  <2>1. /\ FreeOps(ui) # {} /\ Store(BeginLoad(ui, "select", t)) /\ calls' = calls + 1
        /\ UNCHANGED <<log, typed, sent, crossed, early, faults>>
    BY <1>2 DEF Select, Room
  <2>2. /\ BeginLoad(ui, "select", t) \in Stores
        /\ Placed(ui, typed) => Placed(BeginLoad(ui, "select", t), typed)
    BY <1>1, <2>1, BeginLoadKeeps
  <2> QED
    BY <1>1, <2>1, <2>2, StoreStep DEF ChatTypeOK
<1>3. CASE Interrupt
  <2> DEFINE rec == [kind |-> "interrupt", at |-> "asking", thread |-> ui.active, turn |-> ui.turn]
  <2>1. /\ FreeOps(ui) # {} /\ Store(Begin(ui, rec)) /\ calls' = calls + 1
        /\ UNCHANGED <<log, typed, sent, crossed, early, faults>>
    BY <1>3 DEF Interrupt, Room
  <2>2. rec \in Underway /\ rec.kind # "send"
    BY <1>1 DEF Underway, Stops, Stores, Places
  <2> HIDE DEF rec
  <2>3. Begin(ui, rec) \in Stores /\ (Placed(ui, typed) => Placed(Begin(ui, rec), typed))
    BY <1>1, <2>1, <2>2, BeginKeeps
  <2> QED
    BY <1>1, <2>1, <2>3, StoreStep DEF ChatTypeOK
<1> QED
  BY <1>2, <1>3

LEMMA LoadEnds ==
  ASSUME ChatInv, NEW o \in Ops, EndLoad(o) \/ FailLoad(o) PROVE ChatInv'
<1>1. ChatTypeOK /\ ui \in Stores
  BY DEF ChatInv, ChatTypeOK
<1>2. ui.op[o].kind \in {"select", "recover"} /\ UNCHANGED <<log, typed, sent, early, calls>>
  BY DEF EndLoad, FailLoad
<1>3. ui.op[o].thread \in Threads /\ ui.op[o].from \in Nat
  BY <1>1, <1>2, OpKinds DEF Loads
<1>4. CASE EndLoad(o)
  <2>1. /\ FreeStreams(ui) # {} /\ UNCHANGED faults
        /\ crossed' = (crossed \/ (ui.op[o].kind = "recover" /\ ui.op[o].thread # ui.active))
    BY <1>4 DEF EndLoad
  <2>2. PICK n \in ui.op[o].from..Len(log[ui.op[o].thread]) : \E status \in ui.op[o].from..n :
          Store(IF ui.op[o].kind = "select" THEN Selected(ui, o, status, n) ELSE Recovered(ui, o, status, n))
    BY <1>4 DEF EndLoad
  <2>3. PICK status \in ui.op[o].from..n :
          Store(IF ui.op[o].kind = "select" THEN Selected(ui, o, status, n) ELSE Recovered(ui, o, status, n))
    BY <2>2
  <2>4. Len(log[ui.op[o].thread]) \in Nat
    BY <1>1, <1>3 DEF ChatTypeOK
  <2>5. n \in Nat /\ status \in Nat
    BY <1>3, <2>2, <2>3, <2>4
  <2>6. crossed' \in BOOLEAN /\ (crossed => crossed') /\ early' \in BOOLEAN /\ calls' \in Nat /\ faults' \in Nat
    BY <1>1, <1>2, <2>1 DEF ChatTypeOK
  <2>7. CASE ui.op[o].kind = "select"
    <3>1. Store(Selected(ui, o, status, n))
      BY <2>3, <2>7
    <3>2. /\ Selected(ui, o, status, n) \in Stores
          /\ Placed(ui, typed) => Placed(Selected(ui, o, status, n), typed)
      BY <1>1, <2>1, <2>5, <2>7, SelectedKeeps
    <3> QED
      BY <1>2, <2>6, <3>1, <3>2, StoreStep
  <2>8. CASE ui.op[o].kind = "recover"
    <3>1. Store(Recovered(ui, o, status, n))
      BY <2>3, <2>8
    <3>2. /\ Recovered(ui, o, status, n) \in Stores
          /\ Placed(ui, typed) /\ ui.op[o].thread = ui.active => Placed(Recovered(ui, o, status, n), typed)
      BY <1>1, <2>1, <2>5, <2>8, RecoveredKeeps
    <3>3. ~crossed' => ui.op[o].thread = ui.active
      BY <2>1, <2>8
    <3> QED
      BY <1>2, <2>6, <3>1, <3>2, <3>3, StoreStep
  <2> QED
    BY <1>2, <2>7, <2>8
<1>5. CASE FailLoad(o)
  <2>1. Store(FailedLoad(ui, o)) /\ crossed' = crossed /\ faults' = faults + 1
    BY <1>5 DEF FailLoad, Fault
  <2>2. FailedLoad(ui, o) \in Stores /\ (Placed(ui, typed) => Placed(FailedLoad(ui, o), typed))
    BY <1>1, <1>2, FailedLoadKeeps
  <2> QED
    BY <1>1, <1>2, <2>1, <2>2, StoreStep DEF ChatTypeOK
<1> QED
  BY <1>4, <1>5

LEMMA RequestEnds ==
  ASSUME ChatInv, NEW o \in Ops, Return(o) \/ FailSend(o) \/ FailInterrupt(o) PROVE ChatInv'
<1>1. ChatTypeOK /\ ui \in Stores
  BY DEF ChatInv, ChatTypeOK
<1>2. CASE Return(o)
  <2> DEFINE u == IF ui.op[o].kind = "send" THEN EndedSend(ui, o) ELSE Interrupted(ui, o)
  <2>1. /\ FreeStreams(ui) # {} /\ Store(u) /\ UNCHANGED <<log, typed, sent, crossed, calls, faults>>
        /\ early' \in BOOLEAN
    BY <1>1, <1>2 DEF Return, ChatTypeOK
  <2>2. u \in Stores /\ (Placed(ui, typed) => Placed(u, typed))
    BY <1>1, <2>1, EndedSendKeeps, InterruptedKeeps
  <2> HIDE DEF u
  <2> QED
    BY <1>1, <2>1, <2>2, StoreStep DEF ChatTypeOK
<1>3. CASE FailSend(o)
  <2>1. /\ ui.op[o].kind = "send" /\ Store(FailedSend(ui, o)) /\ faults' = faults + 1
        /\ crossed' = (crossed \/ ui.op[o].thread # ui.active)
        /\ early' = (early \/ ui.op[o].at = "answered")
        /\ UNCHANGED <<log, typed, sent, calls>>
    BY <1>3 DEF FailSend, Fault
  <2>2. /\ FailedSend(ui, o) \in Stores
        /\ Placed(ui, typed) /\ ui.op[o].thread = ui.active => Placed(FailedSend(ui, o), typed)
    BY <1>1, <2>1, FailedSendKeeps
  <2>3. /\ crossed' \in BOOLEAN /\ (crossed => crossed') /\ early' \in BOOLEAN
        /\ calls' \in Nat /\ faults' \in Nat
    BY <1>1, <2>1 DEF ChatTypeOK
  <2> QED
    BY <2>1, <2>2, <2>3, StoreStep
<1>4. CASE FailInterrupt(o)
  <2>1. /\ Store(Over(ui, o)) /\ faults' = faults + 1
        /\ UNCHANGED <<log, typed, sent, crossed, early, calls>>
    BY <1>4 DEF FailInterrupt, Fault
  <2>2. Over(ui, o) \in Stores /\ (Placed(ui, typed) => Placed(Over(ui, o), typed))
    BY <1>1, OverKeeps
  <2> QED
    BY <1>1, <2>1, <2>2, StoreStep DEF ChatTypeOK
<1> QED
  BY <1>2, <1>3, <1>4

LEMMA RuntimeAnswers == ASSUME ChatInv, NEW o \in Ops, Answer(o) PROVE ChatInv'
<1> DEFINE t == ui.op[o].thread
<1>1. ChatTypeOK /\ ui \in Stores
  BY DEF ChatInv, ChatTypeOK
<1>2. /\ ui.op[o].kind \in {"send", "interrupt"} /\ UNCHANGED <<typed, crossed, overlap, calls, faults>>
      /\ t \in Threads /\ early' \in BOOLEAN
  BY <1>1, OpKinds DEF Answer, Sends, Stops, ChatTypeOK
<1>3. log[t] \in Seq(Events) /\ log \in [Threads -> Seq(Events)]
  BY <1>1, <1>2 DEF ChatTypeOK
<1>4. CASE ui.op[o].kind = "send"
  <2> DEFINE rec == [ui.op[o] EXCEPT !.at = "answered", !.turn = Len(log[t]) + 1]
             m == ui.op[o].msg
  <2>1. ui.op[o] \in Sends /\ m \in Messages
    BY <1>1, <1>4, OpKinds DEF Sends
  <2>2. /\ log' = [log EXCEPT ![t] = Append(@, [kind |-> "user", turn |-> Len(@) + 1])]
        /\ ui' = [ui EXCEPT !.op[o].at = "answered", !.op[o].turn = Len(log[t]) + 1]
        /\ sent' = [sent EXCEPT ![m] = Append(@, t)]
    BY <1>4 DEF Answer, Target
  <2>3. Len(log[t]) + 1 \in Nat /\ Len(log[t]) + 1 \in Turns
    BY <1>3 DEF Turns
  <2>4. rec \in Sends /\ rec.kind = "send" /\ rec.msg = m /\ rec.thread = t /\ rec.saved = ui.op[o].saved
    BY <2>1, <2>3 DEF Sends, Places
  <2>5. ui' = [ui EXCEPT !.op = [ui.op EXCEPT ![o] = rec]]
    BY <1>1, <2>1, <2>2 DEF Stores, Sends
  <2> HIDE DEF rec
  <2>6. ui' \in Stores
    BY <1>1, <2>4, <2>5 DEF Stores, Underway
  <2>7. log' \in [Threads -> Seq(Events)]
    <3>1. [kind |-> "user", turn |-> Len(log[t]) + 1] \in Events
      BY <2>3 DEF Events
    <3>2. Append(log[t], [kind |-> "user", turn |-> Len(log[t]) + 1]) \in Seq(Events)
      BY <1>3, <3>1, AppendProperties
    <3> QED
      BY <1>3, <2>2, <3>2
  <2>8. sent' \in [Messages -> Seq(Threads)]
    <3>1. sent[m] \in Seq(Threads) /\ Append(sent[m], t) \in Seq(Threads)
      BY <1>1, <1>2, <2>1, AppendProperties DEF ChatTypeOK
    <3> QED
      BY <1>1, <2>2, <3>1 DEF ChatTypeOK
  <2>9. ChatTypeOK'
    BY <1>1, <1>2, <2>6, <2>7, <2>8 DEF ChatTypeOK
  <2>10. ~crossed => Placed(ui', typed')
    <3>1. ui'.queue = ui.queue /\ ui'.active = ui.active
          /\ ui'.op[o] = rec /\ \A p \in Ops \ {o} : ui'.op[p] = ui.op[p]
      BY <1>1, <2>5 DEF Stores
    <3> QED
      BY <1>2, <1>4, <2>4, <3>1 DEF ChatInv, Placed
  <2>11. ~crossed => SentWhereTyped'
    <3> SUFFICES ASSUME ~crossed, NEW x \in Messages, NEW i \in DOMAIN sent'[x]
                 PROVE  sent'[x][i] = typed[x]
      BY <1>2 DEF SentWhereTyped
    <3>1. typed[m] = t
      BY <1>4 DEF ChatInv, Placed
    <3>2. CASE x = m
      <4>1. sent[m] \in Seq(Threads) /\ sent'[m] = Append(sent[m], t)
        BY <1>1, <2>1, <2>2 DEF ChatTypeOK
      <4>2. \A j \in DOMAIN sent[m] : sent[m][j] = typed[m]
        BY <2>1 DEF ChatInv, SentWhereTyped
      <4>3. i \in DOMAIN Append(sent[m], t)
        BY <3>2, <4>1
      <4>4. i \in DOMAIN sent[m] \/ i = Len(sent[m]) + 1
        BY <1>2, <4>1, <4>3, AppendProperties
      <4>5. sent'[m][i] = IF i \in DOMAIN sent[m] THEN sent[m][i] ELSE t
        BY <1>2, <4>1, <4>4, AppendProperties
      <4> QED
        BY <3>1, <3>2, <4>2, <4>5
    <3>3. CASE x # m
      <4>1. sent'[x] = sent[x]
        BY <1>1, <2>2, <3>3 DEF ChatTypeOK
      <4> QED
        BY <4>1 DEF ChatInv, SentWhereTyped
    <3> QED
      BY <3>2, <3>3
  <2> QED
    BY <1>2, <2>9, <2>10, <2>11 DEF ChatInv
<1>5. CASE ui.op[o].kind = "interrupt"
  <2> DEFINE rec == [ui.op[o] EXCEPT !.at = "answered"]
             event == [kind |-> "done", turn |-> ui.op[o].turn]
  <2>1. ui.op[o] \in Stops
    BY <1>1, <1>5, OpKinds
  <2>2. /\ log' = [log EXCEPT ![t] = Append(@, event)] /\ sent' = sent
        /\ ui' = [ui EXCEPT !.op[o].at = "answered"]
    BY <1>5 DEF Answer, Target
  <2>3. rec \in Stops /\ rec.kind = "interrupt"
    BY <2>1 DEF Stops, Places
  <2>4. ui' = [ui EXCEPT !.op = [ui.op EXCEPT ![o] = rec]]
    BY <1>1, <2>1, <2>2 DEF Stores, Stops
  <2> HIDE DEF rec
  <2>5. ui' \in Stores
    BY <1>1, <2>3, <2>4 DEF Stores, Underway
  <2>6. event \in Events
    BY <2>1 DEF Events, EndKinds, Stops
  <2> HIDE DEF event
  <2>7. log' \in [Threads -> Seq(Events)]
    <3>1. Append(log[t], event) \in Seq(Events)
      BY <1>3, <2>6, AppendProperties
    <3> QED
      BY <1>3, <2>2, <3>1
  <2>8. ChatTypeOK'
    BY <1>1, <1>2, <2>2, <2>5, <2>7 DEF ChatTypeOK
  <2>9. ~crossed => Placed(ui', typed')
    <3>1. ui'.queue = ui.queue /\ ui'.active = ui.active
          /\ ui'.op[o] = rec /\ \A p \in Ops \ {o} : ui'.op[p] = ui.op[p]
      BY <1>1, <2>4 DEF Stores
    <3> QED
      BY <1>2, <2>3, <3>1 DEF ChatInv, Placed
  <2>10. ~crossed => SentWhereTyped'
    BY <1>2, <2>2 DEF ChatInv, SentWhereTyped
  <2> QED
    BY <1>2, <2>8, <2>9, <2>10 DEF ChatInv
<1> QED
  BY <1>2, <1>4, <1>5

LEMMA StreamStep ==
  ASSUME ChatInv, NEW s \in Streams, Deliver(s) \/ StreamFails(s) PROVE ChatInv'
<1>1. ChatTypeOK /\ ui \in Stores
  BY DEF ChatInv, ChatTypeOK
<1>2. CASE Deliver(s)
  <2>1. /\ ui.streams[s] # Nil /\ HasRoom(ui)
        /\ UNCHANGED <<log, typed, sent, crossed, early, calls, faults>>
    BY <1>2 DEF Deliver, HasRoom, Room
  <2>2. PICK n \in (ui.streams[s].at + 1)..Len(log[ui.streams[s].thread]) : Store(Dispatched(ui, s, n))
    BY <1>2 DEF Deliver
  <2>3. Dispatched(ui, s, n) \in Stores /\ (Placed(ui, typed) => Placed(Dispatched(ui, s, n), typed))
    BY <1>1, <2>1, DispatchedKeeps
  <2> QED
    BY <1>1, <2>1, <2>2, <2>3, StoreStep DEF ChatTypeOK
<1>3. CASE StreamFails(s)
  <2> DEFINE t == ui.streams[s].thread
             u == [ui EXCEPT !.streams[s] = Nil, !.ref = IF @ = s THEN Nil ELSE @]
             v(how) == IF ui.active # t \/ how = "closed" THEN u ELSE Errored(u, how = "cancelled")
             w(how) == IF ui.streams[s].recovers /\ ui.active = t /\ v(how).busy
                       THEN BeginRecover(v(how)) ELSE v(how)
  <2>1. FreeOps(ui) # {} /\ faults' = faults + 1 /\ UNCHANGED <<log, typed, sent, crossed, calls>>
    BY <1>3 DEF StreamFails, Room, Fault
  <2>2. PICK how \in {"closed", "failed", "cancelled"} : Store(w(how)) /\ early' \in BOOLEAN
    BY <1>1, <1>3 DEF StreamFails, ChatTypeOK
  <2>3. u \in Stores /\ FreeOps(u) = FreeOps(ui) /\ (Placed(ui, typed) => Placed(u, typed))
    BY <1>1 DEF Stores, FreeOps, Placed
  <2> HIDE DEF u
  <2>4. v(how) \in Stores /\ FreeOps(v(how)) = FreeOps(u) /\ (Placed(u, typed) => Placed(v(how), typed))
    <3> DEFINE cancelled == how = "cancelled"
               x == Errored(u, cancelled)
    <3>1. cancelled \in BOOLEAN
      OBVIOUS
    <3>2. v(how) \in {u, x}
      OBVIOUS
    <3> HIDE DEF cancelled
    <3>3. x \in Stores /\ FreeOps(x) = FreeOps(u) /\ x.queue = u.queue /\ x.active = u.active /\ x.op = u.op
      BY <2>3, <3>1, ErroredFields
    <3> HIDE DEF x, v
    <3> QED
      BY <2>3, <3>2, <3>3 DEF Placed
  <2> HIDE DEF v
  <2>5. w(how) \in Stores /\ (Placed(v(how), typed) => Placed(w(how), typed))
    BY <1>1, <2>1, <2>3, <2>4, BeginRecoverKeeps
  <2> HIDE DEF w
  <2> QED
    BY <1>1, <2>1, <2>2, <2>3, <2>4, <2>5, StoreStep DEF ChatTypeOK
<1> QED
  BY <1>2, <1>3

LEMMA WatchdogFires == ASSUME ChatInv, Watchdog PROVE ChatInv'
<1> DEFINE u == [ui EXCEPT !.armed = FALSE]
           v == [u EXCEPT !.attempts = @ + 1]
           w == [u EXCEPT !.attempts = @ + 1, !.busy = FALSE, !.turn = Nil]
           x == IF ~u.busy THEN u ELSE IF u.attempts < MaxAttempts THEN BeginRecover(v) ELSE w
<1>1. ChatTypeOK /\ ui \in Stores
  BY DEF ChatInv, ChatTypeOK
<1>2. /\ FreeOps(ui) # {} /\ Store(x) /\ early' \in BOOLEAN
      /\ UNCHANGED <<log, typed, sent, crossed, calls, faults>>
  BY <1>1 DEF Watchdog, Room, ChatTypeOK
<1>3. u \in Stores /\ FreeOps(u) = FreeOps(ui) /\ (Placed(ui, typed) => Placed(u, typed))
  BY <1>1 DEF Stores, FreeOps, Placed
<1> HIDE DEF u
<1>4. v \in Stores /\ FreeOps(v) = FreeOps(u) /\ (Placed(u, typed) => Placed(v, typed))
  BY <1>3 DEF Stores, FreeOps, Placed
<1>5. w \in Stores /\ (Placed(u, typed) => Placed(w, typed))
  <2>1. u.attempts + 1 \in Nat /\ FALSE \in BOOLEAN /\ Nil \in Turns
    BY <1>3 DEF Stores, Turns
  <2>2. w \in Stores
    BY <1>3, <2>1 DEF Stores
  <2>3. w.queue = u.queue /\ w.active = u.active /\ w.op = u.op
    BY <1>3 DEF Stores
  <2> QED
    BY <2>2, <2>3 DEF Placed
<1> HIDE DEF v, w
<1>6. BeginRecover(v) \in Stores /\ (Placed(v, typed) => Placed(BeginRecover(v), typed))
  BY <1>1, <1>2, <1>3, <1>4, BeginRecoverKeeps
<1>7. x \in Stores /\ (Placed(ui, typed) => Placed(x, typed))
  BY <1>3, <1>4, <1>5, <1>6
<1> HIDE DEF x
<1> QED
  BY <1>1, <1>2, <1>7, StoreStep DEF ChatTypeOK

LEMMA TurnEmits == ASSUME ChatInv, NEW t \in Threads, Emit(t) PROVE ChatInv'
<1>1. UNCHANGED <<ui, typed, sent, crossed, overlap, early, calls, faults>>
  BY DEF Emit
<1>2. PICK i \in RunningAt(t, Len(log[t])), kind \in {"delta"} \cup EndKinds :
        log' = [log EXCEPT ![t] = Append(@, [kind |-> kind, turn |-> i])]
  BY DEF Emit
<1>3. log \in [Threads -> Seq(Events)] /\ log[t] \in Seq(Events)
  BY DEF ChatInv, ChatTypeOK
<1>4. i \in Nat
  BY <1>2, <1>3 DEF RunningAt
<1>5. [kind |-> kind, turn |-> i] \in Events
  BY <1>2, <1>4 DEF Events, Turns
<1>6. Append(log[t], [kind |-> kind, turn |-> i]) \in Seq(Events)
  BY <1>3, <1>5, AppendProperties
<1>7. log' \in [Threads -> Seq(Events)]
  BY <1>2, <1>3, <1>6
<1>8. ChatTypeOK'
  BY <1>1, <1>7 DEF ChatInv, ChatTypeOK
<1> QED
  BY <1>1, <1>8 DEF ChatInv, SentWhereTyped

LEMMA ChatInvStep == ChatInv /\ [ChatNext]_chatVars => ChatInv'
<1> SUFFICES ASSUME ChatInv, [ChatNext]_chatVars PROVE ChatInv'
  OBVIOUS
<1>1. CASE UNCHANGED chatVars
  BY <1>1 DEF chatVars, ChatInv, ChatTypeOK, SentWhereTyped
<1> QED
  BY <1>1, TypeMessage, UserStep, LoadEnds, RequestEnds, RuntimeAnswers, StreamStep, WatchdogFires,
     TurnEmits DEF ChatNext

\* The store of the chat, the operations and streams it has open and the logs it
\* reads keep the types the code gives them, whatever its steps begin and end.
THEOREM ChatTypeCorrect == ChatSpec => []ChatTypeOK
<1>1. ChatInv => ChatTypeOK
  BY DEF ChatInv
<1> QED
  BY <1>1, ChatInvInit, ChatInvStep, PTL DEF ChatSpec

\* For any threads and messages, and any number of operations and streams: a message
\* runs in the thread it was typed in, unless a send failed, or a recovery ended, when
\* another thread had become the active one.
THEOREM RunsWhereTyped == ChatSpec => []SentWhereTyped
<1>1. ChatInv => SentWhereTyped
  BY DEF ChatInv, SentWhereTyped
<1> QED
  BY <1>1, ChatInvInit, ChatInvStep, PTL DEF ChatSpec

-----------------------------------------------------------------------------
(* The chat: one turn after the other. *)

\* The turns of a log that had begun and not ended with its n-th event (RunningAt).
RunsIn(events, n) ==
  {i \in 1..n : events[i].kind = "user"
                /\ \A j \in 1..n : ~(events[j].kind \in EndKinds /\ events[j].turn = i)}

RunsNow(events) == RunsIn(events, Len(events))

\* A turn begins when none runs, and what else there is belongs to the one that runs.
InTurn(events) ==
  \A k \in DOMAIN events :
    IF events[k].kind = "user" THEN events[k].turn = k /\ RunsIn(events, k - 1) = {}
                               ELSE events[k].turn \in RunsIn(events, k - 1)

\* After the n-th event no turn begins; the n-th event is the last, and nothing runs.
NoneBegins(events, n) == \A j \in DOMAIN events : j > n => events[j].kind # "user"
Through(events, n)    == Len(events) = n /\ RunsNow(events) = {}

\* One more element.
LEMMA AppendFacts ==
  ASSUME NEW S, NEW seq \in Seq(S), NEW elt \in S
  PROVE  /\ Append(seq, elt) \in Seq(S)
         /\ DOMAIN Append(seq, elt) = DOMAIN seq \cup {Len(seq) + 1}
         /\ Append(seq, elt)[Len(seq) + 1] = elt
         /\ \A j \in DOMAIN seq : Append(seq, elt)[j] = seq[j]
<1> DEFINE new == Append(seq, elt)
<1>1. /\ new \in Seq(S) /\ Len(new) = Len(seq) + 1 /\ new[Len(seq) + 1] = elt
      /\ \A j \in 1..Len(seq) : new[j] = seq[j]
  BY AppendProperties
<1>2. DOMAIN seq = 1..Len(seq) /\ Len(seq) \in Nat /\ DOMAIN new = 1..Len(new)
  BY <1>1, LenProperties
<1> HIDE DEF new
<1>3. DOMAIN new = DOMAIN seq \cup {Len(seq) + 1}
  BY <1>1, <1>2
<1> QED
  BY <1>1, <1>2, <1>3 DEF new

LEMMA OneRunsIn ==
  ASSUME NEW events \in Seq(Events), InTurn(events), NEW n \in 0..Len(events),
         NEW i \in RunsIn(events, n), NEW j \in RunsIn(events, n)
  PROVE  i = j
<1>1. ASSUME NEW x \in RunsIn(events, n), NEW y \in RunsIn(events, n), x < y PROVE FALSE
  <2>1. /\ x \in 1..n /\ y \in 1..n /\ Len(events) \in Nat /\ n \in Nat
        /\ events[x].kind = "user" /\ events[y].kind = "user"
        /\ \A k \in 1..n : ~(events[k].kind \in EndKinds /\ events[k].turn = x)
    BY DEF RunsIn
  <2>2. y \in DOMAIN events /\ x \in 1..(y - 1) /\ \A k \in 1..(y - 1) : k \in 1..n
    BY <1>1, <2>1
  <2>3. x \in RunsIn(events, y - 1)
    BY <2>1, <2>2 DEF RunsIn
  <2> QED
    BY <2>1, <2>2, <2>3 DEF InTurn
<1>2. i \in Nat /\ j \in Nat
  BY DEF RunsIn
<1> QED
  BY <1>1, <1>2

LEMMA RunsShrink ==
  ASSUME NEW events \in Seq(Events), NEW m \in Nat, NoneBegins(events, m),
         NEW n \in m..Len(events)
  PROVE  RunsIn(events, n) \subseteq RunsIn(events, m)
<1>1. \A k \in 1..m : k \in 1..n
  OBVIOUS
<1>2. ASSUME NEW i \in RunsIn(events, n) PROVE i \in 1..m
  <2>1. i \in 1..n /\ i \in DOMAIN events /\ events[i].kind = "user"
    BY DEF RunsIn
  <2> QED
    BY <2>1 DEF NoneBegins
<1> QED
  BY <1>1, <1>2 DEF RunsIn

\* When nothing runs and nothing begins there is nothing more.
LEMMA NothingMore ==
  ASSUME NEW events \in Seq(Events), InTurn(events), NEW m \in 0..Len(events),
         NoneBegins(events, m), RunsIn(events, m) = {}
  PROVE  Through(events, m)
<1>1. CASE m < Len(events)
  <2>1. m + 1 \in DOMAIN events /\ m + 1 > m /\ (m + 1) - 1 = m
    BY <1>1
  <2>2. events[m + 1].kind # "user"
    BY <2>1 DEF NoneBegins
  <2>3. events[m + 1].turn \in RunsIn(events, m)
    BY <2>1, <2>2 DEF InTurn
  <2> QED
    BY <2>3
<1>2. CASE m = Len(events)
  BY <1>2 DEF Through, RunsNow
<1> QED
  BY <1>1, <1>2

\* With the end of a turn nothing runs.
LEMMA DoneMeansOver ==
  ASSUME NEW events \in Seq(Events), InTurn(events), NEW k \in DOMAIN events, events[k].kind \in EndKinds
  PROVE  RunsIn(events, k) = {}
<1> SUFFICES ASSUME NEW i \in RunsIn(events, k) PROVE FALSE
  OBVIOUS
<1>1. events[k].turn \in RunsIn(events, k - 1)
  BY DEF InTurn, EndKinds
<1>2. k \in 1..Len(events) /\ Len(events) \in Nat
  OBVIOUS
<1>3. i \in 1..k /\ events[i].kind = "user" /\ events[k].turn # i
      /\ \A j \in 1..k : ~(events[j].kind \in EndKinds /\ events[j].turn = i)
  BY <1>2 DEF RunsIn
<1>4. i # k
  BY <1>3 DEF EndKinds
<1>5. i \in 1..(k - 1) /\ \A j \in 1..(k - 1) : j \in 1..k
  BY <1>2, <1>3, <1>4
<1>6. i \in RunsIn(events, k - 1)
  BY <1>3, <1>5 DEF RunsIn
<1>7. k - 1 \in 0..Len(events)
  BY <1>2
<1> QED
  BY <1>1, <1>3, <1>6, <1>7, OneRunsIn

\* One more event.
LEMMA LogGrows ==
  ASSUME NEW events \in Seq(Events), NEW e \in Events
  PROVE  LET more == Append(events, e) IN
         /\ more \in Seq(Events) /\ Len(more) = Len(events) + 1
         /\ \A k \in DOMAIN events : k \in DOMAIN more /\ more[k] = events[k]
         /\ more[Len(events) + 1] = e
         /\ \A k \in DOMAIN more : k \in DOMAIN events \/ k = Len(events) + 1
         /\ \A n \in 0..Len(events) : RunsIn(more, n) = RunsIn(events, n)
         /\ RunsNow(more) \subseteq RunsNow(events) \cup (IF e.kind = "user" THEN {Len(events) + 1} ELSE {})
<1> DEFINE more == Append(events, e)
<1>1. /\ more \in Seq(Events) /\ Len(more) = Len(events) + 1 /\ more[Len(events) + 1] = e
      /\ \A k \in 1..Len(events) : more[k] = events[k]
  BY AppendProperties
<1> HIDE DEF more
<1>2. /\ DOMAIN events = 1..Len(events) /\ DOMAIN more = 1..Len(more) /\ Len(events) \in Nat
  BY <1>1
<1>3. /\ \A k \in DOMAIN events : k \in DOMAIN more /\ more[k] = events[k]
      /\ \A k \in DOMAIN more : k \in DOMAIN events \/ k = Len(events) + 1
  BY <1>1, <1>2
<1>4. ASSUME NEW n \in 0..Len(events) PROVE RunsIn(more, n) = RunsIn(events, n)
  <2>1. \A k \in 1..n : more[k] = events[k]
    BY <1>1, <1>2
  <2> QED
    BY <2>1 DEF RunsIn
<1>5. ASSUME NEW i \in RunsNow(more) PROVE i \in RunsNow(events) \/ (i = Len(events) + 1 /\ e.kind = "user")
  <2>1. /\ i \in 1..Len(more) /\ more[i].kind = "user"
        /\ \A j \in 1..Len(more) : ~(more[j].kind \in EndKinds /\ more[j].turn = i)
    BY DEF RunsNow, RunsIn
  <2>2. CASE i = Len(events) + 1
    BY <1>1, <2>1, <2>2
  <2>3. CASE i # Len(events) + 1
    <3>1. i \in 1..Len(events) /\ \A j \in 1..Len(events) : j \in 1..Len(more)
      BY <1>1, <1>2, <2>1, <2>3
    <3> QED
      BY <1>1, <2>1, <3>1 DEF RunsNow, RunsIn
  <2> QED
    BY <2>2, <2>3
<1>6. RunsNow(more) \subseteq RunsNow(events) \cup (IF e.kind = "user" THEN {Len(events) + 1} ELSE {})
  BY <1>5
<1> QED
  BY <1>1, <1>3, <1>4, <1>6 DEF more

LEMMA StaysInTurn ==
  ASSUME NEW events \in Seq(Events), InTurn(events), NEW e \in Events,
         IF e.kind = "user" THEN e.turn = Len(events) + 1 /\ RunsNow(events) = {} ELSE e.turn \in RunsNow(events)
  PROVE  InTurn(Append(events, e))
<1> DEFINE more == Append(events, e)
<1> SUFFICES ASSUME NEW k \in DOMAIN more
             PROVE  IF more[k].kind = "user" THEN more[k].turn = k /\ RunsIn(more, k - 1) = {}
                                             ELSE more[k].turn \in RunsIn(more, k - 1)
  BY DEF InTurn
<1>1. (k \in DOMAIN events \/ k = Len(events) + 1) /\ more[Len(events) + 1] = e
  BY LogGrows
<1>2. \A j \in DOMAIN events : more[j] = events[j]
  BY LogGrows
<1>3. \A n \in 0..Len(events) : RunsIn(more, n) = RunsIn(events, n)
  BY LogGrows
<1> HIDE DEF more
<1>4. CASE k \in DOMAIN events
  <2>1. k - 1 \in 0..Len(events)
    BY <1>4
  <2> QED
    BY <1>2, <1>3, <1>4, <2>1 DEF InTurn
<1>5. CASE k = Len(events) + 1
  <2>1. k - 1 = Len(events) /\ Len(events) \in 0..Len(events)
    BY <1>5
  <2> QED
    BY <1>1, <1>3, <1>5, <2>1 DEF RunsNow
<1> QED
  BY <1>1, <1>4, <1>5

\* The text shown is that of the events from the base to the n-th, each once and in order.
TextTo(u, events, n) ==
  /\ {u.shown[i] : i \in DOMAIN u.shown} = {k \in (u.base + 1)..n : events[k].kind = "delta"}
  /\ \A i, j \in DOMAIN u.shown : i < j => u.shown[i] < u.shown[j]

Alone(u) == \A a, b \in Loading(u) : a = b

\* There is one stream, for the active thread and at the cursor, and none during a load
\* or a send.
OneStream(u) ==
  \A s \in Streams : u.streams[s] # Nil =>
    /\ u.ref = s /\ u.streams[s].thread = u.active /\ u.streams[s].at = u.seq
    /\ Loading(u) = {}

\* Of the events yet to come only the first may begin a turn; when the store is not busy
\* there are none, and nothing runs.
Ahead(u, logs) ==
  /\ u.base <= u.seq /\ u.seq <= Len(logs[u.active]) /\ NoneBegins(logs[u.active], u.seq + 1)
  /\ ~u.busy => Through(logs[u.active], u.seq)

\* The store knows the turn that runs, but for one that a send has begun.
KnowsTurn(u, logs) ==
  (\A o \in Ops : u.op[o].kind # "send") => \A i \in RunsNow(logs[u.active]) : u.turn = i

\* No turn begins in a thread that is being loaded.
LoadRight(u, rec, logs) ==
  rec.kind \in {"select", "recover"} =>
    /\ rec.kind = "recover" => rec.thread = u.active /\ rec.turn = u.turn
    /\ rec.from <= Len(logs[rec.thread]) /\ NoneBegins(logs[rec.thread], rec.from)

\* A send is for the active thread, where nothing runs until it is answered.
SendRight(u, rec, logs) ==
  rec.kind = "send" =>
    /\ rec.thread = u.active /\ rec.seq = u.seq /\ u.busy
    /\ rec.at = "asking" => Through(logs[u.active], u.seq)
    /\ rec.at = "answered" => RunsNow(logs[u.active]) \subseteq {rec.turn}

\* The turn of an interrupt that was answered is over.
StopRight(rec, logs) ==
  rec.kind = "interrupt" /\ rec.at = "answered" =>
    \E j \in DOMAIN logs[rec.thread] :
      logs[rec.thread][j].kind = "done" /\ logs[rec.thread][j].turn = rec.turn

OrderOf(u, logs) ==
  /\ Alone(u) /\ OneStream(u) /\ Ahead(u, logs) /\ KnowsTurn(u, logs)
  /\ TextTo(u, logs[u.active], u.seq)
  /\ \A o \in Ops : LoadRight(u, u.op[o], logs) /\ SendRight(u, u.op[o], logs) /\ StopRight(u.op[o], logs)

Logs == [Threads -> Seq(Events)]

-----------------------------------------------------------------------------
(* What the store does between two awaits keeps the order. *)

LEMMA OrderSame ==
  ASSUME NEW u \in Stores, NEW v \in Stores, NEW logs, OrderOf(u, logs),
         v.active = u.active, v.seq = u.seq, v.base = u.base, v.shown = u.shown,
         v.busy = u.busy, v.turn = u.turn, v.op = u.op, v.ref = u.ref, v.streams = u.streams
  PROVE  OrderOf(v, logs)
  BY DEF OrderOf, Alone, Loading, OneStream, Ahead, KnowsTurn, TextTo, LoadRight, SendRight

\* While something is loaded or sent no stream is open.
LEMMA LoadsCloseStreams ==
  ASSUME NEW u \in Stores, OneStream(u), NEW o \in Loading(u)
  PROVE  \A s \in Streams : u.streams[s] = Nil
  BY DEF OneStream

LEMMA AbortCloses ==
  ASSUME NEW u \in Stores, OneStream(u)
  PROVE  /\ \A s \in Streams : Abort(u).streams[s] = Nil
         /\ Abort(u).active = u.active /\ Abort(u).seq = u.seq /\ Abort(u).base = u.base
         /\ Abort(u).shown = u.shown /\ Abort(u).busy = u.busy /\ Abort(u).turn = u.turn
         /\ Abort(u).op = u.op
<1>1. u.ref \in Streams \cup {Nil} /\ Nil \notin Streams
  BY ChatAssumption DEF Stores, Streams
<1>2. CASE u.ref = Nil
  BY <1>1, <1>2 DEF Abort, OneStream
<1>3. CASE u.ref # Nil
  BY <1>1, <1>3 DEF Abort, OneStream, Stores
<1> QED
  BY <1>2, <1>3

LEMMA BeginFields ==
  ASSUME NEW u \in Stores, NEW rec, FreeOps(u) # {}
  PROVE  LET v == Begin(u, rec) IN
         /\ \E o \in Ops : /\ u.op[o] = Idle /\ v.op[o] = rec
                           /\ \A p \in Ops \ {o} : v.op[p] = u.op[p]
         /\ v.active = u.active /\ v.seq = u.seq /\ v.base = u.base /\ v.shown = u.shown
         /\ v.busy = u.busy /\ v.turn = u.turn /\ v.ref = u.ref /\ v.streams = u.streams
<1>1. Min(FreeOps(u)) \in FreeOps(u)
  BY MinOf, ChatAssumption DEF FreeOps, Ops
<1>2. Min(FreeOps(u)) \in Ops /\ u.op[Min(FreeOps(u))] = Idle
  BY <1>1 DEF FreeOps
<1>3. Begin(u, rec) = [u EXCEPT !.op = [u.op EXCEPT ![Min(FreeOps(u))] = rec]]
  BY DEF Begin
<1> QED
  BY <1>2, <1>3 DEF Stores

\* What is about to load or send is the first.
LEMMA BeginsAlone ==
  ASSUME NEW u, NEW v, Alone(v), NEW o \in Ops, u.op[o] = Idle, \A p \in Ops \ {o} : v.op[p] = u.op[p],
         v.op[o].kind \in {"select", "recover", "send"}
  PROVE  Loading(u) = {} /\ \A p \in Ops \ {o} : v.op[p].kind \notin {"select", "recover", "send"}
<1>1. o \in Loading(v) /\ o \notin Loading(u)
  BY DEF Loading, Idle
<1>2. \A p \in Loading(v) : p = o
  BY <1>1 DEF Alone
<1>3. \A p \in Ops \ {o} : p \notin Loading(v)
  BY <1>2
<1> QED
  BY <1>1, <1>3 DEF Loading

LEMMA BeginSendOrder ==
  ASSUME NEW u \in Stores, NEW logs \in Logs, OrderOf(u, logs), ~u.busy, FreeOps(u) # {},
         NEW m \in Messages, NEW rest \in Seq(Messages), Alone(BeginSend(u, m, rest))
  PROVE  OrderOf(BeginSend(u, m, rest), logs)
<1> DEFINE w   == Abort(u)
           x   == [w EXCEPT !.busy = TRUE, !.armed = FALSE, !.attempts = 0, !.queue = rest]
           rec == [kind |-> "send", at |-> "asking", thread |-> u.active, msg |-> m,
                   saved |-> u.queue, seq |-> u.seq, turn |-> Nil]
           v   == Begin(x, rec)
<1>1. /\ w \in Stores /\ w.active = u.active /\ w.seq = u.seq /\ w.base = u.base /\ w.shown = u.shown
      /\ w.turn = u.turn /\ w.op = u.op /\ FreeOps(w) = FreeOps(u)
      /\ \A s \in Streams : w.streams[s] = Nil
  BY AbortKeeps, AbortCloses DEF OrderOf
<1> HIDE DEF w
<1>2. /\ x \in Stores /\ x.active = u.active /\ x.seq = u.seq /\ x.base = u.base /\ x.shown = u.shown
      /\ x.turn = u.turn /\ x.op = u.op /\ x.busy = TRUE /\ FreeOps(x) # {}
      /\ \A s \in Streams : x.streams[s] = Nil
  BY <1>1 DEF Stores, FreeOps
<1>3. /\ rec.kind = "send" /\ rec.at = "asking" /\ rec.thread = u.active /\ rec.seq = u.seq
  OBVIOUS
<1>4. BeginSend(u, m, rest) = v
  BY DEF BeginSend, w
<1> HIDE DEF x, rec
<1>5. /\ v.active = u.active /\ v.seq = u.seq /\ v.base = u.base /\ v.shown = u.shown
      /\ v.turn = u.turn /\ v.busy = TRUE /\ \A s \in Streams : v.streams[s] = Nil
  BY <1>2, BeginFields
<1>6. PICK o \in Ops : u.op[o] = Idle /\ v.op[o] = rec /\ \A p \in Ops \ {o} : v.op[p] = u.op[p]
  BY <1>2, BeginFields
<1> HIDE DEF v
<1>7. \A p \in Ops \ {o} : v.op[p].kind \notin {"select", "recover", "send"}
  BY <1>3, <1>4, <1>6, BeginsAlone
<1>8. Through(logs[u.active], u.seq)
  BY DEF OrderOf, Ahead
<1>9. \A p \in Ops : LoadRight(v, v.op[p], logs) /\ SendRight(v, v.op[p], logs) /\ StopRight(v.op[p], logs)
  <2> SUFFICES ASSUME NEW p \in Ops
               PROVE  LoadRight(v, v.op[p], logs) /\ SendRight(v, v.op[p], logs) /\ StopRight(v.op[p], logs)
    OBVIOUS
  <2>1. CASE p = o
    BY <1>3, <1>5, <1>6, <1>8, <2>1 DEF LoadRight, SendRight, StopRight
  <2>2. CASE p # o
    BY <1>6, <1>7, <2>2 DEF LoadRight, SendRight, OrderOf
  <2> QED
    BY <2>1, <2>2
<1>10. OneStream(v) /\ Ahead(v, logs) /\ TextTo(v, logs[v.active], v.seq)
  BY <1>5 DEF OrderOf, OneStream, Ahead, TextTo
<1>11. KnowsTurn(v, logs)
  BY <1>3, <1>6 DEF KnowsTurn
<1> QED
  BY <1>4, <1>9, <1>10, <1>11 DEF OrderOf

LEMMA DrainOrder ==
  ASSUME NEW u \in Stores, NEW logs \in Logs, OrderOf(u, logs), HasRoom(u), Alone(Drain(u))
  PROVE  OrderOf(Drain(u), logs)
<1>1. CASE u.draining # Nil \/ u.busy \/ u.queue = <<>>
  BY <1>1 DEF Drain
<1>2. CASE ~(u.draining # Nil \/ u.busy \/ u.queue = <<>>)
  <2> DEFINE m == Head(u.queue)
             rest == Tail(u.queue)
             v == BeginSend(u, m, rest)
  <2>1. u.queue \in Seq(Messages) /\ u.queue # <<>>
    BY <1>2 DEF Stores
  <2>2. m \in Messages /\ rest \in Seq(Messages)
    BY <2>1, HeadTailProperties
  <2>3. Drain(u) = [v EXCEPT !.draining = Min(FreeOps(u))]
    BY <1>2 DEF Drain
  <2> HIDE DEF m, rest
  <2>4. v \in Stores /\ FreeOps(u) # {}
    BY <1>2, <2>2, BeginSendKeeps DEF HasRoom
  <2> HIDE DEF v
  <2>5. Drain(u) \in Stores
    BY DrainKeeps
  <2>6. /\ Drain(u).active = v.active /\ Drain(u).seq = v.seq /\ Drain(u).base = v.base
        /\ Drain(u).shown = v.shown /\ Drain(u).busy = v.busy /\ Drain(u).turn = v.turn
        /\ Drain(u).op = v.op /\ Drain(u).ref = v.ref /\ Drain(u).streams = v.streams
    BY <2>3, <2>4 DEF Stores
  <2>7. Alone(v)
    BY <2>6 DEF Alone, Loading
  <2>8. OrderOf(v, logs)
    BY <1>2, <2>2, <2>4, <2>7, BeginSendOrder DEF v
  <2> QED
    BY <2>4, <2>5, <2>6, <2>8, OrderSame
<1> QED
  BY <1>1, <1>2

LEMMA OverFields ==
  ASSUME NEW u \in Stores, NEW o \in Ops
  PROVE  LET v == Over(u, o) IN
         /\ v.active = u.active /\ v.seq = u.seq /\ v.base = u.base /\ v.shown = u.shown
         /\ v.busy = u.busy /\ v.turn = u.turn /\ v.ref = u.ref /\ v.streams = u.streams
         /\ v.op[o] = Idle /\ \A p \in Ops \ {o} : v.op[p] = u.op[p]
  BY DEF Over, Stores

\* An operation that loads or sends is the only one.
LEMMA LoadsAlone ==
  ASSUME NEW u, Alone(u), NEW o \in Loading(u)
  PROVE  \A p \in Ops \ {o} : u.op[p].kind \notin {"select", "recover", "send"}
  BY DEF Alone, Loading

LEMMA OverOrder ==
  ASSUME NEW u \in Stores, NEW logs \in Logs, OrderOf(u, logs), NEW o \in Ops,
         u.op[o].kind = "send" => \A i \in RunsNow(logs[u.active]) : u.turn = i
  PROVE  OrderOf(Over(u, o), logs)
<1> DEFINE v == Over(u, o)
<1>1. /\ v.active = u.active /\ v.seq = u.seq /\ v.base = u.base /\ v.shown = u.shown
      /\ v.busy = u.busy /\ v.turn = u.turn /\ v.ref = u.ref /\ v.streams = u.streams
      /\ v.op[o] = Idle /\ \A p \in Ops \ {o} : v.op[p] = u.op[p]
  BY OverFields
<1> HIDE DEF v
<1>2. v.op[o].kind = "none"
  BY <1>1 DEF Idle
<1>3. Loading(v) \subseteq Loading(u)
  BY <1>1, <1>2 DEF Loading
<1>4. Alone(v) /\ OneStream(v)
  BY <1>1, <1>3 DEF OrderOf, Alone, OneStream
<1>5. Ahead(v, logs) /\ TextTo(v, logs[v.active], v.seq)
  BY <1>1 DEF OrderOf, Ahead, TextTo
<1>6. KnowsTurn(v, logs)
  BY <1>1, <1>2 DEF OrderOf, KnowsTurn
<1>7. ASSUME NEW p \in Ops
      PROVE  LoadRight(v, v.op[p], logs) /\ SendRight(v, v.op[p], logs) /\ StopRight(v.op[p], logs)
  <2>1. CASE p = o
    BY <1>2, <2>1 DEF LoadRight, SendRight, StopRight
  <2>2. CASE p # o
    BY <1>1, <2>2 DEF OrderOf, LoadRight, SendRight
  <2> QED
    BY <2>1, <2>2
<1> QED
  BY <1>4, <1>5, <1>6, <1>7 DEF OrderOf, v

\* A store that takes it that nothing runs, when nothing does.
LEMMA SettleOrder ==
  ASSUME NEW u \in Stores, NEW v \in Stores, NEW logs \in Logs, OrderOf(u, logs), Loading(u) = {},
         Through(logs[u.active], u.seq),
         v.active = u.active, v.seq = u.seq, v.base = u.base, v.shown = u.shown,
         v.op = u.op, v.ref = u.ref, v.streams = u.streams
  PROVE  OrderOf(v, logs)
<1>1. \A p \in Ops : v.op[p].kind \notin {"select", "recover", "send"}
  BY DEF Loading
<1>2. RunsNow(logs[v.active]) = {}
  BY DEF Through
<1>3. Alone(v) /\ OneStream(v) /\ Ahead(v, logs) /\ TextTo(v, logs[v.active], v.seq)
  BY DEF OrderOf, Alone, OneStream, Ahead, TextTo, Loading
<1> QED
  BY <1>1, <1>2, <1>3 DEF OrderOf, KnowsTurn, LoadRight, SendRight

LEMMA FailedSendOrder ==
  ASSUME NEW u \in Stores, NEW logs \in Logs, OrderOf(u, logs), NEW o \in Ops,
         u.op[o].kind = "send", u.op[o].at = "asking"
  PROVE  OrderOf(FailedSend(u, o), logs)
<1> DEFINE w == Over(u, o)
           v == [w EXCEPT !.armed = FALSE, !.busy = FALSE, !.turn = Nil, !.queue = u.op[o].saved]
           x == [v EXCEPT !.draining = Nil]
<1>1. o \in Loading(u) /\ u.op[o] \in Sends /\ Through(logs[u.active], u.seq)
  BY OpKinds DEF Loading, OrderOf, SendRight
<1>2. OrderOf(w, logs)
  BY <1>1, OverOrder DEF Through
<1>3. /\ w \in Stores /\ w.active = u.active /\ w.seq = u.seq
      /\ w.op[o] = Idle /\ \A p \in Ops \ {o} : w.op[p] = u.op[p]
  BY OverKeeps, OverFields
<1>4. FailedSend(u, o) \in {v, x}
  BY DEF FailedSend, DrainOn
<1> HIDE DEF w
<1>5. Loading(w) = {}
  BY <1>1, <1>3, LoadsAlone DEF OrderOf, Loading, Idle
<1>6. /\ v \in Stores /\ v.active = w.active /\ v.seq = w.seq /\ v.base = w.base /\ v.shown = w.shown
      /\ v.op = w.op /\ v.ref = w.ref /\ v.streams = w.streams
  BY <1>1, <1>3 DEF Stores, Sends, Turns
<1> HIDE DEF v
<1>7. /\ x \in Stores /\ x.active = w.active /\ x.seq = w.seq /\ x.base = w.base /\ x.shown = w.shown
      /\ x.op = w.op /\ x.ref = w.ref /\ x.streams = w.streams
  BY <1>6 DEF Stores
<1> HIDE DEF x
<1>8. OrderOf(v, logs) /\ OrderOf(x, logs)
  BY <1>1, <1>2, <1>3, <1>5, <1>6, <1>7, SettleOrder
<1> QED
  BY <1>4, <1>8

LEMMA InterruptedOrder ==
  ASSUME NEW u \in Stores, NEW logs \in Logs, OrderOf(u, logs), NEW o \in Ops,
         u.op[o].kind = "interrupt", u.op[o].at = "answered", Loading(u) = {},
         u.active = u.op[o].thread, u.seq >= Len(logs[u.active]), u.turn \in {Nil, u.op[o].turn},
         Alone(Interrupted(u, o))
  PROVE  OrderOf(Interrupted(u, o), logs)
<1> DEFINE w == Over(u, o)
           v == [w EXCEPT !.attempts = 0, !.armed = FALSE, !.busy = FALSE, !.turn = Nil]
<1>1. u.active \in Threads /\ logs[u.active] \in Seq(Events) /\ Len(logs[u.active]) \in Nat /\ u.seq \in Nat
  BY DEF Stores, Logs
<1>2. Len(logs[u.active]) = u.seq
  BY <1>1 DEF OrderOf, Ahead
<1>3. RunsNow(logs[u.active]) = {}
  <2> SUFFICES ASSUME NEW i \in RunsNow(logs[u.active]) PROVE FALSE
    OBVIOUS
  <2>1. u.turn = i
    BY DEF OrderOf, KnowsTurn, Loading
  <2>2. i \in Nat /\ i # Nil
    BY <1>1, ChatAssumption DEF RunsNow, RunsIn
  <2>3. PICK j \in DOMAIN logs[u.active] : logs[u.active][j].kind = "done" /\ logs[u.active][j].turn = i
    BY <2>1, <2>2 DEF OrderOf, StopRight
  <2> QED
    BY <1>1, <2>3 DEF RunsNow, RunsIn, EndKinds
<1>4. OrderOf(w, logs)
  BY OverOrder
<1>5. /\ w \in Stores /\ w.active = u.active /\ w.seq = u.seq /\ o \in FreeOps(w)
      /\ w.op[o] = Idle /\ \A p \in Ops \ {o} : w.op[p] = u.op[p]
  BY OverKeeps, OverFields
<1>6. Interrupted(u, o) = Drain(v)
  BY DEF Interrupted
<1> HIDE DEF w
<1>7. Loading(w) = {}
  BY <1>5 DEF Loading, Idle
<1>8. /\ v \in Stores /\ v.active = w.active /\ v.seq = w.seq /\ v.base = w.base /\ v.shown = w.shown
      /\ v.op = w.op /\ v.ref = w.ref /\ v.streams = w.streams
  BY <1>5 DEF Stores, Turns
<1> HIDE DEF v
<1>9. OrderOf(v, logs)
  BY <1>2, <1>3, <1>4, <1>5, <1>7, <1>8, SettleOrder DEF Through
<1>10. HasRoom(v)
  BY <1>5, <1>8 DEF HasRoom, FreeOps
<1> QED
  BY <1>6, <1>8, <1>9, <1>10, DrainOrder

\* A new stream is the one there is.
Streaming(v, u, t, after) ==
  /\ \A s \in Streams : v.streams[s] # Nil =>
       v.ref = s /\ v.streams[s].thread = t /\ v.streams[s].at = after
  /\ v.active = u.active /\ v.seq = u.seq /\ v.base = u.base /\ v.shown = u.shown
  /\ v.busy = u.busy /\ v.turn = u.turn /\ v.op = u.op

LEMMA SubscribeFields ==
  ASSUME NEW u \in Stores, FreeStreams(u) # {}, \A s \in Streams : u.streams[s] = Nil,
         NEW t \in Threads, NEW after \in Nat, NEW recovers \in BOOLEAN
  PROVE  Streaming(Subscribe(u, t, after, recovers), u, t, after)
<1>1. Min(FreeStreams(u)) \in Streams
  BY FreeStream
<1> QED
  BY <1>1 DEF Subscribe, Streaming, Stores

LEMMA EndedSendOrder ==
  ASSUME NEW u \in Stores, NEW logs \in Logs, OrderOf(u, logs), NEW o \in Ops, FreeStreams(u) # {},
         u.op[o].kind = "send", u.op[o].at = "answered"
  PROVE  OrderOf(EndedSend(u, o), logs)
<1> DEFINE w == Over(u, o)
           x == Subscribe(w, u.active, u.seq, TRUE)
           v == [x EXCEPT !.turn = u.op[o].turn, !.armed = TRUE]
           y == [v EXCEPT !.draining = Nil]
<1>1. /\ o \in Loading(u) /\ u.op[o] \in Sends /\ u.op[o].thread = u.active /\ u.op[o].seq = u.seq
      /\ u.busy /\ RunsNow(logs[u.active]) \subseteq {u.op[o].turn}
  BY OpKinds DEF Loading, OrderOf, SendRight
<1>2. /\ w \in Stores /\ w.active = u.active /\ w.seq = u.seq /\ w.base = u.base /\ w.shown = u.shown
      /\ w.busy = u.busy /\ w.streams = u.streams
      /\ w.op[o] = Idle /\ \A p \in Ops \ {o} : w.op[p] = u.op[p]
  BY OverKeeps, OverFields
<1>3. EndedSend(u, o) = DrainOn(v, o, TRUE)
  BY <1>1 DEF EndedSend
<1> HIDE DEF w
<1>4. FreeStreams(w) # {} /\ \A s \in Streams : w.streams[s] = Nil
  BY <1>1, <1>2, LoadsCloseStreams DEF OrderOf, FreeStreams
<1>5. u.active \in Threads /\ u.seq \in Nat /\ u.op[o].turn \in Turns
  BY <1>1 DEF Sends, Stores
<1>6. /\ \A s \in Streams : x.streams[s] # Nil =>
           x.ref = s /\ x.streams[s].thread = u.active /\ x.streams[s].at = u.seq
      /\ x.active = w.active /\ x.seq = w.seq /\ x.base = w.base /\ x.shown = w.shown
      /\ x.busy = w.busy /\ x.op = w.op
  <2>1. Streaming(x, w, u.active, u.seq)
    BY <1>2, <1>4, <1>5, SubscribeFields
  <2> HIDE DEF x
  <2> QED
    BY <2>1 DEF Streaming
<1>7. x \in Stores
  BY <1>2, <1>4, <1>5, SubscribeKeeps
<1> HIDE DEF x
<1>8. /\ v \in Stores /\ v.active = u.active /\ v.seq = u.seq /\ v.base = u.base /\ v.shown = u.shown
      /\ v.busy /\ v.op = w.op /\ v.turn = u.op[o].turn /\ v.ref = x.ref /\ v.streams = x.streams
  BY <1>1, <1>2, <1>5, <1>6, <1>7 DEF Stores
<1>9. /\ y \in Stores /\ y.active = v.active /\ y.seq = v.seq /\ y.base = v.base /\ y.shown = v.shown
      /\ y.busy = v.busy /\ y.op = v.op /\ y.turn = v.turn /\ y.ref = v.ref /\ y.streams = v.streams
  BY <1>8 DEF Stores
<1>10. EndedSend(u, o) \in {v, y}
  BY <1>3, <1>8, <1>9 DEF DrainOn, Drain
<1> HIDE DEF v, y
<1>11. \A p \in Ops : v.op[p].kind \notin {"select", "recover", "send"}
  BY <1>1, <1>2, <1>8, LoadsAlone DEF OrderOf, Idle
<1>12. ASSUME NEW p \in Ops
       PROVE  LoadRight(v, v.op[p], logs) /\ SendRight(v, v.op[p], logs) /\ StopRight(v.op[p], logs)
  <2>1. StopRight(v.op[p], logs)
    BY <1>2, <1>8 DEF OrderOf, StopRight, Idle
  <2> QED
    BY <1>11, <2>1 DEF LoadRight, SendRight
<1>13. Alone(v) /\ OneStream(v)
  BY <1>6, <1>8, <1>11 DEF Alone, OneStream, Loading
<1>14. Ahead(v, logs) /\ TextTo(v, logs[v.active], v.seq) /\ KnowsTurn(v, logs)
  BY <1>1, <1>8 DEF OrderOf, Ahead, TextTo, KnowsTurn
<1>15. OrderOf(v, logs)
  BY <1>12, <1>13, <1>14 DEF OrderOf
<1> QED
  BY <1>8, <1>9, <1>10, <1>15, OrderSame

LEMMA BeginLoadOrder ==
  ASSUME NEW u \in Stores, log \in Logs, OrderOf(u, log), NEW kind \in {"select", "recover"},
         NEW t \in Threads, kind = "recover" => t = u.active, FreeOps(u) # {}, Alone(BeginLoad(u, kind, t))
  PROVE  OrderOf(BeginLoad(u, kind, t), log)
<1> DEFINE w == Abort(u)
           x == [w EXCEPT !.armed = FALSE, !.attempts = IF kind = "select" THEN 0 ELSE @]
           rec == [kind |-> kind, thread |-> t, turn |-> u.turn, busy |-> u.busy, from |-> Len(log[t])]
           v == Begin(x, rec)
<1>1. /\ w \in Stores /\ w.active = u.active /\ w.seq = u.seq /\ w.base = u.base /\ w.shown = u.shown
      /\ w.busy = u.busy /\ w.turn = u.turn /\ w.op = u.op /\ FreeOps(w) = FreeOps(u)
      /\ \A s \in Streams : w.streams[s] = Nil
  BY AbortKeeps, AbortCloses DEF OrderOf
<1> HIDE DEF w
<1>2. /\ x \in Stores /\ x.active = u.active /\ x.seq = u.seq /\ x.base = u.base /\ x.shown = u.shown
      /\ x.busy = u.busy /\ x.turn = u.turn /\ x.op = u.op /\ FreeOps(x) # {}
      /\ \A s \in Streams : x.streams[s] = Nil
  BY <1>1 DEF Stores, FreeOps
<1>3. /\ rec.kind = kind /\ rec.thread = t /\ rec.turn = u.turn /\ rec.from = Len(log[t])
  OBVIOUS
<1>4. BeginLoad(u, kind, t) = v
  BY DEF BeginLoad, w
<1> HIDE DEF x, rec
<1>5. /\ v.active = u.active /\ v.seq = u.seq /\ v.base = u.base /\ v.shown = u.shown
      /\ v.turn = u.turn /\ v.busy = u.busy /\ \A s \in Streams : v.streams[s] = Nil
  BY <1>2, BeginFields
<1>6. PICK o \in Ops : u.op[o] = Idle /\ v.op[o] = rec /\ \A p \in Ops \ {o} : v.op[p] = u.op[p]
  BY <1>2, BeginFields
<1> HIDE DEF v
<1>7. /\ \A p \in Ops \ {o} : v.op[p].kind \notin {"select", "recover", "send"}
      /\ Loading(u) = {}
  BY <1>3, <1>4, <1>6, BeginsAlone
<1>8. Len(log[t]) \in Nat /\ NoneBegins(log[t], Len(log[t]))
  BY DEF Logs, NoneBegins
<1>9. ASSUME NEW p \in Ops
      PROVE  LoadRight(v, v.op[p], log) /\ SendRight(v, v.op[p], log) /\ StopRight(v.op[p], log)
  <2>1. CASE p = o
    BY <1>3, <1>5, <1>6, <1>8, <2>1 DEF LoadRight, SendRight, StopRight
  <2>2. CASE p # o
    BY <1>6, <1>7, <2>2 DEF LoadRight, SendRight, OrderOf
  <2> QED
    BY <2>1, <2>2
<1>10. OneStream(v) /\ Ahead(v, log) /\ TextTo(v, log[v.active], v.seq)
  BY <1>5 DEF OrderOf, OneStream, Ahead, TextTo
<1>11. KnowsTurn(v, log)
  BY <1>5, <1>7 DEF KnowsTurn, OrderOf, Loading
<1> QED
  BY <1>4, <1>9, <1>10, <1>11 DEF OrderOf

LEMMA FailedLoadOrder ==
  ASSUME NEW u \in Stores, NEW logs \in Logs, OrderOf(u, logs), NEW o \in Ops,
         u.op[o].kind \in {"select", "recover"}
  PROVE  OrderOf(FailedLoad(u, o), logs)
<1> DEFINE w == Over(u, o)
           b == u.op[o].kind = "recover" /\ u.op[o].busy
           v == [w EXCEPT !.armed = @ \/ b]
<1>1. w \in Stores /\ OrderOf(w, logs)
  BY OverKeeps, OverOrder
<1>2. FailedLoad(u, o) = v /\ v \in Stores
  BY FailedLoadKeeps DEF FailedLoad
<1> HIDE DEF w, b
<1>3. /\ v.active = w.active /\ v.seq = w.seq /\ v.base = w.base /\ v.shown = w.shown
      /\ v.busy = w.busy /\ v.turn = w.turn /\ v.op = w.op /\ v.ref = w.ref /\ v.streams = w.streams
  BY <1>1 DEF Stores
<1> HIDE DEF v
<1> QED
  BY <1>1, <1>2, <1>3, OrderSame

\* The last turn that runs is one of them.
LEMMA LatestRuns ==
  ASSUME log \in Logs, NEW t \in Threads, NEW n \in Nat, RunningAt(t, n) # {}
  PROVE  Latest(t, n) \in RunningAt(t, n)
<1> DEFINE runs == RunningAt(t, n)
<1>1. runs \in SUBSET (1..n)
  BY DEF RunningAt
<1>2. Latest(t, n) = Max(runs)
  BY DEF Latest
<1> HIDE DEF runs
<1> QED
  BY <1>1, <1>2, MaxOf DEF runs

\* What a load finds: the status after it began, the last event after that.
Found(rec, status, n) == rec.from <= status /\ status <= n /\ n <= Len(log[rec.thread])

LEMMA AsRuns == \A t, n : RunningAt(t, n) = RunsIn(log[t], n)
  BY DEF RunningAt, RunsIn

\* A thread that is loaded, with its stream.
Taken(u, o, status, n, turn, recovers) ==
  Subscribe(Loaded(Over(u, o), u.op[o].thread, status, n, turn), u.op[o].thread, n, recovers)

\* A load finds what runs, and takes the place of the stream there was.
LEMMA LoadedOrder ==
  ASSUME log \in Logs, \A x \in Threads : InTurn(log[x]),
         NEW u \in Stores, OrderOf(u, log), NEW o \in Ops, u.op[o].kind \in {"select", "recover"},
         FreeStreams(u) # {}, NEW t \in Threads, t = u.op[o].thread,
         NEW n \in Nat, NEW status \in Nat, Found(u.op[o], status, n),
         NEW turn \in Turns,
         \/ turn = Latest(t, status)
         \/ u.op[o].kind = "recover" /\ turn = u.op[o].turn,
         NEW recovers \in BOOLEAN
  PROVE  LET v == Taken(u, o, status, n, turn, recovers) IN
         /\ v \in Stores /\ OrderOf(v, log) /\ o \in FreeOps(v) /\ Loading(v) = {}
         /\ ~v.busy => Through(log[t], v.seq) /\ v.active = t
<1> DEFINE runs == RunningAt(t, status) # {}
           w == Over(u, o)
           x == Loaded(w, t, status, n, turn)
           v == Subscribe(x, t, n, recovers)
<1>1. /\ o \in Loading(u) /\ u.op[o] \in Loads
      /\ u.op[o].kind = "recover" => t = u.active /\ u.op[o].turn = u.turn
      /\ NoneBegins(log[t], u.op[o].from)
  BY OpKinds DEF Loading, OrderOf, LoadRight
<1>2. log[t] \in Seq(Events) /\ Len(log[t]) \in Nat /\ u.op[o].from \in Nat
  BY <1>1 DEF Logs, Loads
<1>3. u.op[o].from <= status /\ status <= n /\ n <= Len(log[t])
  BY DEF Found
<1>4. /\ w \in Stores /\ w.streams = u.streams /\ w.op[o] = Idle /\ \A p \in Ops \ {o} : w.op[p] = u.op[p]
  BY OverKeeps, OverFields
<1> HIDE DEF w
<1>5. x \in Stores /\ x.streams = w.streams /\ x.op = w.op
  BY <1>4, LoadedKeeps
<1>6. /\ x.active = t /\ x.seq = n /\ x.base = n /\ x.shown = <<>>
      /\ x.busy = runs /\ x.turn = IF runs THEN turn ELSE Nil
  BY <1>4 DEF Loaded, Stores
<1> HIDE DEF x
<1>7. \A s \in Streams : u.streams[s] = Nil
  BY <1>1, LoadsCloseStreams DEF OrderOf
<1>8. FreeStreams(x) # {} /\ \A s \in Streams : x.streams[s] = Nil
  BY <1>4, <1>5, <1>7 DEF FreeStreams
<1>9. v \in Stores
  BY <1>2, <1>5, <1>8, SubscribeKeeps
<1>10. /\ \A s \in Streams : v.streams[s] # Nil =>
            v.ref = s /\ v.streams[s].thread = t /\ v.streams[s].at = n
       /\ v.active = t /\ v.seq = n /\ v.base = n /\ v.shown = <<>>
       /\ v.busy = runs /\ v.turn = (IF runs THEN turn ELSE Nil) /\ v.op = w.op
  <2>1. Streaming(v, x, t, n)
    BY <1>2, <1>5, <1>8, SubscribeFields
  <2> HIDE DEF v, runs
  <2> QED
    BY <1>5, <1>6, <2>1 DEF Streaming
<1> HIDE DEF v
<1>11. RunsNow(log[t]) \subseteq RunningAt(t, status)
  <2>1. NoneBegins(log[t], status) /\ Len(log[t]) \in status..Len(log[t])
    BY <1>3, <1>1, <1>2 DEF NoneBegins
  <2> QED
    BY <1>3, <1>2, <2>1, AsRuns, RunsShrink DEF RunsNow
<1>12. ~runs => Through(log[t], n)
  <2> SUFFICES ASSUME ~runs PROVE Through(log[t], n)
    OBVIOUS
  <2>1. /\ RunsIn(log[t], status) = {}
        /\ NoneBegins(log[t], status)
        /\ status \in 0..Len(log[t])
    <3>1. RunsIn(log[t], status) = {}
      BY AsRuns
    <3>2. NoneBegins(log[t], status)
      BY <1>1, <1>2, <1>3 DEF NoneBegins
    <3>3. status \in 0..Len(log[t])
      BY <1>2, <1>3
    <3> QED
      BY <3>1, <3>2, <3>3
  <2>2. Through(log[t], status)
    BY <1>3, <1>2, <2>1, NothingMore
  <2> QED
    BY <1>3, <1>2, <2>2 DEF Through
<1>13. \A p \in Ops : v.op[p].kind \notin {"select", "recover", "send"}
  BY <1>1, <1>4, <1>10, LoadsAlone DEF OrderOf, Idle
<1>14. KnowsTurn(v, log)
  <2> SUFFICES ASSUME NEW i \in RunsNow(log[t]) PROVE turn = i
    BY <1>3, <1>10, <1>11 DEF KnowsTurn
  <2>1. i \in RunningAt(t, status)
    BY <1>11
  <2>2. CASE turn = Latest(t, status)
    <3>1. turn \in RunsIn(log[t], status) /\ i \in RunsIn(log[t], status)
      BY <1>3, <1>2, <2>1, <2>2, LatestRuns, AsRuns
    <3>2. status \in 0..Len(log[t])
      BY <1>3, <1>2
    <3> QED
      BY <1>3, <1>2, <3>1, <3>2, OneRunsIn
  <2>3. CASE u.op[o].kind = "recover" /\ turn = u.op[o].turn
    <3>1. \A p \in Ops : u.op[p].kind # "send"
      BY <1>1, <2>3, LoadsAlone DEF OrderOf
    <3> QED
      BY <1>1, <2>3, <3>1 DEF OrderOf, KnowsTurn
  <2> QED
    BY <2>2, <2>3
<1>15. Ahead(v, log)
  <2>1. NoneBegins(log[t], n + 1)
    BY <1>3, <1>1, <1>2 DEF NoneBegins
  <2>2. v.base <= v.seq /\ v.seq <= Len(log[v.active]) /\ v.seq + 1 = n + 1
    BY <1>10, <1>3
  <2>3. ~v.busy => Through(log[v.active], v.seq)
    BY <1>10, <1>12, Zenon
  <2> QED
    BY <1>10, <2>1, <2>2, <2>3 DEF Ahead
<1>16. TextTo(v, log[v.active], v.seq)
  <2>1. DOMAIN v.shown = {} /\ (v.base + 1)..v.seq = {}
    BY <1>3, <1>2, <1>10
  <2> QED
    BY <2>1 DEF TextTo
<1>17. ASSUME NEW p \in Ops
       PROVE  LoadRight(v, v.op[p], log) /\ SendRight(v, v.op[p], log) /\ StopRight(v.op[p], log)
  <2>1. v.op[p] = Idle \/ v.op[p] = u.op[p]
    BY <1>4, <1>10
  <2>2. StopRight(u.op[p], log) /\ StopRight(Idle, log)
    BY DEF OrderOf, StopRight, Idle
  <2>3. StopRight(v.op[p], log)
    BY <2>1, <2>2
  <2> QED
    BY <1>13, <2>3 DEF LoadRight, SendRight
<1>18. Loading(v) = {} /\ Alone(v) /\ OneStream(v)
  BY <1>10, <1>13 DEF Alone, OneStream, Loading
<1>19. o \in FreeOps(v)
  BY <1>4, <1>10 DEF FreeOps
<1>20. OrderOf(v, log)
  BY <1>14, <1>15, <1>16, <1>17, <1>18 DEF OrderOf
<1> QED
  BY <1>9, <1>10, <1>12, <1>18, <1>19, <1>20 DEF v, x, w, Taken

LEMMA SelectedOrder ==
  ASSUME log \in Logs, \A x \in Threads : InTurn(log[x]),
         NEW u \in Stores, OrderOf(u, log), NEW o \in Ops, u.op[o].kind = "select",
         FreeStreams(u) # {},
         NEW n \in Nat, NEW status \in Nat,
         Found(u.op[o], status, n)
  PROVE  OrderOf(Selected(u, o, status, n), log)
<1> DEFINE t == u.op[o].thread
           y == Taken(u, o, status, n, Latest(t, status), TRUE)
           v == [y EXCEPT !.queue = <<>>]
<1>1. t \in Threads /\ u.op[o].from \in Nat /\ Len(log[t]) \in Nat
  BY OpKinds DEF Loads, Logs
<1>2. Latest(t, status) \in Turns
  BY <1>1, LatestTurn
<1>3. y \in Stores /\ OrderOf(y, log)
  BY <1>1, <1>2, LoadedOrder
<1>4. Selected(u, o, status, n) = v
  BY DEF Selected, Taken
<1> HIDE DEF y
<1>5. /\ v \in Stores /\ v.active = y.active /\ v.seq = y.seq /\ v.base = y.base /\ v.shown = y.shown
      /\ v.busy = y.busy /\ v.turn = y.turn /\ v.op = y.op /\ v.ref = y.ref /\ v.streams = y.streams
  BY <1>3, EmptySeq DEF Stores
<1> HIDE DEF v
<1> QED
  BY <1>3, <1>4, <1>5, OrderSame

LEMMA RecoveredOrder ==
  ASSUME log \in Logs, \A x \in Threads : InTurn(log[x]),
         NEW u \in Stores, OrderOf(u, log), NEW o \in Ops, u.op[o].kind = "recover",
         FreeStreams(u) # {},
         NEW n \in Nat, NEW status \in Nat,
         Found(u.op[o], status, n),
         Alone(Recovered(u, o, status, n))
  PROVE  OrderOf(Recovered(u, o, status, n), log)
<1> DEFINE t == u.op[o].thread
           turn == IF u.op[o].turn # Nil THEN u.op[o].turn ELSE Latest(t, status)
           y == Taken(u, o, status, n, turn, FALSE)
           v == [y EXCEPT !.attempts = 0]
<1>1. t \in Threads /\ u.op[o].from \in Nat /\ Len(log[t]) \in Nat /\ u.op[o].turn \in Turns
  BY OpKinds DEF Loads, Logs
<1>2. /\ turn \in Turns
      /\ turn = Latest(t, status) \/ turn = u.op[o].turn
  BY <1>1, LatestTurn
<1> HIDE DEF turn
<1>3. y \in Stores /\ OrderOf(y, log) /\ o \in FreeOps(y)
  BY <1>1, <1>2, LoadedOrder
<1>4. Recovered(u, o, status, n) = IF y.busy THEN y ELSE Drain(v)
  BY DEF Recovered, Taken, turn
<1> HIDE DEF y
<1>5. /\ v \in Stores /\ v.active = y.active /\ v.seq = y.seq /\ v.base = y.base /\ v.shown = y.shown
      /\ v.busy = y.busy /\ v.turn = y.turn /\ v.op = y.op /\ v.ref = y.ref /\ v.streams = y.streams
  BY <1>3 DEF Stores
<1> HIDE DEF v
<1>6. OrderOf(v, log) /\ HasRoom(v)
  BY <1>3, <1>5, OrderSame DEF HasRoom, FreeOps
<1> QED
  BY <1>3, <1>4, <1>5, <1>6, DrainOrder

LEMMA TextGrows ==
  ASSUME NEW events \in Seq(Events), NEW u \in Stores, NEW k \in Nat, u.base < k, TextTo(u, events, k - 1)
  PROVE  /\ events[k].kind # "delta" => TextTo(u, events, k)
         /\ events[k].kind = "delta" =>
              \A v \in Stores : v.shown = Append(u.shown, k) /\ v.base = u.base => TextTo(v, events, k)
<1> DEFINE text(n) == {i \in (u.base + 1)..n : events[i].kind = "delta"}
           sh == u.shown
<1>1. u.base \in Nat /\ sh \in Seq(Nat)
  BY DEF Stores
<1>2. (u.base + 1)..k = ((u.base + 1)..(k - 1)) \cup {k}
  BY <1>1
<1>3. {sh[i] : i \in DOMAIN sh} = text(k - 1) /\ \A i, j \in DOMAIN sh : i < j => sh[i] < sh[j]
  BY DEF TextTo
<1>4. events[k].kind # "delta" => TextTo(u, events, k)
  BY <1>2, <1>3 DEF TextTo
<1>5. ASSUME events[k].kind = "delta", NEW v \in Stores, v.shown = Append(sh, k), v.base = u.base
      PROVE  TextTo(v, events, k)
  <2> DEFINE new == Append(sh, k)
  <2> HIDE DEF sh
  <2>1. /\ DOMAIN new = DOMAIN sh \cup {Len(sh) + 1} /\ new[Len(sh) + 1] = k
        /\ \A i \in DOMAIN sh : new[i] = sh[i]
    BY <1>1, AppendFacts
  <2>2. DOMAIN sh = 1..Len(sh) /\ Len(sh) \in Nat
    BY <1>1
  <2> HIDE DEF new
  <2>3. {new[i] : i \in DOMAIN new} = {sh[i] : i \in DOMAIN sh} \cup {k}
    BY <2>1
  <2>4. text(k) = text(k - 1) \cup {k}
    BY <1>2, <1>5
  <2>5. \A i \in DOMAIN sh : sh[i] \in text(k - 1)
    BY <1>3
  <2>6. \A i \in DOMAIN sh : sh[i] < k
    BY <2>5
  <2>7. ASSUME NEW i \in DOMAIN new, NEW j \in DOMAIN new, i < j PROVE new[i] < new[j]
    <3>1. i \in DOMAIN sh
      BY <2>1, <2>2, <2>7
    <3> QED
      BY <1>3, <2>1, <2>6, <2>7, <3>1
  <2>8. {new[i] : i \in DOMAIN new} = text(k)
    BY <1>3, <2>3, <2>4
  <2>9. v.shown = new /\ v.base = u.base
    BY <1>5 DEF new, sh
  <2> QED
    BY <2>7, <2>8, <2>9 DEF TextTo
<1> QED
  BY <1>4, <1>5 DEF sh

\* The store in the midst of a batch up to the n-th event, when it has dealt with the k-th.
Amid(x, u, s, n, k) ==
  /\ x.active = u.active /\ x.seq = n /\ x.base = u.base /\ x.op = u.op /\ x.ref = u.ref
  /\ x.streams = [u.streams EXCEPT ![s].at = n]
  /\ x.busy /\ \A i \in RunsNow(log[u.active]) : x.turn = i
  /\ TextTo(x, log[u.active], k)

\* The batch is of events that the store has not seen.
Reaches(u, n) == u.seq < n /\ n <= Len(log[u.active])

LEMMA AmidOrder ==
  ASSUME log \in Logs, NEW u \in Stores, OrderOf(u, log), NEW s \in Streams, u.streams[s] # Nil,
         NEW n \in Nat, Reaches(u, n), NEW x \in Stores, Amid(x, u, s, n, n)
  PROVE  OrderOf(x, log) /\ Loading(x) = {}
<1>1. u.ref = s /\ u.streams[s].thread = u.active /\ Loading(u) = {} /\ u.streams[s] \in Open
  BY DEF OrderOf, OneStream, Stores
<1>2. \A r \in Streams \ {s} : u.streams[r] = Nil
  BY <1>1 DEF OrderOf, OneStream
<1>3. /\ \A r \in Streams \ {s} : x.streams[r] = u.streams[r]
      /\ x.streams[s] = [u.streams[s] EXCEPT !.at = n]
  BY DEF Amid, Stores
<1>4. x.streams[s].thread = x.active /\ x.streams[s].at = x.seq
  BY <1>1, <1>3 DEF Amid, Open
<1>5. Loading(x) = {} /\ Alone(x)
  BY <1>1 DEF Amid, Loading, Alone
<1>6. OneStream(x)
  BY <1>1, <1>2, <1>3, <1>4, <1>5 DEF OneStream, Amid
<1>7. Ahead(x, log)
  <2>1. /\ u.base \in Nat /\ u.seq \in Nat /\ u.base <= u.seq /\ u.active \in Threads
        /\ NoneBegins(log[u.active], u.seq + 1) /\ Len(log[u.active]) \in Nat
    BY DEF Stores, OrderOf, Ahead, Logs
  <2>2. u.seq < n /\ n <= Len(log[u.active])
    BY DEF Reaches
  <2>3. u.base <= n /\ NoneBegins(log[u.active], n + 1)
    BY <2>1, <2>2 DEF NoneBegins
  <2>4. x.busy /\ x.active = u.active /\ x.seq = n /\ x.base = u.base
    BY DEF Amid
  <2> QED
    BY <2>2, <2>3, <2>4 DEF Ahead
<1>8. KnowsTurn(x, log) /\ TextTo(x, log[x.active], x.seq)
  BY DEF Amid, KnowsTurn
<1>9. ASSUME NEW p \in Ops
      PROVE  LoadRight(x, x.op[p], log) /\ SendRight(x, x.op[p], log) /\ StopRight(x.op[p], log)
  <2>1. x.op[p] = u.op[p] /\ x.op[p].kind \notin {"select", "recover", "send"}
    BY <1>1 DEF Amid, Loading
  <2> QED
    BY <2>1 DEF OrderOf, LoadRight, SendRight
<1> QED
  BY <1>5, <1>6, <1>7, <1>8, <1>9 DEF OrderOf

\* A turn that begins in the batch is the one that runs, if it still does.
LEMMA BeginsFirst ==
  ASSUME log \in Logs, \A t \in Threads : InTurn(log[t]), NEW u \in Stores, OrderOf(u, log),
         NEW k \in Nat, Reaches(u, k), log[u.active][k].kind = "user"
  PROVE  \A i \in RunsNow(log[u.active]) : log[u.active][k].turn = i
<1> DEFINE events == log[u.active]
<1>1. /\ u.active \in Threads /\ events \in Seq(Events) /\ Len(events) \in Nat /\ InTurn(events)
      /\ NoneBegins(events, u.seq + 1) /\ u.seq \in Nat
  BY DEF Stores, OrderOf, Ahead, Logs
<1>2. u.seq < k /\ k <= Len(events)
  BY DEF Reaches
<1> HIDE DEF events
<1>3. k \in DOMAIN events /\ events[k].kind = "user"
  BY <1>1, <1>2 DEF events
<1>4. events[k].turn = k /\ RunsIn(events, k - 1) = {} /\ k = u.seq + 1
  BY <1>1, <1>2, <1>3 DEF InTurn, NoneBegins
<1>5. ASSUME NEW i \in RunsNow(events) PROVE i = k
  <2>1. /\ i \in 1..Len(events) /\ i \in DOMAIN events /\ events[i].kind = "user"
        /\ \A j \in 1..Len(events) : ~(events[j].kind \in EndKinds /\ events[j].turn = i)
    BY <1>1 DEF RunsNow, RunsIn
  <2>2. i <= k
    BY <1>1, <1>4, <2>1 DEF NoneBegins
  <2>3. CASE i < k
    <3>1. i \in 1..(k - 1) /\ \A j \in 1..(k - 1) : j \in 1..Len(events)
      BY <1>1, <1>2, <2>1, <2>3
    <3> QED
      BY <1>4, <2>1, <3>1 DEF RunsIn
  <2> QED
    BY <2>1, <2>2, <2>3
<1> QED
  BY <1>4, <1>5 DEF events

\* The end of a turn is the last event there is.
LEMMA DoneIsLast ==
  ASSUME log \in Logs, \A t \in Threads : InTurn(log[t]), NEW u \in Stores, OrderOf(u, log),
         NEW k \in Nat, Reaches(u, k), log[u.active][k].kind \in EndKinds
  PROVE  Through(log[u.active], k)
<1> DEFINE events == log[u.active]
<1>1. /\ u.active \in Threads /\ events \in Seq(Events) /\ Len(events) \in Nat /\ InTurn(events)
      /\ NoneBegins(events, u.seq + 1) /\ u.seq \in Nat
  BY DEF Stores, OrderOf, Ahead, Logs
<1>2. u.seq < k /\ k <= Len(events)
  BY DEF Reaches
<1> HIDE DEF events
<1>3. k \in DOMAIN events /\ k \in 0..Len(events) /\ NoneBegins(events, k)
  BY <1>1, <1>2 DEF NoneBegins, EndKinds
<1>4. events[k].kind \in EndKinds
  BY DEF events
<1>5. RunsIn(events, k) = {}
  BY <1>1, <1>3, <1>4, DoneMeansOver
<1>6. Through(events, k)
  BY <1>1, <1>3, <1>5, NothingMore
<1> QED
  BY <1>6 DEF events

LEMMA AmidStep ==
  ASSUME ChatTypeOK, \A t \in Threads : InTurn(log[t]), NEW u \in Stores, OrderOf(u, log),
         NEW s \in Streams, u.streams[s] # Nil, NEW n \in Nat, NEW k \in Nat, Reaches(u, k),
         NEW x \in Stores, HasRoom(x), Amid(x, u, s, n, k - 1), log[u.active][k].kind \notin EndKinds
  PROVE  LET y == Apply(x, s, log[u.active][k], k) IN
         y \in Stores /\ HasRoom(y) /\ Amid(y, u, s, n, k)
<1> DEFINE events == log[u.active]
           event  == events[k]
           y      == Apply(x, s, event, k)
<1>1. log \in Logs /\ events \in Seq(Events) /\ u.base <= u.seq /\ u.base \in Nat /\ u.seq \in Nat
  BY DEF ChatTypeOK, Logs, Stores, OrderOf, Ahead
<1>2. event \in Events
  <2>1. k \in DOMAIN events
    BY <1>1 DEF Reaches
  <2> HIDE DEF events
  <2> QED
    BY <1>1, <2>1, ElementOfSeq DEF event
<1>3. x.base < k /\ x.base = u.base
  BY <1>1 DEF Reaches, Amid
<1>4. y \in Stores /\ HasRoom(y)
  BY <1>2, ApplyKeeps
<1>5. x.streams[s] # Nil
  <2>1. u.streams[s] \in Open
    BY DEF Stores
  <2>2. x.streams[s] = [u.streams[s] EXCEPT !.at = n]
    BY DEF Amid, Stores
  <2> QED
    BY <2>1, <2>2, ChatAssumption DEF Open
<1>6. TextTo(x, events, k - 1)
  BY DEF Amid
<1>7. CASE event.kind = "user"
  <2>1. y = [x EXCEPT !.busy = TRUE, !.turn = event.turn, !.armed = TRUE]
    BY <1>5, <1>7 DEF Apply
  <2> HIDE DEF y
  <2>2. /\ y.active = x.active /\ y.seq = x.seq /\ y.base = x.base /\ y.op = x.op /\ y.ref = x.ref
        /\ y.streams = x.streams /\ y.shown = x.shown /\ y.busy /\ y.turn = event.turn
    BY <2>1 DEF Stores
  <2>3. \A i \in RunsNow(events) : event.turn = i
    BY <1>1, <1>7, BeginsFirst
  <2>4. TextTo(x, events, k)
    BY <1>1, <1>3, <1>6, <1>7, TextGrows
  <2>5. TextTo(y, events, k)
    BY <2>2, <2>4 DEF TextTo
  <2> HIDE DEF event
  <2>6. Amid(y, u, s, n, k)
    BY <2>2, <2>3, <2>5 DEF Amid
  <2> QED
    BY <1>4, <2>6 DEF y, event
<1>8. CASE event.kind = "delta"
  <2>1. y = [x EXCEPT !.shown = Append(@, k), !.armed = @ \/ ~x.busy, !.busy = TRUE]
    BY <1>5, <1>8 DEF Apply
  <2> HIDE DEF y
  <2>2. /\ y.active = x.active /\ y.seq = x.seq /\ y.base = x.base /\ y.op = x.op /\ y.ref = x.ref
        /\ y.streams = x.streams /\ y.shown = Append(x.shown, k) /\ y.busy /\ y.turn = x.turn
    BY <2>1 DEF Stores
  <2>3. TextTo(y, events, k)
    BY <1>1, <1>3, <1>4, <1>6, <1>8, <2>2, TextGrows
  <2>4. Amid(y, u, s, n, k)
    BY <2>2, <2>3 DEF Amid
  <2> QED
    BY <1>4, <2>4 DEF y
<1> QED
  BY <1>2, <1>7, <1>8 DEF Events

LEMMA AmidOpen ==
  ASSUME NEW u \in Stores, NEW s \in Streams, u.streams[s] # Nil, NEW n \in Nat, NEW k, NEW x, Amid(x, u, s, n, k)
  PROVE  x.streams[s] # Nil
<1>1. u.streams[s] \in Open
  BY DEF Stores
<1>2. x.streams[s] = [u.streams[s] EXCEPT !.at = n]
  BY DEF Amid, Stores
<1> QED
  BY <1>1, <1>2, ChatAssumption DEF Open

\* The end of a turn, the last event of a batch, settles the store.
LEMMA AmidDone ==
  ASSUME ChatTypeOK, \A t \in Threads : InTurn(log[t]), NEW u \in Stores, OrderOf(u, log),
         NEW s \in Streams, u.streams[s] # Nil, NEW n \in Nat, Reaches(u, n),
         NEW x \in Stores, HasRoom(x), Amid(x, u, s, n, n - 1), log[u.active][n].kind \in EndKinds,
         Alone(Apply(x, s, log[u.active][n], n))
  PROVE  OrderOf(Apply(x, s, log[u.active][n], n), log)
<1> DEFINE events == log[u.active]
           v == [x EXCEPT !.armed = FALSE, !.busy = FALSE, !.turn = Nil]
<1>1. log \in Logs /\ events \in Seq(Events) /\ u.base <= u.seq /\ u.base \in Nat /\ u.seq \in Nat
  BY DEF ChatTypeOK, Logs, Stores, OrderOf, Ahead
<1>2. x.base < n /\ TextTo(x, events, n - 1)
  BY <1>1 DEF Reaches, Amid
<1>3. TextTo(x, events, n)
  BY <1>1, <1>2, TextGrows DEF EndKinds
<1>4. Amid(x, u, s, n, n)
  BY <1>3 DEF Amid
<1>5. OrderOf(x, log) /\ Loading(x) = {} /\ x.active = u.active /\ x.seq = n
  BY <1>1, <1>4, AmidOrder DEF Amid
<1>6. Through(log[x.active], x.seq)
  BY <1>1, <1>5, DoneIsLast
<1>7. x.streams[s] # Nil
  BY <1>4, AmidOpen
<1> HIDE DEF events
<1>8. /\ v \in Stores /\ v.active = x.active /\ v.seq = x.seq /\ v.base = x.base /\ v.shown = x.shown
      /\ v.op = x.op /\ v.ref = x.ref /\ v.streams = x.streams
      /\ v.queue = x.queue /\ v.draining = x.draining
  BY DEF Stores, Turns
<1> HIDE DEF v
<1>9. OrderOf(v, log) /\ HasRoom(v)
  BY <1>1, <1>5, <1>6, <1>8, SettleOrder DEF HasRoom, FreeOps
<1>10. CASE events[n].kind = "done"
  <2>1. Apply(x, s, events[n], n) = Drain(v)
    BY <1>7, <1>10 DEF Apply, Completed, v
  <2> QED
    BY <1>1, <1>8, <1>9, <2>1, DrainOrder DEF events
<1>11. CASE events[n].kind \in {"failed", "cancelled"}
  <2> DEFINE cancelled == events[n].kind = "cancelled"
             y == Errored(x, cancelled)
  <2>1. Apply(x, s, events[n], n) = y
    BY <1>7, <1>11 DEF Apply
  <2>2. cancelled \in BOOLEAN
    OBVIOUS
  <2> HIDE DEF cancelled
  <2>3. /\ y \in Stores /\ y.active = x.active /\ y.seq = x.seq /\ y.base = x.base /\ y.shown = x.shown
        /\ y.op = x.op /\ y.ref = x.ref /\ y.streams = x.streams
    BY <2>2, ErroredFields
  <2> HIDE DEF y
  <2>4. OrderOf(y, log)
    BY <1>1, <1>5, <1>6, <2>3, SettleOrder
  <2> QED
    BY <2>1, <2>4 DEF events
<1> QED
  BY <1>10, <1>11 DEF EndKinds, events

LEMMA DispatchedOrder ==
  ASSUME ChatTypeOK, \A x \in Threads : InTurn(log[x]), NEW u \in Stores, OrderOf(u, log), HasRoom(u),
         NEW s \in Streams, u.streams[s] # Nil,
         NEW n \in (u.streams[s].at + 1)..Len(log[u.streams[s].thread]),
         Alone(Dispatched(u, s, n))
  PROVE  OrderOf(Dispatched(u, s, n), log)
<1> DEFINE t     == u.streams[s].thread
           first == u.streams[s].at
           v     == [u EXCEPT !.streams[s].at = n]
           w     == [v EXCEPT !.seq = n, !.attempts = 0]
           after == CHOOSE f : f = [k \in first..n |-> IF k = first THEN w ELSE Apply(f[k - 1], s, log[t][k], k)]
<1>1. u.streams[s] \in Open
  BY DEF Stores
<1>2. t = u.active /\ first = u.seq /\ t \in Threads /\ first \in Nat /\ Loading(u) = {}
  BY <1>1 DEF Open, OrderOf, OneStream
<1>3. log[t] \in Seq(Events) /\ log \in Logs
  BY <1>2 DEF ChatTypeOK, Logs
<1>4. n \in Nat /\ first < n /\ n <= Len(log[t]) /\ Len(log[t]) \in Nat
  BY <1>2, <1>3
<1>5. Dispatched(u, s, n) = after[n]
  BY <1>2 DEF Dispatched
<1>6. /\ v \in Stores /\ v.active = u.active /\ v.base = u.base /\ v.shown = u.shown
      /\ v.busy = u.busy /\ v.turn = u.turn /\ v.op = u.op /\ v.ref = u.ref
      /\ v.queue = u.queue /\ v.draining = u.draining /\ v.streams = [u.streams EXCEPT ![s].at = n]
  <2>1. [u.streams[s] EXCEPT !.at = n] \in Open
    BY <1>1, <1>4 DEF Open
  <2> QED
    BY <2>1 DEF Stores
<1> HIDE DEF v
<1>7. /\ w \in Stores /\ w.active = v.active /\ w.base = v.base /\ w.shown = v.shown
      /\ w.busy = v.busy /\ w.turn = v.turn /\ w.op = v.op /\ w.ref = v.ref
      /\ w.queue = v.queue /\ w.draining = v.draining /\ w.streams = v.streams /\ w.seq = n
  BY <1>4, <1>6 DEF Stores
<1>8. HasRoom(w)
  BY <1>6, <1>7 DEF HasRoom, FreeOps
<1>9. Amid(w, u, s, n, first)
  <2>1. w.busy
    <3>1. u.busy
      BY <1>2, <1>4 DEF OrderOf, Ahead, Through
    <3> QED
      BY <1>6, <1>7, <3>1
  <2>2. \A i \in RunsNow(log[u.active]) : w.turn = i
    BY <1>2, <1>6, <1>7 DEF OrderOf, KnowsTurn, Loading
  <2>3. TextTo(w, log[u.active], first)
    BY <1>2, <1>6, <1>7 DEF OrderOf, TextTo
  <2> HIDE DEF w
  <2> QED
    BY <1>6, <1>7, <2>1, <2>2, <2>3 DEF Amid
<1> HIDE DEF w, t, first
<1>10. after = [k \in first..n |-> IF k = first THEN w ELSE Apply(after[k - 1], s, log[t][k], k)]
  <2>1. \E f : Dispatches(f, first, n, w, s, t)
    <3>1. first <= n
      BY <1>2, <1>4
    <3>2. \A m \in Nat : first <= m => \E f : Dispatches(f, first, m, w, s, t)
      BY <1>2, BatchExists
    <3> QED
      BY <1>4, <3>1, <3>2
  <2> QED
    BY <2>1, Zenon DEF Dispatches
<1> HIDE DEF after
<1>11. ASSUME NEW k \in Nat, first < k, k <= n PROVE Reaches(u, k)
  BY <1>2, <1>4, <1>11 DEF Reaches
<1>12. ASSUME NEW k \in Nat, first < k, k < n PROVE log[t][k].kind \notin EndKinds
  <2> SUFFICES ASSUME log[t][k].kind \in EndKinds PROVE FALSE
    OBVIOUS
  <2>1. Through(log[t], k)
    BY <1>2, <1>3, <1>4, <1>11, <1>12, DoneIsLast
  <2> QED
    BY <1>4, <1>12, <2>1 DEF Through
<1> DEFINE Kept(k) == after[k] \in Stores /\ HasRoom(after[k]) /\ Amid(after[k], u, s, n, k)
           failing == {k \in first..(n - 1) : ~Kept(k)}
<1>13. failing = {}
  <2> SUFFICES ASSUME failing # {} PROVE FALSE
    OBVIOUS
  <2>1. PICK k \in failing : \A m \in failing : k <= m
    <3>1. failing \in SUBSET Nat
      BY <1>2
    <3> HIDE DEF failing
    <3> QED
      BY <3>1, LeastNatural
  <2>2. k \in first..(n - 1) /\ ~Kept(k)
    BY <2>1
  <2>3. CASE k = first
    BY <1>4, <1>7, <1>8, <1>9, <1>10, <2>2, <2>3
  <2>4. CASE k # first
    <3>1. k - 1 \in first..(n - 1) /\ k - 1 < k /\ k \in Nat /\ first < k /\ k < n
      BY <1>2, <1>4, <2>2, <2>4
    <3>2. Kept(k - 1)
      <4>1. k - 1 \notin failing
        <5> HIDE DEF failing
        <5> QED
          BY <2>1, <3>1, <1>2
      <4> QED
        BY <3>1, <4>1
    <3>3. after[k] = Apply(after[k - 1], s, log[t][k], k)
      BY <1>2, <1>4, <1>10, <2>2, <2>4
    <3>4. log[u.active][k].kind \notin EndKinds /\ Reaches(u, k)
      BY <1>2, <1>11, <1>12, <3>1
    <3>5. Kept(k)
      BY <1>2, <1>4, <3>1, <3>2, <3>3, <3>4, AmidStep
    <3> QED
      BY <2>2, <3>5
  <2> QED
    BY <2>3, <2>4
<1>14. Kept(n - 1)
  <2>1. n - 1 \in first..(n - 1)
    BY <1>2, <1>4
  <2> QED
    BY <1>13, <2>1
<1>15. after[n] = Apply(after[n - 1], s, log[t][n], n)
  BY <1>2, <1>4, <1>10
<1>16. Reaches(u, n)
  BY <1>4, <1>11
<1>17. CASE log[t][n].kind \notin EndKinds
  <2>1. after[n] \in Stores /\ Amid(after[n], u, s, n, n)
    BY <1>2, <1>4, <1>14, <1>15, <1>16, <1>17, AmidStep
  <2> QED
    BY <1>3, <1>4, <1>5, <1>16, <2>1, AmidOrder
<1>18. CASE log[t][n].kind \in EndKinds
  BY <1>2, <1>4, <1>5, <1>14, <1>15, <1>16, <1>18, AmidDone
<1> QED
  BY <1>17, <1>18

-----------------------------------------------------------------------------
(* The logs grow, and the store keeps the order. *)

\* The logs with one more event of a thread.
With(logs, t, e) == [logs EXCEPT ![t] = Append(@, e)]

\* What that does to the log of one thread.
GrownAt(logs, more, t, e, x) ==
  /\ Len(logs[x]) \in Nat /\ Len(more[x]) \in Nat /\ Len(logs[x]) <= Len(more[x])
  /\ \A k \in DOMAIN logs[x] : k \in DOMAIN more[x] /\ more[x][k] = logs[x][k]
  /\ \A k \in DOMAIN more[x] :
       k \in DOMAIN logs[x] \/ (x = t /\ k = Len(logs[t]) + 1 /\ more[x][k] = e)
  /\ RunsNow(more[x]) \subseteq RunsNow(logs[x]) \cup {Len(logs[t]) + 1}
  /\ e.kind # "user" => RunsNow(more[x]) \subseteq RunsNow(logs[x])
  /\ x # t => more[x] = logs[x]

LEMMA Grown ==
  ASSUME NEW logs \in Logs, NEW t \in Threads, NEW e \in Events, NEW x \in Threads
  PROVE  /\ GrownAt(logs, With(logs, t, e), t, e, x)
         /\ With(logs, t, e) \in Logs
         /\ \E k \in DOMAIN With(logs, t, e)[t] : With(logs, t, e)[t][k] = e
<1> DEFINE more == With(logs, t, e)
           new  == Append(logs[t], e)
<1>1. logs[t] \in Seq(Events) /\ logs[x] \in Seq(Events) /\ Len(logs[x]) \in Nat
  BY DEF Logs
<1>2. /\ new \in Seq(Events) /\ Len(new) = Len(logs[t]) + 1
      /\ \A k \in DOMAIN logs[t] : k \in DOMAIN new /\ new[k] = logs[t][k]
      /\ new[Len(logs[t]) + 1] = e
      /\ \A k \in DOMAIN new : k \in DOMAIN logs[t] \/ k = Len(logs[t]) + 1
      /\ RunsNow(new) \subseteq RunsNow(logs[t]) \cup (IF e.kind = "user" THEN {Len(logs[t]) + 1} ELSE {})
  BY <1>1, LogGrows
<1>3. more \in Logs /\ more[t] = new /\ (x # t => more[x] = logs[x])
  BY <1>2 DEF Logs, With
<1> HIDE DEF more, new
<1>4. Len(logs[t]) + 1 \in DOMAIN new
  BY <1>1, <1>2
<1>5. \E k \in DOMAIN more[t] : more[t][k] = e
  BY <1>2, <1>3, <1>4
<1>6. CASE x = t
  <2>1. more[x] = new /\ logs[x] = logs[t]
    BY <1>3, <1>6
  <2>2. Len(more[x]) \in Nat /\ Len(logs[x]) <= Len(more[x])
    BY <1>1, <1>2, <2>1
  <2>3. /\ \A k \in DOMAIN logs[x] : k \in DOMAIN more[x] /\ more[x][k] = logs[x][k]
        /\ \A k \in DOMAIN more[x] : k \in DOMAIN logs[x] \/ (x = t /\ k = Len(logs[t]) + 1 /\ more[x][k] = e)
    BY <1>2, <1>6, <2>1
  <2>4. /\ RunsNow(more[x]) \subseteq RunsNow(logs[x]) \cup {Len(logs[t]) + 1}
        /\ e.kind # "user" => RunsNow(more[x]) \subseteq RunsNow(logs[x])
    BY <1>2, <1>6, <2>1
  <2> QED
    BY <1>1, <1>3, <1>6, <2>2, <2>3, <2>4, <1>5 DEF more, GrownAt
<1>7. CASE x # t
  BY <1>1, <1>3, <1>7, <1>5 DEF more, GrownAt
<1> QED
  BY <1>6, <1>7

\* Text, or the end, of a turn that runs.
LEMMA GrowsOrder ==
  ASSUME NEW u \in Stores, NEW logs \in Logs, OrderOf(u, logs), NEW t \in Threads, NEW e \in Events,
         e.kind # "user", e.turn \in RunsNow(logs[t])
  PROVE  OrderOf(u, With(logs, t, e))
<1> DEFINE more == With(logs, t, e)
<1>1. ASSUME NEW x \in Threads
      PROVE  /\ Len(logs[x]) \in Nat /\ Len(more[x]) \in Nat /\ Len(logs[x]) <= Len(more[x])
             /\ \A k \in DOMAIN logs[x] : k \in DOMAIN more[x] /\ more[x][k] = logs[x][k]
             /\ \A k \in DOMAIN more[x] : k \in DOMAIN logs[x] \/ more[x][k].kind # "user"
             /\ RunsNow(more[x]) \subseteq RunsNow(logs[x])
             /\ x # t => more[x] = logs[x]
  <2>1. GrownAt(logs, more, t, e, x)
    BY Grown
  <2> HIDE DEF more
  <2> QED
    BY <2>1 DEF GrownAt
<1> HIDE DEF more
<1>2. u.active \in Threads /\ u.seq \in Nat /\ u.base \in Nat
  BY DEF Stores
<1>3. ASSUME NEW x \in Threads, NEW n \in Nat, NoneBegins(logs[x], n) PROVE NoneBegins(more[x], n)
  BY <1>1, <1>3 DEF NoneBegins
<1>4. ASSUME NEW n \in Nat, NEW x \in Threads, Through(logs[x], n) PROVE Through(more[x], n)
  BY <1>1, <1>4 DEF Through
<1>5. Ahead(u, more)
  BY <1>1, <1>2, <1>3, <1>4 DEF OrderOf, Ahead
<1>6. KnowsTurn(u, more)
  BY <1>1, <1>2 DEF OrderOf, KnowsTurn
<1>7. TextTo(u, more[u.active], u.seq)
  <2>1. \A k \in (u.base + 1)..u.seq : more[u.active][k] = logs[u.active][k]
    <3>1. logs[u.active] \in Seq(Events) /\ u.seq <= Len(logs[u.active])
      BY <1>2 DEF Logs, OrderOf, Ahead
    <3>2. \A k \in (u.base + 1)..u.seq : k \in DOMAIN logs[u.active]
      BY <1>2, <3>1
    <3> QED
      BY <1>1, <1>2, <3>2
  <2> QED
    BY <2>1 DEF OrderOf, TextTo
<1>8. ASSUME NEW o \in Ops
      PROVE  LoadRight(u, u.op[o], more) /\ SendRight(u, u.op[o], more) /\ StopRight(u.op[o], more)
  <2>1. LoadRight(u, u.op[o], more)
    <3> SUFFICES ASSUME u.op[o].kind \in {"select", "recover"} PROVE LoadRight(u, u.op[o], more)
      BY DEF LoadRight
    <3>1. u.op[o].thread \in Threads /\ u.op[o].from \in Nat
      BY OpKinds DEF Loads
    <3> QED
      BY <1>1, <1>3, <3>1 DEF OrderOf, LoadRight
  <2>2. SendRight(u, u.op[o], more)
    BY <1>1, <1>2, <1>4 DEF OrderOf, SendRight
  <2>3. StopRight(u.op[o], more)
    <3> SUFFICES ASSUME u.op[o].kind = "interrupt" PROVE StopRight(u.op[o], more)
      BY DEF StopRight
    <3>1. u.op[o].thread \in Threads
      BY OpKinds DEF Stops
    <3> QED
      BY <1>1, <3>1 DEF OrderOf, StopRight
  <2> QED
    BY <2>1, <2>2, <2>3
<1>9. Alone(u) /\ OneStream(u)
  BY DEF OrderOf
<1>10. OrderOf(u, more)
  BY <1>5, <1>6, <1>7, <1>8, <1>9 DEF OrderOf
<1> QED
  BY <1>10 DEF more

Answered(u, o) == [u EXCEPT !.op[o].at = "answered"]

\* An interrupt is answered when the end of its turn is in the log.
LEMMA StoppedOrder ==
  ASSUME NEW u \in Stores, NEW logs, OrderOf(u, logs), NEW o \in Ops,
         u.op[o].kind = "interrupt", NEW t, t = u.op[o].thread,
         NEW e, e.kind = "done", e.turn = u.op[o].turn, \E j \in DOMAIN logs[t] : logs[t][j] = e
  PROVE  OrderOf(Answered(u, o), logs)
<1> DEFINE v == Answered(u, o)
<1>1. u.op[o] \in Stops
  BY OpKinds
<1>2. /\ v.active = u.active /\ v.seq = u.seq /\ v.base = u.base /\ v.shown = u.shown
      /\ v.busy = u.busy /\ v.turn = u.turn /\ v.ref = u.ref /\ v.streams = u.streams
      /\ v.op[o] = [u.op[o] EXCEPT !.at = "answered"] /\ \A p \in Ops \ {o} : v.op[p] = u.op[p]
  BY DEF Stores, Answered
<1> HIDE DEF v
<1>3. v.op[o].kind = "interrupt" /\ v.op[o].thread = u.op[o].thread /\ v.op[o].turn = u.op[o].turn
  BY <1>1, <1>2 DEF Stops
<1>4. Loading(v) = Loading(u)
  BY <1>2, <1>3 DEF Loading
<1>5. Alone(v) /\ OneStream(v) /\ Ahead(v, logs) /\ TextTo(v, logs[v.active], v.seq)
  BY <1>2, <1>4 DEF OrderOf, Alone, OneStream, Ahead, TextTo
<1>6. KnowsTurn(v, logs)
  BY <1>2, <1>3 DEF OrderOf, KnowsTurn
<1>7. ASSUME NEW p \in Ops
      PROVE  LoadRight(v, v.op[p], logs) /\ SendRight(v, v.op[p], logs) /\ StopRight(v.op[p], logs)
  <2>1. CASE p = o
    BY <1>3, <2>1 DEF LoadRight, SendRight, StopRight
  <2>2. CASE p # o
    BY <1>2, <2>2 DEF OrderOf, LoadRight, SendRight
  <2> QED
    BY <2>1, <2>2
<1> QED
  BY <1>5, <1>6, <1>7 DEF OrderOf, v

\* The answer to a send names the turn that it began.
AnsweredBy(u, o, n) == [u EXCEPT !.op[o].at = "answered", !.op[o].turn = n]

\* The turn of a message begins at the end of the log that the store has seen.
LEMMA SentOrder ==
  ASSUME NEW u \in Stores, NEW logs \in Logs, OrderOf(u, logs), NEW o \in Ops,
         u.op[o].kind = "send", u.op[o].at = "asking", NEW t \in Threads, t = u.op[o].thread,
         NEW e \in Events
  PROVE  /\ RunsNow(logs[t]) = {}
         /\ OrderOf(AnsweredBy(u, o, Len(logs[t]) + 1), With(logs, t, e))
<1> DEFINE n    == Len(logs[t]) + 1
           v    == AnsweredBy(u, o, n)
           more == With(logs, t, e)
<1>1. /\ u.op[o] \in Sends /\ t = u.active /\ u.op[o].seq = u.seq /\ u.busy
      /\ Len(logs[t]) = u.seq /\ RunsNow(logs[t]) = {}
  BY OpKinds DEF OrderOf, SendRight, Through
<1>2. ASSUME NEW x \in Threads
      PROVE  /\ Len(logs[x]) \in Nat /\ Len(more[x]) \in Nat /\ Len(logs[x]) <= Len(more[x])
             /\ \A k \in DOMAIN logs[x] : k \in DOMAIN more[x] /\ more[x][k] = logs[x][k]
             /\ \A k \in DOMAIN more[x] : k \in DOMAIN logs[x] \/ (x = t /\ k = n)
             /\ RunsNow(more[x]) \subseteq RunsNow(logs[x]) \cup {n}
  <2>1. GrownAt(logs, more, t, e, x)
    BY Grown
  <2> HIDE DEF more
  <2> QED
    BY <2>1 DEF GrownAt
<1> HIDE DEF more
<1>3. /\ v.active = u.active /\ v.seq = u.seq /\ v.base = u.base /\ v.shown = u.shown
      /\ v.busy = u.busy /\ v.turn = u.turn /\ v.ref = u.ref /\ v.streams = u.streams
      /\ v.op[o] = [u.op[o] EXCEPT !.at = "answered", !.turn = n] /\ \A p \in Ops \ {o} : v.op[p] = u.op[p]
  BY <1>1 DEF Stores, Sends, AnsweredBy
<1> HIDE DEF v
<1>4. /\ v.op[o].kind = "send" /\ v.op[o].at = "answered" /\ v.op[o].thread = t /\ v.op[o].turn = n
      /\ v.op[o].seq = u.seq
  BY <1>1, <1>3 DEF Sends
<1>5. \A p \in Ops \ {o} : u.op[p].kind \notin {"select", "recover", "send"}
  BY LoadsAlone DEF OrderOf, Loading
<1>6. Loading(v) = Loading(u)
  BY <1>3, <1>4 DEF Loading
<1>7. Alone(v) /\ OneStream(v)
  BY <1>3, <1>6 DEF OrderOf, Alone, OneStream
<1>8. Ahead(v, more)
  <2>1. u.seq \in Nat /\ u.base <= u.seq
    BY DEF Stores, OrderOf, Ahead
  <2>2. logs[t] \in Seq(Events)
    BY DEF Logs
  <2>3. \A k \in DOMAIN more[t] : k <= u.seq + 1
    BY <1>1, <1>2, <2>1, <2>2
  <2>4. NoneBegins(more[t], u.seq + 1)
    BY <1>1, <1>2, <2>1, <2>3 DEF NoneBegins
  <2> QED
    BY <1>1, <1>2, <1>3, <2>1, <2>4 DEF Ahead
<1>9. KnowsTurn(v, more)
  BY <1>4 DEF KnowsTurn
<1>10. TextTo(v, more[v.active], v.seq)
  <2>1. \A k \in (u.base + 1)..u.seq : more[u.active][k] = logs[u.active][k]
    <3>1. logs[t] \in Seq(Events) /\ u.base \in Nat /\ u.seq \in Nat
      BY DEF Logs, Stores
    <3>2. \A k \in (u.base + 1)..u.seq : k \in DOMAIN logs[t]
      BY <1>1, <3>1
    <3> QED
      BY <1>1, <1>2, <3>2
  <2> QED
    BY <1>3, <2>1 DEF OrderOf, TextTo
<1>11. ASSUME NEW p \in Ops
       PROVE  LoadRight(v, v.op[p], more) /\ SendRight(v, v.op[p], more) /\ StopRight(v.op[p], more)
  <2>1. CASE p = o
    BY <1>1, <1>2, <1>3, <1>4, <2>1 DEF LoadRight, SendRight, StopRight
  <2>2. CASE p # o
    <3>1. v.op[p] = u.op[p] /\ u.op[p].kind \notin {"select", "recover", "send"}
      BY <1>3, <1>5, <2>2
    <3>2. StopRight(u.op[p], more)
      <4> SUFFICES ASSUME u.op[p].kind = "interrupt" PROVE StopRight(u.op[p], more)
        BY DEF StopRight
      <4>1. u.op[p].thread \in Threads
        BY OpKinds DEF Stops
      <4> QED
        BY <1>2, <4>1 DEF OrderOf, StopRight
    <3> QED
      BY <3>1, <3>2 DEF LoadRight, SendRight
  <2> QED
    BY <2>1, <2>2
<1>12. OrderOf(v, more)
  BY <1>7, <1>8, <1>9, <1>10, <1>11 DEF OrderOf
<1> QED
  BY <1>1, <1>12 DEF v, more

\* The logs of all threads stay in turn.
LEMMA InTurnGrows ==
  ASSUME NEW logs \in Logs, \A x \in Threads : InTurn(logs[x]), NEW t \in Threads, NEW e \in Events,
         IF e.kind = "user" THEN e.turn = Len(logs[t]) + 1 /\ RunsNow(logs[t]) = {}
                            ELSE e.turn \in RunsNow(logs[t])
  PROVE  \A x \in Threads : InTurn(With(logs, t, e)[x])
<1>1. logs[t] \in Seq(Events) /\ InTurn(logs[t])
  BY DEF Logs
<1>2. InTurn(Append(logs[t], e))
  BY <1>1, StaysInTurn
<1> QED
  BY <1>2 DEF With, Logs

-----------------------------------------------------------------------------
(* The actions of the chat keep the order. *)

\* As long as loads and sends do not overlap, and no turn is taken for ended early.
OneAtATime == ~(overlap \/ early) => (\A t \in Threads : InTurn(log[t])) /\ OrderOf(ui, log)

LEMMA OneAtATimeInit == ChatInit => OneAtATime
<1> SUFFICES ASSUME ChatInit PROVE (\A t \in Threads : InTurn(log[t])) /\ OrderOf(ui, log)
  BY DEF OneAtATime
<1>1. PICK t \in Threads :
        ui = [active |-> t, seq |-> 0, busy |-> FALSE, turn |-> Nil, queue |-> <<>>,
              ref |-> Nil, streams |-> [s \in Streams |-> Nil], armed |-> FALSE, attempts |-> 0,
              draining |-> Nil, op |-> [o \in Ops |-> Idle], base |-> 0, shown |-> <<>>]
  BY DEF ChatInit
<1>2. \A x \in Threads : log[x] = <<>>
  BY DEF ChatInit
<1>3. /\ ui.active = t /\ ui.seq = 0 /\ ui.base = 0 /\ ui.shown = <<>> /\ ui.busy = FALSE
      /\ \A s \in Streams : ui.streams[s] = Nil
      /\ \A o \in Ops : ui.op[o] = Idle
  BY <1>1
<1>4. /\ DOMAIN (<<>>) = {} /\ Len(<<>>) = 0
      /\ RunsNow(<<>>) = {} /\ \A n \in Nat : NoneBegins(<<>>, n)
  BY EmptySeq DEF RunsNow, RunsIn, NoneBegins
<1>5. \A x \in Threads : InTurn(log[x])
  BY <1>2, <1>4 DEF InTurn
<1>6. Alone(ui) /\ OneStream(ui) /\ KnowsTurn(ui, log)
  BY <1>2, <1>3, <1>4 DEF Alone, Loading, Idle, OneStream, KnowsTurn
<1>7. Ahead(ui, log)
  BY <1>2, <1>3, <1>4 DEF Ahead, Through
<1>8. TextTo(ui, log[ui.active], ui.seq)
  <2>1. (0 + 1)..0 = {}
    OBVIOUS
  <2> QED
    BY <1>3, <1>4, <2>1 DEF TextTo
<1>9. \A o \in Ops : LoadRight(ui, ui.op[o], log) /\ SendRight(ui, ui.op[o], log) /\ StopRight(ui.op[o], log)
  BY <1>3 DEF Idle, LoadRight, SendRight, StopRight
<1> QED
  BY <1>5, <1>6, <1>7, <1>8, <1>9 DEF OrderOf

LEMMA StoreAlone ==
  ASSUME ChatTypeOK, NEW u, Store(u), ~overlap'
  PROVE  ui' = u /\ ~overlap /\ Alone(u)
<1>1. ui' = u /\ ~overlap /\ ~(Cardinality(Loading(u)) > 1)
  BY DEF Store
<1>2. ASSUME NEW a \in Loading(u), NEW b \in Loading(u), a # b PROVE FALSE
  <2>1. IsFiniteSet(Ops)
    <3>1. 1 \in Int /\ MaxOps \in Int
      BY ChatAssumption
    <3> QED
      BY <3>1, FS_Interval DEF Ops
  <2>2. IsFiniteSet(Loading(u))
    <3>1. Loading(u) \subseteq Ops
      BY DEF Loading
    <3> QED
      BY <2>1, <3>1, FS_Subset
  <2>3. {a, b} \subseteq Loading(u) /\ {a, b} = {a} \cup {b}
    BY <1>2
  <2>4. IsFiniteSet({a}) /\ Cardinality({a}) = 1
    BY FS_Singleton
  <2>5. Cardinality({a} \cup {b}) = 2
    BY <1>2, <2>4, FS_AddElement
  <2>6. Cardinality({a, b}) <= Cardinality(Loading(u)) /\ Cardinality(Loading(u)) \in Nat
    BY <2>2, <2>3, FS_Subset, FS_CardinalityType
  <2> QED
    BY <1>1, <2>3, <2>5, <2>6
<1> QED
  BY <1>1, <1>2 DEF Alone

\* A step of the store that leaves the runtime alone.
LEMMA OrderStep ==
  ASSUME ChatTypeOK, OneAtATime, UNCHANGED log, NEW u, Store(u), early => early',
         (\A t \in Threads : InTurn(log[t])) /\ OrderOf(ui, log) /\ Alone(u) /\ ~early' => OrderOf(u, log)
  PROVE  OneAtATime'
<1> SUFFICES ASSUME ~overlap', ~early' PROVE (\A t \in Threads : InTurn(log[t])') /\ OrderOf(ui, log)'
  BY DEF OneAtATime
<1>1. ui' = u /\ ~overlap /\ Alone(u)
  BY StoreAlone
<1>2. (\A t \in Threads : InTurn(log[t])) /\ OrderOf(u, log)
  BY <1>1 DEF OneAtATime
<1> QED
  BY <1>1, <1>2

LEMMA TypeOrder == ASSUME ChatTypeOK, OneAtATime, NEW m \in Messages, Type(m) PROVE OneAtATime'
<1>1. ui \in Stores /\ log \in Logs /\ UNCHANGED <<log, early>>
  BY DEF ChatTypeOK, Logs, Type
<1>2. CASE ui.busy
  <2> DEFINE v == [ui EXCEPT !.queue = Append(@, m)]
  <2>1. Store(v)
    BY <1>2 DEF Type
  <2>2. /\ v \in Stores /\ v.active = ui.active /\ v.seq = ui.seq /\ v.base = ui.base /\ v.shown = ui.shown
        /\ v.busy = ui.busy /\ v.turn = ui.turn /\ v.op = ui.op /\ v.ref = ui.ref /\ v.streams = ui.streams
    <3>1. Append(ui.queue, m) \in Seq(Messages)
      BY <1>1, AppendProperties DEF Stores
    <3> QED
      BY <1>1, <3>1 DEF Stores
  <2> HIDE DEF v
  <2>3. OrderOf(ui, log) => OrderOf(v, log)
    BY <1>1, <2>2, OrderSame
  <2> QED
    BY <1>1, <2>1, <2>3, OrderStep
<1>3. CASE ~ui.busy
  <2>1. Store(BeginSend(ui, m, ui.queue)) /\ FreeOps(ui) # {}
    BY <1>3 DEF Type, Room
  <2>2. OrderOf(ui, log) /\ Alone(BeginSend(ui, m, ui.queue)) => OrderOf(BeginSend(ui, m, ui.queue), log)
    <3>1. ui.queue \in Seq(Messages)
      BY <1>1 DEF Stores
    <3> QED
      BY <1>1, <1>3, <2>1, <3>1, BeginSendOrder
  <2> QED
    BY <1>1, <2>1, <2>2, OrderStep
<1> QED
  BY <1>2, <1>3

LEMMA SelectOrder == ASSUME ChatTypeOK, OneAtATime, NEW t \in Threads, Select(t) PROVE OneAtATime'
<1> DEFINE v == BeginLoad(ui, "select", t)
<1>1. ui \in Stores /\ log \in Logs /\ UNCHANGED <<log, early>>
  BY DEF ChatTypeOK, Logs, Select
<1>2. Store(v) /\ FreeOps(ui) # {}
  BY DEF Select, Room
<1>3. OrderOf(ui, log) /\ Alone(v) => OrderOf(v, log)
  BY <1>1, <1>2, BeginLoadOrder
<1> HIDE DEF v
<1> QED
  BY <1>1, <1>2, <1>3, OrderStep

\* An interrupt that is asked for changes nothing yet.
LEMMA InterruptOrder == ASSUME ChatTypeOK, OneAtATime, Interrupt PROVE OneAtATime'
<1> DEFINE rec == [kind |-> "interrupt", at |-> "asking", thread |-> ui.active, turn |-> ui.turn]
           v   == Begin(ui, rec)
<1>1. ui \in Stores /\ log \in Logs /\ UNCHANGED <<log, early>>
  BY DEF ChatTypeOK, Logs, Interrupt
<1>2. Store(v) /\ FreeOps(ui) # {}
  BY DEF Interrupt, Room
<1>3. rec.kind = "interrupt" /\ rec.at = "asking"
  OBVIOUS
<1> HIDE DEF rec
<1>4. /\ v.active = ui.active /\ v.seq = ui.seq /\ v.base = ui.base /\ v.shown = ui.shown
      /\ v.busy = ui.busy /\ v.turn = ui.turn /\ v.ref = ui.ref /\ v.streams = ui.streams
  BY <1>1, <1>2, BeginFields
<1>5. PICK o \in Ops : ui.op[o] = Idle /\ v.op[o] = rec /\ \A p \in Ops \ {o} : v.op[p] = ui.op[p]
  BY <1>1, <1>2, BeginFields
<1> HIDE DEF v
<1>6. OrderOf(ui, log) => OrderOf(v, log)
  <2> SUFFICES ASSUME OrderOf(ui, log) PROVE OrderOf(v, log)
    OBVIOUS
  <2>1. Loading(v) = Loading(ui)
    BY <1>3, <1>5 DEF Loading, Idle
  <2>2. Alone(v) /\ OneStream(v) /\ Ahead(v, log) /\ TextTo(v, log[v.active], v.seq)
    BY <1>4, <2>1 DEF OrderOf, Alone, OneStream, Ahead, TextTo
  <2>3. KnowsTurn(v, log)
    BY <1>4, <1>5 DEF OrderOf, KnowsTurn, Idle
  <2>4. ASSUME NEW p \in Ops
        PROVE  LoadRight(v, v.op[p], log) /\ SendRight(v, v.op[p], log) /\ StopRight(v.op[p], log)
    <3>1. CASE p = o
      BY <1>3, <1>5, <3>1 DEF LoadRight, SendRight, StopRight
    <3>2. CASE p # o
      BY <1>4, <1>5, <3>2 DEF OrderOf, LoadRight, SendRight
    <3> QED
      BY <3>1, <3>2
  <2> QED
    BY <2>2, <2>3, <2>4 DEF OrderOf
<1> QED
  BY <1>1, <1>2, <1>6, OrderStep

LEMMA LoadOrder ==
  ASSUME ChatTypeOK, OneAtATime, NEW o \in Ops, EndLoad(o) \/ FailLoad(o) PROVE OneAtATime'
<1>1. ui \in Stores /\ log \in Logs /\ UNCHANGED <<log, early>> /\ ui.op[o].kind \in {"select", "recover"}
  BY DEF ChatTypeOK, Logs, EndLoad, FailLoad
<1>2. CASE EndLoad(o)
  <2>1. FreeStreams(ui) # {}
    BY <1>2 DEF EndLoad
  <2>2. PICK n \in ui.op[o].from..Len(log[ui.op[o].thread]) : \E status \in ui.op[o].from..n :
          Store(IF ui.op[o].kind = "select" THEN Selected(ui, o, status, n) ELSE Recovered(ui, o, status, n))
    BY <1>2 DEF EndLoad
  <2>3. PICK status \in ui.op[o].from..n :
          Store(IF ui.op[o].kind = "select" THEN Selected(ui, o, status, n) ELSE Recovered(ui, o, status, n))
    BY <2>2
  <2>4. Len(log[ui.op[o].thread]) \in Nat /\ ui.op[o].from \in Nat
    BY <1>1, OpKinds DEF Logs, Loads
  <2>5. n \in Nat /\ status \in Nat /\ Found(ui.op[o], status, n)
    BY <2>4 DEF Found
  <2>6. CASE ui.op[o].kind = "select"
    <3>1. Store(Selected(ui, o, status, n))
      BY <2>3, <2>6
    <3>2. (\A t \in Threads : InTurn(log[t])) /\ OrderOf(ui, log) => OrderOf(Selected(ui, o, status, n), log)
      BY <1>1, <2>1, <2>5, <2>6, SelectedOrder
    <3> QED
      BY <1>1, <3>1, <3>2, OrderStep
  <2>7. CASE ui.op[o].kind = "recover"
    <3>1. Store(Recovered(ui, o, status, n))
      BY <2>3, <2>7
    <3>2. (\A t \in Threads : InTurn(log[t])) /\ OrderOf(ui, log) /\ Alone(Recovered(ui, o, status, n))
            => OrderOf(Recovered(ui, o, status, n), log)
      BY <1>1, <2>1, <2>5, <2>7, RecoveredOrder
    <3> QED
      BY <1>1, <3>1, <3>2, OrderStep
  <2> QED
    BY <1>1, <2>6, <2>7
<1>3. CASE FailLoad(o)
  <2>1. Store(FailedLoad(ui, o))
    BY <1>3 DEF FailLoad
  <2>2. OrderOf(ui, log) => OrderOf(FailedLoad(ui, o), log)
    BY <1>1, FailedLoadOrder
  <2> QED
    BY <1>1, <2>1, <2>2, OrderStep
<1> QED
  BY <1>2, <1>3

LEMMA RequestOrder ==
  ASSUME ChatTypeOK, OneAtATime, NEW o \in Ops, Return(o) \/ FailSend(o) \/ FailInterrupt(o) PROVE OneAtATime'
<1>1. ui \in Stores /\ log \in Logs /\ UNCHANGED log
  BY DEF ChatTypeOK, Logs, Return, FailSend, FailInterrupt
<1>2. CASE Return(o) /\ ui.op[o].kind = "send"
  <2>1. Store(EndedSend(ui, o)) /\ FreeStreams(ui) # {} /\ ui.op[o].at = "answered" /\ (early => early')
    BY <1>2 DEF Return
  <2>2. OrderOf(ui, log) => OrderOf(EndedSend(ui, o), log)
    BY <1>1, <1>2, <2>1, EndedSendOrder
  <2> QED
    BY <1>1, <2>1, <2>2, OrderStep
<1>3. CASE Return(o) /\ ui.op[o].kind = "interrupt"
  <2>1. /\ Store(Interrupted(ui, o)) /\ ui.op[o].at = "answered" /\ (early => early')
        /\ ~early' => ~SettlesEarly(o)
    BY <1>3 DEF Return
  <2>2. SUFFICES ASSUME OrderOf(ui, log), Alone(Interrupted(ui, o)), ~early'
                 PROVE  OrderOf(Interrupted(ui, o), log)
    BY <1>1, <2>1, OrderStep
  <2>3. /\ ui.active = ui.op[o].thread /\ ~(ui.seq < Len(log[ui.active]))
        /\ Loading(ui) = {} /\ ui.turn \in {Nil, ui.op[o].turn}
    BY <2>1, <2>2 DEF SettlesEarly
  <2>4. ui.seq >= Len(log[ui.active])
    <3>1. ui.seq \in Nat /\ Len(log[ui.active]) \in Nat
      BY <1>1 DEF Stores, Logs
    <3> QED
      BY <2>3, <3>1
  <2> QED
    BY <1>1, <1>3, <2>1, <2>2, <2>3, <2>4, InterruptedOrder
<1>4. CASE FailSend(o)
  <2>1. Store(FailedSend(ui, o)) /\ ui.op[o].kind = "send" /\ early' = (early \/ ui.op[o].at = "answered")
    BY <1>4 DEF FailSend
  <2>2. OrderOf(ui, log) /\ ~early' => OrderOf(FailedSend(ui, o), log)
    <3>1. ~early' => ui.op[o].at = "asking"
      BY <1>1, <2>1, OpKinds DEF Sends, Places
    <3> QED
      BY <1>1, <2>1, <3>1, FailedSendOrder
  <2> QED
    BY <1>1, <2>1, <2>2, OrderStep
<1>5. CASE FailInterrupt(o)
  <2>1. Store(Over(ui, o)) /\ ui.op[o].kind = "interrupt" /\ early' = early
    BY <1>5 DEF FailInterrupt
  <2>2. OrderOf(ui, log) => OrderOf(Over(ui, o), log)
    BY <1>1, <2>1, OverOrder
  <2> QED
    BY <1>1, <2>1, <2>2, OrderStep
<1>6. Return(o) => ui.op[o].kind \in {"send", "interrupt"}
  BY DEF Return
<1> QED
  BY <1>2, <1>3, <1>4, <1>5, <1>6

LEMMA DeliverOrder == ASSUME ChatTypeOK, OneAtATime, NEW s \in Streams, Deliver(s) PROVE OneAtATime'
<1>1. ui \in Stores /\ UNCHANGED <<log, early>> /\ ui.streams[s] # Nil /\ HasRoom(ui)
  BY DEF ChatTypeOK, Deliver, HasRoom, Room
<1>2. PICK n \in (ui.streams[s].at + 1)..Len(log[ui.streams[s].thread]) : Store(Dispatched(ui, s, n))
  BY DEF Deliver
<1>3. (\A t \in Threads : InTurn(log[t])) /\ OrderOf(ui, log) /\ Alone(Dispatched(ui, s, n))
        => OrderOf(Dispatched(ui, s, n), log)
  BY <1>1, DispatchedOrder
<1> QED
  BY <1>1, <1>2, <1>3, OrderStep

\* A recovery reads the thread that is active.
LEMMA BeginRecoverOrder ==
  ASSUME NEW u \in Stores, log \in Logs, OrderOf(u, log), FreeOps(u) # {}, Alone(BeginRecover(u))
  PROVE  OrderOf(BeginRecover(u), log)
<1>1. u.active \in Threads
  BY DEF Stores
<1> QED
  BY <1>1, BeginLoadOrder DEF BeginRecover

\* The only stream breaks: the turn it told of is still the one that runs.
LEMMA BrokenOrder ==
  ASSUME NEW u \in Stores, NEW v \in Stores, NEW logs \in Logs, OrderOf(u, logs),
         NEW s \in Streams, u.streams[s] # Nil, v.streams = [u.streams EXCEPT ![s] = Nil],
         v.active = u.active, v.seq = u.seq, v.base = u.base, v.shown = u.shown,
         v.busy = u.busy, v.op = u.op, u.busy => v.turn = u.turn
  PROVE  OrderOf(v, logs)
<1>1. u.ref = s /\ Loading(u) = {} /\ \A r \in Streams \ {s} : u.streams[r] = Nil
  BY DEF OrderOf, OneStream
<1>2. \A r \in Streams : v.streams[r] = Nil
  BY <1>1 DEF Stores
<1>3. \A p \in Ops : v.op[p].kind \notin {"select", "recover", "send"}
  BY <1>1 DEF Loading
<1>4. KnowsTurn(v, logs)
  <2> SUFFICES ASSUME NEW i \in RunsNow(logs[u.active]) PROVE v.turn = i
    BY DEF KnowsTurn
  <2>1. u.busy
    BY DEF OrderOf, Ahead, Through
  <2> QED
    BY <1>3, <2>1 DEF OrderOf, KnowsTurn
<1>5. Alone(v) /\ OneStream(v) /\ Ahead(v, logs) /\ TextTo(v, logs[v.active], v.seq)
  BY <1>1, <1>2 DEF OrderOf, Alone, OneStream, Ahead, TextTo, Loading
<1> QED
  BY <1>3, <1>4, <1>5 DEF OrderOf, LoadRight, SendRight

\* An error that reads like an interrupt settles a turn that had ended; other errors and
\* the end of the stream settle none.
LEMMA StreamFailsOrder == ASSUME ChatTypeOK, OneAtATime, NEW s \in Streams, StreamFails(s) PROVE OneAtATime'
<1> DEFINE t == ui.streams[s].thread
           u == [ui EXCEPT !.streams[s] = Nil, !.ref = IF @ = s THEN Nil ELSE @]
           v(how) == IF ui.active # t \/ how = "closed" THEN u ELSE Errored(u, how = "cancelled")
           w(how) == IF ui.streams[s].recovers /\ ui.active = t /\ v(how).busy
                     THEN BeginRecover(v(how)) ELSE v(how)
<1>1. ui \in Stores /\ log \in Logs /\ UNCHANGED log /\ ui.streams[s] # Nil /\ FreeOps(ui) # {}
  BY DEF ChatTypeOK, Logs, StreamFails, Room
<1>2. PICK how \in {"closed", "failed", "cancelled"} :
        /\ Store(w(how))
        /\ early' = (early \/ (how = "cancelled" /\ ui.active = t /\ ui.busy /\ StillTurning(t)))
  BY DEF StreamFails
<1>3. /\ u \in Stores /\ u.active = ui.active /\ u.seq = ui.seq /\ u.base = ui.base /\ u.shown = ui.shown
      /\ u.busy = ui.busy /\ u.op = ui.op /\ u.turn = ui.turn
      /\ u.streams = [ui.streams EXCEPT ![s] = Nil]
  BY <1>1 DEF Stores
<1> HIDE DEF u
<1> DEFINE cancelled == how = "cancelled"
           x == Errored(u, cancelled)
<1>4. cancelled \in BOOLEAN /\ v(how) \in {u, x} /\ (v(how) # u => ui.active = t)
  OBVIOUS
<1>5. /\ x \in Stores /\ x.active = u.active /\ x.seq = u.seq /\ x.base = u.base /\ x.shown = u.shown
      /\ x.op = u.op /\ x.streams = u.streams /\ (~cancelled => x.busy = u.busy /\ (u.busy => x.turn = u.turn))
      /\ x.ref = u.ref
  <2> HIDE DEF cancelled
  <2> QED
    BY <1>3, <1>4, ErroredFields
<1> HIDE DEF x
<1>6. OrderOf(ui, log) => OrderOf(u, log)
  BY <1>1, <1>3, BrokenOrder
<1>7. ~early' /\ OrderOf(ui, log) => OrderOf(v(how), log)
  <2> SUFFICES ASSUME ~early', OrderOf(ui, log) PROVE OrderOf(v(how), log)
    OBVIOUS
  <2>1. CASE v(how) = u
    BY <1>6, <2>1
  <2>2. CASE v(how) = x /\ ~cancelled
    <3>1. OrderOf(x, log)
      BY <1>1, <1>3, <1>5, <2>2, BrokenOrder
    <3> QED
      BY <2>2, <3>1
  <2>3. CASE v(how) = x /\ v(how) # u /\ cancelled
    <3>1. ui.active = t /\ ~(ui.busy /\ StillTurning(t))
      BY <1>2, <1>4, <2>3
    <3>2. Loading(u) = {}
      BY <1>1, <1>3 DEF OrderOf, OneStream, Loading
    <3>3. Through(log[ui.active], ui.seq)
      <4>1. CASE ~ui.busy
        BY <4>1 DEF OrderOf, Ahead
      <4>2. CASE ui.busy
        <5>1. RunsNow(log[ui.active]) = {} /\ ~(ui.seq < Len(log[ui.active]))
          BY <3>1, <4>2, AsRuns DEF StillTurning, RunsNow
        <5>2. ui.seq <= Len(log[ui.active])
          BY DEF OrderOf, Ahead
        <5>3. ui.seq \in Nat /\ Len(log[ui.active]) \in Nat
          <6>1. ui.active \in Threads /\ ui.seq \in Nat
            BY <1>1 DEF Stores
          <6>2. log[ui.active] \in Seq(Events)
            BY <1>1, <6>1 DEF Logs
          <6> QED
            BY <6>1, <6>2
        <5> QED
          BY <5>1, <5>2, <5>3 DEF Through
      <4> QED
        BY <4>1, <4>2
    <3>4. OrderOf(x, log)
      BY <1>1, <1>3, <1>5, <1>6, <3>2, <3>3, SettleOrder
    <3> QED
      BY <2>3, <3>4
  <2> QED
    BY <1>4, <2>1, <2>2, <2>3
<1>8. v(how) \in Stores /\ FreeOps(v(how)) # {}
  <2>1. u \in Stores /\ x \in Stores /\ FreeOps(u) = FreeOps(ui) /\ FreeOps(x) = FreeOps(ui)
    BY <1>3, <1>5 DEF FreeOps
  <2> QED
    BY <1>1, <1>4, <2>1
<1> HIDE DEF v, cancelled
<1>9. ~early' /\ OrderOf(ui, log) /\ Alone(w(how)) => OrderOf(w(how), log)
  <2>1. OrderOf(v(how), log) /\ Alone(BeginRecover(v(how))) => OrderOf(BeginRecover(v(how)), log)
    BY <1>1, <1>8, BeginRecoverOrder
  <2> QED
    BY <1>7, <2>1
<1> HIDE DEF w
<1>10. early => early'
  BY <1>2
<1> QED
  BY <1>1, <1>2, <1>9, <1>10, OrderStep

LEMMA WatchdogOrder == ASSUME ChatTypeOK, OneAtATime, Watchdog PROVE OneAtATime'
<1> DEFINE u == [ui EXCEPT !.armed = FALSE]
           v == [u EXCEPT !.attempts = @ + 1]
           w == [u EXCEPT !.attempts = @ + 1, !.busy = FALSE, !.turn = Nil]
           x == IF ~u.busy THEN u ELSE IF u.attempts < MaxAttempts THEN BeginRecover(v) ELSE w
<1>1. ui \in Stores /\ log \in Logs /\ UNCHANGED log
  BY DEF ChatTypeOK, Logs, Watchdog
<1>2. FreeOps(ui) # {} /\ Store(x) /\ early' = (early \/ (u.busy /\ u.attempts >= MaxAttempts))
  BY DEF Watchdog, Room
<1>3. /\ u \in Stores /\ u.active = ui.active /\ u.seq = ui.seq /\ u.base = ui.base /\ u.shown = ui.shown
      /\ u.busy = ui.busy /\ u.turn = ui.turn /\ u.op = ui.op /\ u.ref = ui.ref /\ u.streams = ui.streams
      /\ u.attempts = ui.attempts
  BY <1>1 DEF Stores
<1> HIDE DEF u
<1>4. /\ v \in Stores /\ v.active = u.active /\ v.seq = u.seq /\ v.base = u.base /\ v.shown = u.shown
      /\ v.busy = u.busy /\ v.turn = u.turn /\ v.op = u.op /\ v.ref = u.ref /\ v.streams = u.streams
  BY <1>3 DEF Stores
<1> HIDE DEF v
<1>5. OrderOf(ui, log) => OrderOf(u, log) /\ OrderOf(v, log)
  BY <1>1, <1>3, <1>4, OrderSame
<1>6. FreeOps(v) # {}
  BY <1>2, <1>3, <1>4 DEF FreeOps
<1>7. OrderOf(v, log) /\ Alone(BeginRecover(v)) => OrderOf(BeginRecover(v), log)
  BY <1>1, <1>4, <1>6, BeginRecoverOrder
<1> HIDE DEF w
<1>8. SUFFICES ASSUME OrderOf(ui, log), Alone(x), ~early' PROVE OrderOf(x, log)
  <2> HIDE DEF x
  <2>1. early => early'
    BY <1>2
  <2> QED
    BY <1>1, <1>2, <1>8, <2>1, OrderStep
<1>9. CASE ~u.busy
  BY <1>5, <1>8, <1>9
<1>10. CASE u.busy /\ u.attempts < MaxAttempts
  BY <1>5, <1>7, <1>8, <1>10
<1>11. CASE u.busy /\ u.attempts >= MaxAttempts
  BY <1>2, <1>8, <1>11
<1>12. u.attempts < MaxAttempts \/ u.attempts >= MaxAttempts
  <2>1. u.attempts \in Nat
    BY <1>3 DEF Stores
  <2> QED
    BY <2>1, ChatAssumption
<1> QED
  BY <1>9, <1>10, <1>11, <1>12

LEMMA EmitOrder == ASSUME ChatTypeOK, OneAtATime, NEW t \in Threads, Emit(t) PROVE OneAtATime'
<1>1. ui \in Stores /\ log \in Logs /\ UNCHANGED <<ui, overlap, early>>
  BY DEF ChatTypeOK, Logs, Emit
<1>2. PICK i \in RunningAt(t, Len(log[t])), kind \in {"delta"} \cup EndKinds :
        log' = [log EXCEPT ![t] = Append(@, [kind |-> kind, turn |-> i])]
  BY DEF Emit
<1> DEFINE e == [kind |-> kind, turn |-> i]
<1>3. i \in RunsNow(log[t]) /\ i \in Nat
  BY <1>2, AsRuns DEF RunsNow, RunsIn
<1>4. e \in Events /\ e.kind # "user" /\ e.turn \in RunsNow(log[t])
  BY <1>2, <1>3 DEF Events, EndKinds, Turns
<1> HIDE DEF e
<1>5. log' = With(log, t, e) /\ log' = [log EXCEPT ![t] = Append(log[t], e)]
  BY <1>2 DEF With, e
<1> SUFFICES ASSUME ~overlap, ~early PROVE (\A x \in Threads : InTurn(log[x])') /\ OrderOf(ui, log)'
  BY <1>1 DEF OneAtATime
<1>6. (\A x \in Threads : InTurn(log[x])) /\ OrderOf(ui, log)
  BY DEF OneAtATime
<1>7. OrderOf(ui, log)'
  <2>1. OrderOf(ui, With(log, t, e))
    BY <1>1, <1>4, <1>6, GrowsOrder
  <2> QED
    BY <1>1, <1>5, <2>1
<1>8. \A x \in Threads : InTurn(log'[x])
  BY <1>1, <1>4, <1>5, <1>6, InTurnGrows
<1> QED
  BY <1>7, <1>8

LEMMA AnswerOrder == ASSUME ChatTypeOK, OneAtATime, NEW o \in Ops, Answer(o) PROVE OneAtATime'
<1> DEFINE t == ui.op[o].thread
<1>1. ui \in Stores /\ log \in Logs /\ UNCHANGED overlap
  BY DEF ChatTypeOK, Logs, Answer
<1>2. ui.op[o].kind \in {"send", "interrupt"} /\ ui.op[o].at = "asking" /\ t \in Threads
  BY <1>1, OpKinds DEF Answer, Sends, Stops
<1> SUFFICES ASSUME ~overlap, ~early' PROVE (\A x \in Threads : InTurn(log'[x])) /\ OrderOf(ui', log')
  BY <1>1 DEF OneAtATime
<1>3. CASE ui.op[o].kind = "send"
  <2> DEFINE e == [kind |-> "user", turn |-> Len(log[t]) + 1]
  <2>1. /\ log' = [log EXCEPT ![t] = Append(@, e)] /\ ~early
        /\ ui' = [ui EXCEPT !.op[o].at = "answered", !.op[o].turn = Len(log[t]) + 1]
    BY <1>3 DEF Answer, Target
  <2>2. e \in Events /\ e.kind = "user" /\ e.turn = Len(log[t]) + 1
    BY <1>1, <1>2 DEF Events, Turns, Logs
  <2> HIDE DEF e
  <2>3. log' = With(log, t, e)
    BY <2>1 DEF With
  <2>4. (\A x \in Threads : InTurn(log[x])) /\ OrderOf(ui, log)
    BY <2>1 DEF OneAtATime
  <2>5. ui' = AnsweredBy(ui, o, Len(log[t]) + 1)
    BY <2>1 DEF AnsweredBy
  <2>6. RunsNow(log[t]) = {} /\ OrderOf(AnsweredBy(ui, o, Len(log[t]) + 1), With(log, t, e))
    BY <1>1, <1>2, <1>3, <2>2, <2>4, SentOrder
  <2>7. RunsNow(log[t]) = {} /\ OrderOf(ui', log')
    BY <2>3, <2>5, <2>6
  <2>8. \A x \in Threads : InTurn(log'[x])
    BY <1>1, <1>2, <2>2, <2>3, <2>4, <2>7, InTurnGrows
  <2> QED
    BY <2>7, <2>8
<1>4. CASE ui.op[o].kind = "interrupt"
  <2> DEFINE e == [kind |-> "done", turn |-> ui.op[o].turn]
             more == With(log, t, e)
  <2>1. /\ log' = [log EXCEPT ![t] = Append(@, e)] /\ ui' = [ui EXCEPT !.op[o].at = "answered"]
        /\ ~early /\ ui.op[o].turn \in RunningAt(t, Len(log[t]))
    BY <1>4 DEF Answer, Target
  <2>2. e.kind = "done" /\ e.turn = ui.op[o].turn /\ e \in Events
    BY <1>1, <1>4, OpKinds DEF Events, EndKinds, Stops
  <2> HIDE DEF e
  <2>3. log' = more
    BY <2>1 DEF With
  <2>4. (\A x \in Threads : InTurn(log[x])) /\ OrderOf(ui, log)
    BY <2>1 DEF OneAtATime
  <2>5. e.kind # "user" /\ e.turn \in RunsNow(log[t])
    BY <2>1, <2>2, AsRuns DEF RunsNow
  <2>6. OrderOf(ui, more)
    BY <1>1, <1>2, <2>2, <2>4, <2>5, GrowsOrder
  <2>7. \E j \in DOMAIN more[t] : more[t][j] = e
    BY <1>1, <1>2, <2>2, Grown
  <2>8. \A x \in Threads : InTurn(more[x])
    BY <1>1, <1>2, <2>2, <2>4, <2>5, InTurnGrows
  <2> HIDE DEF more
  <2>9. OrderOf(Answered(ui, o), more)
    BY <1>1, <1>4, <2>2, <2>6, <2>7, StoppedOrder
  <2>10. ui' = Answered(ui, o)
    BY <2>1 DEF Answered
  <2> QED
    BY <2>3, <2>8, <2>9, <2>10
<1> QED
  BY <1>2, <1>3, <1>4

LEMMA OneAtATimeStep == ChatTypeOK /\ OneAtATime /\ [ChatNext]_chatVars => OneAtATime'
<1> SUFFICES ASSUME ChatTypeOK, OneAtATime, [ChatNext]_chatVars PROVE OneAtATime'
  OBVIOUS
<1>1. CASE UNCHANGED chatVars
  <2>1. ui' = ui /\ log' = log /\ overlap' = overlap /\ early' = early
    BY <1>1 DEF chatVars
  <2> QED
    BY <2>1 DEF OneAtATime
<1> QED
  BY <1>1, TypeOrder, SelectOrder, InterruptOrder, LoadOrder, RequestOrder, AnswerOrder, DeliverOrder,
     StreamFailsOrder, WatchdogOrder, EmitOrder DEF ChatNext

LEMMA TurnsInv == ChatSpec => [](ChatTypeOK /\ OneAtATime)
<1>1. ChatInv => ChatTypeOK
  BY DEF ChatInv
<1> QED
  BY <1>1, ChatInvInit, ChatInvStep, OneAtATimeInit, OneAtATimeStep, PTL DEF ChatSpec

\* For any threads and messages, and any number of operations and streams: a thread has
\* one turn at a time, for what was queued waits for the end of the turn before it -
\* unless loads and sends overlapped, or a turn was taken for ended early.
THEOREM OneTurnAtATime == ChatSpec => []TurnAfterTurn
<1>1. ChatTypeOK /\ OneAtATime => TurnAfterTurn
  <2> SUFFICES ASSUME ChatTypeOK, OneAtATime, ~(overlap \/ early), NEW t \in Threads
               PROVE  Cardinality(RunningAt(t, Len(log[t]))) <= 1
    BY DEF TurnAfterTurn
  <2> DEFINE runs == RunningAt(t, Len(log[t]))
  <2>1. log[t] \in Seq(Events) /\ InTurn(log[t])
    BY DEF ChatTypeOK, OneAtATime
  <2>2. ASSUME NEW i \in runs, NEW j \in runs PROVE i = j
    <3>1. i \in RunsIn(log[t], Len(log[t])) /\ j \in RunsIn(log[t], Len(log[t]))
      BY AsRuns
    <3>2. Len(log[t]) \in 0..Len(log[t])
      BY <2>1
    <3> QED
      BY <2>1, <3>1, <3>2, OneRunsIn
  <2> HIDE DEF runs
  <2>3. runs = {} \/ \E i \in runs : runs = {i}
    BY <2>2
  <2>4. Cardinality(runs) \in {0, 1}
    BY <2>3, FS_EmptySet, FS_Singleton
  <2> QED
    BY <2>4 DEF runs
<1> QED
  BY <1>1, TurnsInv, PTL

\* With the same exceptions the text shown since a thread was loaded is that of the
\* events up to the cursor, each once and in order, however streams break, recoveries
\* load the thread again and queued messages are sent in between.
THEOREM TextShownOnce == ChatSpec => []ShownOnce
<1>1. ChatTypeOK /\ OneAtATime => ShownOnce
  BY DEF OneAtATime, OrderOf, TextTo, ShownOnce
<1> QED
  BY <1>1, TurnsInv, PTL

-----------------------------------------------------------------------------
(* Checkpoints: the types                                                   *)

Values     == Contents \cup {Absent}
Workspaces == [index : Files, work : Files]
Patches    == UNION {[over -> [from : Values, to : Values]] : over \in SUBSET Paths}
Bundles    == UNION {[over -> Values] : over \in SUBSET Paths}
Snapshots  == [tree : Files, untracked : Bundles, staged : Patches, unstaged : Patches,
               hasStaged : BOOLEAN, hasUnstaged : BOOLEAN]
Restorable == {"kept", "stripped", "deleted"}

PlacesTypeOK == "main" \in DOMAIN places /\ \A q \in DOMAIN places : places[q] \in Workspaces
GivenTypeOK ==
  /\ DOMAIN given = Checkpoints
  /\ \A c \in Checkpoints : given[c] # Absent => given[c] \in Workspaces /\ captures[c] # "none"
SnapTypeOK ==
  /\ captures \in [Checkpoints -> Capturing \cup Restorable \cup {"none", "failed"}]
  /\ DOMAIN snap = Checkpoints
  /\ \A c \in Checkpoints : captures[c] # "none" => snap[c] \in Snapshots
JobTypeOK ==
  /\ job \in [Jobs -> [at : {"none", "refused", "failed", "base", "staged", "unstaged", "clean",
                             "extract", "done"},
                       kind : {"none", "restore", "fork"}, of : Checkpoints \cup {Absent},
                       fits : BOOLEAN]]
  /\ \A j \in Jobs : job[j].at # "none" =>
        /\ job[j].kind # "none"
        /\ job[j].of \in Checkpoints /\ captures[job[j].of] \in Restorable
        /\ job[j].kind = "fork" => j \in DOMAIN places
  /\ fair \subseteq {j \in Jobs : job[j].at # "none"}

RewindTypeOK ==
  head \in Files /\ edits \in 0..MaxEdits /\ PlacesTypeOK /\ GivenTypeOK /\ SnapTypeOK /\ JobTypeOK

LEMMA DiffType ==
  ASSUME NEW from \in Files, NEW to \in Files, NEW over \in SUBSET Paths
  PROVE  Diff(from, to, over) \in Patches
<1> DEFINE changed == {p \in over : from[p] # to[p]}
<1>1. changed \in SUBSET Paths
  OBVIOUS
<1>2. Diff(from, to, over) \in [changed -> [from : Values, to : Values]]
  BY DEF Diff, Files, Values
<1> QED
  BY <1>1, <1>2 DEF Patches

LEMMA NoPatchType == NoPatch \in Patches /\ NoPatch \in Bundles
<1>1. NoPatch \in [{} -> [from : Values, to : Values]] /\ NoPatch \in [{} -> Values]
  BY DEF NoPatch
<1> QED
  BY <1>1 DEF Patches, Bundles

LEMMA PatchType ==
  ASSUME NEW patch \in Patches, NEW files \in Files PROVE Patch(patch, files) \in Files
<1>1. PICK over \in SUBSET Paths : patch \in [over -> [from : Values, to : Values]]
  BY DEF Patches
<1> QED
  BY <1>1 DEF Patch, Files, Values

\* What a command makes of a workspace is a workspace.
LEMMA CommandTypes ==
  ASSUME NEW w \in Workspaces
  PROVE  /\ \A patch \in Patches :
              /\ ToIndexAndWork(patch, w) \in Workspaces
              /\ [w EXCEPT !.work = Patch(patch, @)] \in Workspaces
         /\ \A bundle \in Bundles :
              [w EXCEPT !.work = [p \in Paths |-> IF p \in DOMAIN bundle THEN bundle[p] ELSE @[p]]]
                \in Workspaces
         /\ \A gone : [w EXCEPT !.work = [p \in Paths |-> IF p \in gone THEN Absent ELSE @[p]]]
                        \in Workspaces
<1>1. w.index \in Files /\ w.work \in Files
  BY DEF Workspaces
<1>2. ASSUME NEW patch \in Patches
      PROVE  /\ ToIndexAndWork(patch, w) \in Workspaces
             /\ [w EXCEPT !.work = Patch(patch, @)] \in Workspaces
  <2>1. Patch(patch, w.index) \in Files /\ Patch(patch, w.work) \in Files
    BY <1>1, PatchType
  <2> QED
    BY <2>1 DEF ToIndexAndWork, Workspaces
<1>3. ASSUME NEW bundle \in Bundles
      PROVE  [w EXCEPT !.work = [p \in Paths |-> IF p \in DOMAIN bundle THEN bundle[p] ELSE @[p]]]
               \in Workspaces
  <2>1. PICK over \in SUBSET Paths : bundle \in [over -> Values]
    BY DEF Bundles
  <2>2. [p \in Paths |-> IF p \in DOMAIN bundle THEN bundle[p] ELSE w.work[p]] \in Files
    BY <1>1, <2>1 DEF Files, Values
  <2> QED
    BY <2>2 DEF Workspaces
<1>4. ASSUME NEW gone
      PROVE  [w EXCEPT !.work = [p \in Paths |-> IF p \in gone THEN Absent ELSE @[p]]] \in Workspaces
  <2>1. [p \in Paths |-> IF p \in gone THEN Absent ELSE w.work[p]] \in Files
    BY <1>1 DEF Files, Values
  <2> QED
    BY <2>1 DEF Workspaces
<1> QED
  BY <1>2, <1>3, <1>4

LEMMA DisturbTypes ==
  ASSUME GivenTypeOK, NEW js, Disturb(js), UNCHANGED captures
  PROVE  GivenTypeOK' /\ fair' \subseteq fair
  BY DEF GivenTypeOK, Disturb

LEMMA WriteTypes ==
  ASSUME PlacesTypeOK, GivenTypeOK, NEW j \in Jobs, NEW w \in Workspaces, Write(j, w)
  PROVE  /\ PlacesTypeOK' /\ GivenTypeOK' /\ fair' \subseteq fair
         /\ DOMAIN places' = DOMAIN places /\ UNCHANGED <<head, captures, snap, edits>>
<1>1. PlacesTypeOK' /\ DOMAIN places' = DOMAIN places
  BY DEF PlacesTypeOK, Write
<1>2. UNCHANGED <<head, captures, snap, edits>>
  BY DEF Write
<1>3. GivenTypeOK' /\ fair' \subseteq fair
  BY <1>2, DisturbTypes DEF Write, GivenTypeOK
<1> QED
  BY <1>1, <1>2, <1>3

LEMMA StepTypes ==
  ASSUME JobTypeOK, NEW j \in Jobs, job[j].at # "none",
         NEW at \in {"failed", "staged", "unstaged", "clean", "extract", "done"}, Step(j, at),
         fair' \subseteq fair, DOMAIN places' = DOMAIN places, UNCHANGED captures
  PROVE  JobTypeOK'
  BY DEF JobTypeOK, Step

LEMMA RewindTypeInit == RewindInit => RewindTypeOK
<1> SUFFICES ASSUME RewindInit PROVE RewindTypeOK
  OBVIOUS
<1>1. head \in Files /\ edits \in 0..MaxEdits
  BY CheckpointsAssumption DEF RewindInit
<1>2. PlacesTypeOK
  BY DEF RewindInit, PlacesTypeOK, Workspaces
<1>3. GivenTypeOK /\ SnapTypeOK
  BY DEF RewindInit, GivenTypeOK, SnapTypeOK
<1>4. JobTypeOK
  BY DEF RewindInit, JobTypeOK
<1> QED
  BY <1>1, <1>2, <1>3, <1>4 DEF RewindTypeOK

\* The steps of a checkpoint.
LEMMA CaptureTypes ==
  ASSUME RewindTypeOK, NEW c \in Checkpoints,
         BeginCreate(c) \/ Status(c) \/ Bundle(c) \/ CaptureStaged(c) \/ CaptureUnstaged(c) \/ Delete(c)
  PROVE  RewindTypeOK'
<1> USE DEF RewindTypeOK
<1>1. ws \in Workspaces /\ ws.index \in Files /\ ws.work \in Files
  BY DEF PlacesTypeOK, ws, Workspaces
<1>2. UNCHANGED <<head, places, job, edits>>
  BY DEF BeginCreate, Status, Bundle, CaptureStaged, CaptureUnstaged, Delete
<1>3. head' \in Files /\ edits' \in 0..MaxEdits /\ PlacesTypeOK'
  BY <1>2 DEF PlacesTypeOK
<1>4. ASSUME captures[c] \in Capturing \cup {"kept", "stripped"}
      PROVE  snap[c] \in Snapshots
  BY <1>4 DEF SnapTypeOK, Capturing
<1>5. StagedDiff(head, ws) \in Patches /\ UnstagedDiff(ws) \in Patches
  BY <1>1, DiffType DEF StagedDiff, UnstagedDiff
<1>6. \A files \in SUBSET Paths : [p \in files |-> Absent] \in Bundles /\ [p \in files |-> ws.work[p]] \in Bundles
  <2> TAKE files \in SUBSET Paths
  <2>1. [p \in files |-> Absent] \in [files -> Values] /\ [p \in files |-> ws.work[p]] \in [files -> Values]
    BY <1>1 DEF Files, Values
  <2> QED
    BY <2>1 DEF Bundles
<1>7. SnapTypeOK' /\ GivenTypeOK' /\ JobTypeOK'
  <2>1. CASE BeginCreate(c)
    <3>1. snap'[c] \in Snapshots
      BY <2>1, NoPatchType DEF BeginCreate, Snapshots, SnapTypeOK
    <3>2. SnapTypeOK'
      BY <2>1, <3>1 DEF BeginCreate, SnapTypeOK, Capturing
    <3>3. GivenTypeOK'
      BY <2>1, <1>1 DEF BeginCreate, SnapTypeOK, GivenTypeOK
    <3>4. JobTypeOK'
      BY <2>1 DEF BeginCreate, JobTypeOK, SnapTypeOK, Restorable
    <3> QED
      BY <3>2, <3>3, <3>4
  <2>2. CASE Status(c)
    <3>1. Untracked(ws) \in SUBSET Paths
      BY DEF Untracked
    <3>2. snap'[c] \in Snapshots
      <4>1. snap[c] \in Snapshots
        BY <2>2, <1>4 DEF Status, Capturing
      <4>2. [p \in Untracked(ws) |-> Absent] \in Bundles
        BY <3>1, <1>6
      <4>3. snap'[c] = [snap[c] EXCEPT !.untracked   = [p \in Untracked(ws) |-> Absent],
                                       !.hasStaged   = DOMAIN StagedDiff(head, ws) # {},
                                       !.hasUnstaged = DOMAIN UnstagedDiff(ws) # {}]
        BY <2>2, <4>1 DEF Status, SnapTypeOK, Snapshots
      <4> QED
        BY <4>1, <4>2, <4>3 DEF Snapshots
    <3>3. SnapTypeOK' /\ GivenTypeOK' /\ JobTypeOK'
      BY <2>2, <3>2 DEF Status, SnapTypeOK, GivenTypeOK, JobTypeOK, Capturing, Restorable
    <3> QED
      BY <3>3
  <2>3. CASE Bundle(c)
    <3>1. DOMAIN snap[c].untracked \in SUBSET Paths
      BY <2>3, <1>4 DEF Bundle, Capturing, Snapshots, Bundles
    <3>2. snap'[c] \in Snapshots
      <4>1. snap[c] \in Snapshots
        BY <2>3, <1>4 DEF Bundle, Capturing
      <4>2. [p \in DOMAIN snap[c].untracked |-> ws.work[p]] \in Bundles
        BY <3>1, <1>6
      <4> QED
        BY <2>3, <4>1, <4>2 DEF Bundle, Snapshots, SnapTypeOK
    <3>3. captures'[c] \in {"staged", "failed"} /\ captures' = [captures EXCEPT ![c] = captures'[c]]
      BY <2>3 DEF Bundle, SnapTypeOK
    <3>4. DOMAIN snap' = Checkpoints /\ \A d \in Checkpoints \ {c} : snap'[d] = snap[d]
      BY <2>3 DEF Bundle, SnapTypeOK
    <3>5. UNCHANGED <<given, fair>> /\ captures[c] = "bundle"
      BY <2>3 DEF Bundle
    <3>6. SnapTypeOK'
      BY <3>2, <3>3, <3>4 DEF SnapTypeOK, Capturing
    <3>7. GivenTypeOK' /\ JobTypeOK'
      BY <1>2, <3>3, <3>5 DEF SnapTypeOK, GivenTypeOK, JobTypeOK, Restorable
    <3> QED
      BY <3>6, <3>7
  <2>4. CASE CaptureStaged(c)
    <3>1. snap'[c] \in Snapshots
      BY <2>4, <1>4, <1>5, NoPatchType DEF CaptureStaged, Snapshots, SnapTypeOK, Capturing
    <3>2. SnapTypeOK' /\ GivenTypeOK' /\ JobTypeOK'
      BY <2>4, <3>1 DEF CaptureStaged, SnapTypeOK, GivenTypeOK, JobTypeOK, Capturing, Restorable
    <3> QED
      BY <3>2
  <2>5. CASE CaptureUnstaged(c)
    <3>1. snap'[c] \in Snapshots
      BY <2>5, <1>4, <1>5, NoPatchType DEF CaptureUnstaged, Snapshots, SnapTypeOK, Capturing
    <3>2. SnapTypeOK' /\ GivenTypeOK' /\ JobTypeOK'
      BY <2>5, <3>1 DEF CaptureUnstaged, SnapTypeOK, GivenTypeOK, JobTypeOK, Capturing, Restorable
    <3> QED
      BY <3>2
  <2>6. CASE Delete(c)
    <3>1. SnapTypeOK' /\ GivenTypeOK' /\ JobTypeOK'
      BY <2>6 DEF Delete, SnapTypeOK, GivenTypeOK, JobTypeOK, Restorable
    <3> QED
      BY <3>1
  <2> QED
    BY <2>1, <2>2, <2>3, <2>4, <2>5, <2>6
<1> QED
  BY <1>3, <1>7

\* The steps of a restore or fork, after it began: a command leaves a workspace.
LEMMA CommandOf ==
  ASSUME RewindTypeOK, NEW j \in Jobs,
         Checkout(j) \/ ApplyStaged(j) \/ ApplyUnstaged(j) \/ Clean(j) \/ Extract(j)
  PROVE  /\ job[j].at # "none"
         /\ \E w \in Workspaces : Write(j, w)
         /\ \E at \in {"failed", "staged", "unstaged", "clean", "extract", "done"} : Step(j, at)
<1> USE DEF RewindTypeOK
<1>1. job[j].at # "none"
  BY DEF Checkout, ApplyStaged, ApplyUnstaged, Clean, Extract
<1>2. Of(j) \in Snapshots /\ Place(j) \in DOMAIN places
  BY <1>1 DEF JobTypeOK, SnapTypeOK, PlacesTypeOK, Of, Place, Restorable
<1>3. ws \in Workspaces /\ places[Place(j)] \in Workspaces
  BY <1>2 DEF PlacesTypeOK, ws
<1>4. /\ Of(j).tree \in Files /\ Of(j).untracked \in Bundles
      /\ Of(j).staged \in Patches /\ Of(j).unstaged \in Patches
  BY <1>2 DEF Snapshots
<1>5. CASE Checkout(j)
  <2> DEFINE tree == Of(j).tree
             Filled(files) == [p \in Paths |-> IF tree[p] = Absent THEN files[p] ELSE tree[p]]
  <2>1. Filled(ws.index) \in Files /\ Filled(ws.work) \in Files
    BY <1>3, <1>4 DEF Files, Workspaces
  <2>2. [index |-> Filled(ws.index), work |-> Filled(ws.work)] \in Workspaces
    BY <2>1 DEF Workspaces
  <2> QED
    BY <1>1, <1>5, <2>2 DEF Checkout
<1>6. CASE ApplyStaged(j)
  BY <1>1, <1>3, <1>4, <1>6, CommandTypes DEF ApplyStaged
<1>7. CASE ApplyUnstaged(j)
  BY <1>1, <1>3, <1>4, <1>7, CommandTypes DEF ApplyUnstaged
<1>8. CASE Clean(j)
  BY <1>1, <1>3, <1>8, CommandTypes DEF Clean
<1>9. CASE Extract(j)
  BY <1>1, <1>3, <1>4, <1>9, CommandTypes DEF Extract
<1> QED
  BY <1>5, <1>6, <1>7, <1>8, <1>9

LEMMA CommandKeepsTypes ==
  ASSUME RewindTypeOK, NEW j \in Jobs,
         Checkout(j) \/ ApplyStaged(j) \/ ApplyUnstaged(j) \/ Clean(j) \/ Extract(j)
  PROVE  RewindTypeOK'
<1>1. PICK w \in Workspaces : Write(j, w)
  BY CommandOf
<1>2. PICK at \in {"failed", "staged", "unstaged", "clean", "extract", "done"} : Step(j, at)
  BY CommandOf
<1>3. /\ PlacesTypeOK' /\ GivenTypeOK' /\ fair' \subseteq fair
      /\ DOMAIN places' = DOMAIN places /\ UNCHANGED <<head, captures, snap, edits>>
  BY <1>1, WriteTypes DEF RewindTypeOK
<1>4. JobTypeOK'
  BY <1>2, <1>3, CommandOf, StepTypes DEF RewindTypeOK
<1>5. SnapTypeOK'
  BY <1>3 DEF RewindTypeOK, SnapTypeOK
<1> QED
  BY <1>3, <1>4, <1>5 DEF RewindTypeOK

LEMMA BeginTypes ==
  ASSUME RewindTypeOK, NEW j \in Jobs, NEW c \in Checkpoints,
         BeginFork(j, c) \/ \E b \in BOOLEAN : BeginRestore(j, c, b)
  PROVE  RewindTypeOK'
<1> USE DEF RewindTypeOK
<1>1. captures[c] \in Restorable /\ snap[c] \in Snapshots
  BY DEF BeginFork, BeginRestore, SnapTypeOK, Restorable
<1>2. UNCHANGED <<head, captures, snap, given, edits>>
  BY DEF BeginFork, BeginRestore
<1>3. SnapTypeOK' /\ GivenTypeOK'
  BY <1>2 DEF SnapTypeOK, GivenTypeOK
<1>4. CASE BeginFork(j, c)
  <2>1. snap[c].tree \in Files
    BY <1>1 DEF Snapshots
  <2>2. [index |-> snap[c].tree, work |-> snap[c].tree] \in Workspaces
    BY <2>1 DEF Workspaces
  <2>3. DOMAIN places' = DOMAIN places \cup {j}
    BY <1>4 DEF BeginFork
  <2>4. PlacesTypeOK'
    BY <1>4, <2>2 DEF BeginFork, PlacesTypeOK
  <2>5. fair' \subseteq fair \cup {j}
    BY <1>4 DEF BeginFork
  <2>6. job' = [job EXCEPT ![j] = [at |-> "staged", kind |-> "fork", of |-> c, fits |-> TRUE]]
    BY <1>4 DEF BeginFork
  <2>7. JobTypeOK'
    BY <1>1, <1>2, <2>3, <2>5, <2>6 DEF JobTypeOK
  <2> QED
    BY <1>2, <1>3, <2>4, <2>7
<1>5. ASSUME NEW b \in BOOLEAN, BeginRestore(j, c, b) PROVE RewindTypeOK'
  <2>1. PlacesTypeOK' /\ DOMAIN places' = DOMAIN places
    BY <1>5 DEF BeginRestore, PlacesTypeOK
  <2>2. fair' \subseteq fair \cup {j}
    BY <1>5 DEF BeginRestore
  <2>3. FitsTree(c) \in BOOLEAN
    BY DEF FitsTree
  <2>4. \E at \in {"refused", "base"} :
           job' = [job EXCEPT ![j] = [at |-> at, kind |-> "restore", of |-> c, fits |-> FitsTree(c)]]
    BY <1>5 DEF BeginRestore
  <2>5. JobTypeOK'
    BY <1>1, <1>2, <2>1, <2>2, <2>3, <2>4 DEF JobTypeOK
  <2> QED
    BY <1>2, <1>3, <2>1, <2>5
<1> QED
  BY <1>4, <1>5

\* What a user does is a change of the workspace, and of the commit.
LEMMA UseOf ==
  ASSUME RewindTypeOK,
         \/ Commit
         \/ \E p \in Paths : Add(p) \/ Unstage(p) \/ \E v \in Contents \cup {Absent} : Edit(p, v)
  PROVE  \E h \in Files, w \in Workspaces : Use(h, w)
<1>1. ws \in Workspaces /\ head \in Files
  BY DEF RewindTypeOK, PlacesTypeOK, ws
<1>2. ASSUME NEW p \in Paths, NEW v \in Values
      PROVE  [ws EXCEPT !.work[p] = v] \in Workspaces /\ [ws EXCEPT !.index[p] = v] \in Workspaces
  BY <1>1 DEF Workspaces, Files, Values
<1>3. ws.index \in Files /\ \A p \in Paths : ws.work[p] \in Values /\ head[p] \in Values
  BY <1>1 DEF Workspaces, Files, Values
<1> QED
  BY <1>1, <1>2, <1>3 DEF Commit, Add, Unstage, Edit, Values

LEMMA UseTypes ==
  ASSUME RewindTypeOK, NEW h \in Files, NEW w \in Workspaces, Use(h, w) PROVE RewindTypeOK'
<1> USE DEF RewindTypeOK
<1>1. head' = h /\ edits' \in 0..MaxEdits /\ PlacesTypeOK' /\ DOMAIN places' = DOMAIN places
  BY CheckpointsAssumption DEF Use, PlacesTypeOK
<1>2. GivenTypeOK' /\ fair' \subseteq fair /\ UNCHANGED <<captures, snap, job>>
  BY DisturbTypes DEF Use
<1>3. SnapTypeOK' /\ JobTypeOK'
  BY <1>1, <1>2 DEF SnapTypeOK, JobTypeOK
<1> QED
  BY <1>1, <1>2, <1>3

\* A step, by who takes it.
LEMMA RewindSteps ==
  ASSUME RewindTypeOK, RewindNext
  PROVE  \/ \E c \in Checkpoints : \/ BeginCreate(c) \/ Status(c) \/ Bundle(c) \/ CaptureStaged(c)
                                   \/ CaptureUnstaged(c) \/ Delete(c)
         \/ \E j \in Jobs, c \in Checkpoints : BeginFork(j, c) \/ \E b \in BOOLEAN : BeginRestore(j, c, b)
         \/ \E j \in Jobs : Checkout(j) \/ ApplyStaged(j) \/ ApplyUnstaged(j) \/ Clean(j) \/ Extract(j)
         \/ \E h \in Files, w \in Workspaces : Use(h, w)
  BY UseOf DEF RewindNext

LEMMA RewindTypeStep == RewindTypeOK /\ [RewindNext]_rewindVars => RewindTypeOK'
<1> SUFFICES ASSUME RewindTypeOK, [RewindNext]_rewindVars PROVE RewindTypeOK'
  OBVIOUS
<1>1. CASE UNCHANGED rewindVars
  BY <1>1 DEF rewindVars, RewindTypeOK, PlacesTypeOK, GivenTypeOK, SnapTypeOK, JobTypeOK
<1>2. CASE RewindNext
  BY <1>2, RewindSteps, CaptureTypes, BeginTypes, CommandKeepsTypes, UseTypes
<1> QED
  BY <1>1, <1>2

\* The variables of a checkpoint, a restore or a fork keep their types.
THEOREM RewindTypeCorrect == RewindSpec => []RewindTypeOK
  BY RewindTypeInit, RewindTypeStep, PTL DEF RewindSpec

-----------------------------------------------------------------------------
(* Checkpoints: what a restore or fork brings back                          *)

\* A patch is what git diff tells of two workspaces, over some of the files.
IsDiff(patch, from, to, over) ==
  /\ DOMAIN patch = {p \in over : from[p] # to[p]}
  /\ \A p \in DOMAIN patch : patch[p].from = from[p] /\ patch[p].to = to[p]

InIndex(w) == {p \in Paths : w.index[p] # Absent}
\* The files without the untracked ones.
Tracked(w) == [p \in Paths |-> IF w.index[p] = Absent THEN Absent ELSE w.work[p]]

\* What a snapshot holds of the workspace g, at each command of create.
TakenOf(at, g, s) ==
  /\ at = "bundle" => DOMAIN s.untracked = Untracked(g)
  /\ at \in {"staged", "unstaged", "kept"} => s.untracked = [p \in Untracked(g) |-> g.work[p]]
  /\ at \in {"bundle", "staged"} => (s.hasStaged <=> \E p \in Paths : s.tree[p] # g.index[p])
  /\ at \in {"bundle", "staged", "unstaged"} =>
        (s.hasUnstaged <=> \E p \in InIndex(g) : g.index[p] # g.work[p])
  /\ at \in {"unstaged", "kept"} => IsDiff(s.staged, s.tree, g.index, Paths)
  /\ at = "kept" => IsDiff(s.unstaged, g.index, g.work, InIndex(g))

TakenRight(c) ==
  /\ captures[c] \in Capturing => ws = given[c] /\ head = snap[c].tree
  /\ TakenOf(captures[c], given[c], snap[c])

\* w has this index, and these files but for the loose ones.
Brought(w, index, work, loose) == w.index = index /\ \A p \in Paths \ loose : w.work[p] = work[p]

\* What a restore or fork has made of w, at each of its commands: loose are the files
\* that are not in the commit, which a checkout leaves as they are.
MadeOf(at, w, g, tree, loose) ==
  /\ \A p \in loose : p \in Paths /\ tree[p] = Absent /\ g.index[p] = Absent
  /\ at = "base"     => \A p \in Paths : tree[p] = Absent => p \in loose /\ w.index[p] = Absent
  /\ at = "staged"   => Brought(w, tree, tree, loose)
  /\ at = "unstaged" => Brought(w, g.index, g.index, loose)
  /\ at = "clean"    => Brought(w, g.index, Tracked(g), loose)
  /\ at = "extract"  => Brought(w, g.index, g.work, Untracked(g))
  /\ at = "done"     => Brought(w, g.index, g.work, {})

Loose(j) == IF job[j].kind = "restore" THEN {p \in Paths : Of(j).tree[p] = Absent} ELSE {}

MadeRight(j) ==
  /\ There(j) /\ given[job[j].of] # Absent
  /\ job[j].at \in {"base", "clean"} => job[j].kind = "restore"
  /\ job[j].fits => MadeOf(job[j].at, places[Place(j)], given[job[j].of], Of(j).tree, Loose(j))

RewindInv ==
  /\ RewindTypeOK
  /\ \A c \in Checkpoints : given[c] # Absent => TakenRight(c)
  /\ \A j \in fair : job[j].at \notin {"failed", "done"} => MadeRight(j)

\* What each command of a restore or fork makes of the workspace.
LEMMA WorkspaceIs ==
  ASSUME NEW v \in Workspaces, NEW g \in Workspaces, Brought(v, g.index, g.work, {}) PROVE v = g
<1>1. v.work = g.work
  BY DEF Brought, Workspaces, Files
<1> QED
  BY <1>1 DEF Brought, Workspaces

LEMMA CheckoutBrings ==
  ASSUME NEW w \in Workspaces, NEW g, NEW tree \in Files, NEW loose, MadeOf("base", w, g, tree, loose),
         NEW v, v = [index |-> [p \in Paths |-> IF tree[p] = Absent THEN w.index[p] ELSE tree[p]],
                     work  |-> [p \in Paths |-> IF tree[p] = Absent THEN w.work[p] ELSE tree[p]]]
  PROVE  MadeOf("staged", v, g, tree, loose)
<1>1. v.index = tree
  BY DEF MadeOf, Files
<1>2. \A p \in Paths \ loose : v.work[p] = tree[p]
  BY DEF MadeOf
<1> QED
  BY <1>1, <1>2 DEF MadeOf, Brought

LEMMA StagedBrings ==
  ASSUME NEW w \in Workspaces, NEW g \in Workspaces, NEW tree \in Files, NEW loose,
         NEW patch, IsDiff(patch, tree, g.index, Paths), MadeOf("staged", w, g, tree, loose)
  PROVE  MadeOf("unstaged", ToIndexAndWork(patch, w), g, tree, loose)
<1>1. w.index = tree /\ \A p \in Paths \ loose : w.work[p] = tree[p]
  BY DEF MadeOf, Brought
<1>2. \A p \in DOMAIN patch : p \in Paths \ loose
  BY DEF IsDiff, MadeOf
<1>3. Fits(patch, w.index) /\ Fits(patch, w.work)
  BY <1>1, <1>2 DEF Fits, IsDiff
<1>4. ToIndexAndWork(patch, w) = [index |-> Patch(patch, w.index), work |-> Patch(patch, w.work)]
  BY <1>3 DEF ToIndexAndWork
<1>5. Patch(patch, w.index) = g.index
  <2>1. \A p \in Paths : Patch(patch, w.index)[p] = g.index[p]
    BY <1>1 DEF Patch, IsDiff
  <2> QED
    BY <2>1 DEF Patch, Workspaces, Files
<1>6. \A p \in Paths \ loose : Patch(patch, w.work)[p] = g.index[p]
  BY <1>1 DEF Patch, IsDiff
<1> QED
  BY <1>4, <1>5, <1>6 DEF MadeOf, Brought

LEMMA UnstagedBrings ==
  ASSUME NEW w \in Workspaces, NEW g \in Workspaces, NEW tree \in Files, NEW loose,
         NEW patch, IsDiff(patch, g.index, g.work, InIndex(g)), MadeOf("unstaged", w, g, tree, loose)
  PROVE  /\ Fits(patch, w.work)
         /\ MadeOf("clean", [w EXCEPT !.work = Patch(patch, @)], g, tree, loose)
         /\ loose = {} => MadeOf("extract", [w EXCEPT !.work = Patch(patch, @)], g, tree, loose)
<1> DEFINE v == [w EXCEPT !.work = Patch(patch, @)]
<1>1. w.index = g.index /\ \A p \in Paths \ loose : w.work[p] = g.index[p]
  BY DEF MadeOf, Brought
<1>2. \A p \in DOMAIN patch : p \in Paths \ loose
  BY DEF IsDiff, MadeOf, InIndex
<1>3. Fits(patch, w.work)
  BY <1>1, <1>2 DEF Fits, IsDiff
<1>4. v.index = g.index /\ v.work = Patch(patch, w.work)
  BY <1>1 DEF Workspaces
<1>5. \A p \in Paths \ loose : v.work[p] = Tracked(g)[p]
  BY <1>1, <1>4 DEF Patch, IsDiff, InIndex, Tracked
<1>6. \A p \in Paths \ Untracked(g) : Tracked(g)[p] = g.work[p]
  BY DEF Tracked, Untracked
<1> HIDE DEF v
<1>7. MadeOf("clean", v, g, tree, loose)
  BY <1>4, <1>5 DEF MadeOf, Brought
<1>8. loose = {} => MadeOf("extract", v, g, tree, loose)
  BY <1>4, <1>5, <1>6 DEF MadeOf, Brought
<1> QED
  BY <1>3, <1>7, <1>8 DEF v

LEMMA CleanBrings ==
  ASSUME NEW w \in Workspaces, NEW g \in Workspaces, NEW tree \in Files, NEW loose,
         NEW bundle, DOMAIN bundle = Untracked(g), MadeOf("clean", w, g, tree, loose), NEW gone,
         gone = Untracked(w) \ DOMAIN bundle
  PROVE  MadeOf("extract", [w EXCEPT !.work = [p \in Paths |-> IF p \in gone THEN Absent ELSE @[p]]],
                g, tree, loose)
<1> DEFINE v == [w EXCEPT !.work = [p \in Paths |-> IF p \in gone THEN Absent ELSE @[p]]]
<1>1. w.index = g.index /\ \A p \in Paths \ loose : w.work[p] = Tracked(g)[p]
  BY DEF MadeOf, Brought
<1>2. v.index = g.index /\ \A p \in Paths : v.work[p] = IF p \in gone THEN Absent ELSE w.work[p]
  BY <1>1 DEF Workspaces
<1> HIDE DEF v
<1>3. ASSUME NEW p \in Paths \ Untracked(g) PROVE v.work[p] = g.work[p]
  <2>1. CASE g.index[p] = Absent
    <3>1. g.work[p] = Absent
      BY <2>1 DEF Untracked
    <3>2. p \in gone \/ w.work[p] = Absent
      BY <1>1, <2>1 DEF Untracked
    <3> QED
      BY <1>2, <3>1, <3>2
  <2>2. CASE g.index[p] # Absent
    <3>1. p \notin loose /\ p \notin gone
      BY <1>1, <2>2 DEF MadeOf, Untracked
    <3> QED
      BY <1>1, <1>2, <2>2, <3>1 DEF Tracked
  <2> QED
    BY <2>1, <2>2
<1>4. MadeOf("extract", v, g, tree, loose)
  BY <1>2, <1>3 DEF MadeOf, Brought
<1> QED
  BY <1>4 DEF v

LEMMA ExtractBrings ==
  ASSUME NEW w \in Workspaces, NEW g \in Workspaces, NEW tree \in Files, NEW loose,
         NEW bundle, bundle = [p \in Untracked(g) |-> g.work[p]], MadeOf("extract", w, g, tree, loose)
  PROVE  MadeOf("done", [w EXCEPT !.work = [p \in Paths |-> IF p \in DOMAIN bundle THEN bundle[p] ELSE @[p]]],
                g, tree, loose)
<1> DEFINE v == [w EXCEPT !.work = [p \in Paths |-> IF p \in DOMAIN bundle THEN bundle[p] ELSE @[p]]]
<1>1. w.index = g.index /\ \A p \in Paths \ Untracked(g) : w.work[p] = g.work[p]
  BY DEF MadeOf, Brought
<1>2. v.index = g.index /\ \A p \in Paths : v.work[p] = IF p \in DOMAIN bundle THEN bundle[p] ELSE w.work[p]
  BY <1>1 DEF Workspaces
<1>3. \A p \in Paths : v.work[p] = g.work[p]
  BY <1>1, <1>2
<1> HIDE DEF v
<1>4. MadeOf("done", v, g, tree, loose)
  BY <1>2, <1>3 DEF MadeOf, Brought
<1> QED
  BY <1>4 DEF v

\* What has nothing to do with a step stays right.
LEMMA SameTaken ==
  ASSUME NEW c \in Checkpoints, TakenRight(c), captures'[c] = captures[c], snap'[c] = snap[c],
         given'[c] = given[c], captures[c] \in Capturing => ws' = ws /\ head' = head
  PROVE  TakenRight(c)'
  BY DEF TakenRight

LEMMA SameMade ==
  ASSUME NEW j \in Jobs, MadeRight(j), job'[j] = job[j], captures'[job[j].of] = captures[job[j].of],
         snap'[job[j].of] = snap[job[j].of], given'[job[j].of] = given[job[j].of],
         places'[Place(j)] = places[Place(j)]
  PROVE  MadeRight(j)'
  BY DEF MadeRight, There, Of, Place, Loose

LEMMA RewindInvInit == RewindInit => RewindInv
  BY RewindTypeInit DEF RewindInit, RewindInv

LEMMA DiffIs ==
  ASSUME NEW from, NEW to, NEW over PROVE IsDiff(Diff(from, to, over), from, to, over)
  BY DEF IsDiff, Diff

LEMMA EmptyDiff ==
  ASSUME NEW from, NEW to, NEW over, \A p \in over : from[p] = to[p] PROVE IsDiff(NoPatch, from, to, over)
  BY DEF IsDiff, NoPatch

LEMMA CaptureKeeps ==
  ASSUME RewindInv, NEW c \in Checkpoints,
         BeginCreate(c) \/ Status(c) \/ Bundle(c) \/ CaptureStaged(c) \/ CaptureUnstaged(c) \/ Delete(c)
  PROVE  RewindInv'
<1>1. RewindTypeOK'
  BY CaptureTypes DEF RewindInv
<1>2. UNCHANGED <<head, places, job, edits>>
  BY DEF BeginCreate, Status, Bundle, CaptureStaged, CaptureUnstaged, Delete
<1>3. ASSUME NEW d \in Checkpoints \ {c}
      PROVE  captures'[d] = captures[d] /\ snap'[d] = snap[d] /\ given'[d] = given[d]
  BY DEF BeginCreate, Status, Bundle, CaptureStaged, CaptureUnstaged, Delete, RewindInv, RewindTypeOK,
         SnapTypeOK, GivenTypeOK
<1>4. ASSUME NEW d \in Checkpoints \ {c}, given'[d] # Absent PROVE TakenRight(d)'
  BY <1>2, <1>3, <1>4, SameTaken DEF RewindInv, ws
<1>5. ASSUME NEW j \in fair', job'[j].at \notin {"failed", "done"} PROVE MadeRight(j)'
  <2>1. j \in fair /\ j \in Jobs /\ job'[j] = job[j]
    BY <1>2 DEF BeginCreate, Status, Bundle, CaptureStaged, CaptureUnstaged, Delete, RewindInv,
                RewindTypeOK, JobTypeOK
  <2>2. MadeRight(j) /\ captures[job[j].of] = "kept" /\ job[j].of \in Checkpoints
    BY <1>5, <2>1 DEF RewindInv, MadeRight, There, RewindTypeOK, JobTypeOK
  <2>3. job[j].of # c
    BY <1>5, <2>1, <2>2 DEF BeginCreate, Status, Bundle, CaptureStaged, CaptureUnstaged, Delete
  <2> QED
    BY <1>2, <1>3, <2>1, <2>2, <2>3, SameMade
<1>6. ASSUME given'[c] # Absent PROVE TakenRight(c)'
  <2> DEFINE g == given[c]  s == snap[c]
  <2>1. ws' = ws /\ head' = head
    BY <1>2 DEF ws
  <2>2. CASE BeginCreate(c)
    <3>1. captures'[c] = "status" /\ given'[c] = ws /\ snap'[c].tree = head
      BY <2>2 DEF BeginCreate, RewindInv, RewindTypeOK, SnapTypeOK, GivenTypeOK
    <3> QED
      BY <2>1, <3>1 DEF TakenRight, TakenOf
  <2>3. ASSUME ~BeginCreate(c)
        PROVE  given'[c] = g /\ g # Absent /\ TakenRight(c) /\ s \in Snapshots
    <3>1. given'[c] = given[c] /\ captures[c] # "none"
      BY <2>3 DEF Status, Bundle, CaptureStaged, CaptureUnstaged, Delete
    <3> QED
      BY <1>6, <3>1 DEF RewindInv, RewindTypeOK, SnapTypeOK
  <2>4. CASE Status(c)
    <3>1. ~BeginCreate(c) /\ captures[c] = "status"
      BY <2>4 DEF Status, BeginCreate
    <3>2. ws = g /\ head = s.tree
      BY <2>3, <3>1 DEF TakenRight, Capturing
    <3>3. /\ captures'[c] = "bundle" /\ snap'[c].tree = s.tree
          /\ snap'[c].untracked = [p \in Untracked(ws) |-> Absent]
          /\ snap'[c].hasStaged = (DOMAIN StagedDiff(head, ws) # {})
          /\ snap'[c].hasUnstaged = (DOMAIN UnstagedDiff(ws) # {})
      BY <2>3, <2>4, <3>1 DEF Status, RewindInv, RewindTypeOK, SnapTypeOK, Snapshots
    <3>4. DOMAIN StagedDiff(head, ws) = {p \in Paths : head[p] # ws.index[p]}
      BY DEF StagedDiff, Diff
    <3>5. DOMAIN UnstagedDiff(ws) = {p \in InIndex(ws) : ws.index[p] # ws.work[p]}
      BY DEF UnstagedDiff, Diff, InIndex
    <3>6. snap'[c].hasStaged <=> \E p \in Paths : snap'[c].tree[p] # g.index[p]
      <4>1. snap'[c].hasStaged <=> {p \in Paths : s.tree[p] # g.index[p]} # {}
        BY <3>2, <3>3, <3>4
      <4> QED
        BY <3>3, <4>1
    <3>7. snap'[c].hasUnstaged <=> \E p \in InIndex(g) : g.index[p] # g.work[p]
      BY <3>2, <3>3, <3>5
    <3>8. TakenOf("bundle", g, snap'[c])
      BY <3>2, <3>3, <3>6, <3>7 DEF TakenOf
    <3> QED
      BY <2>1, <2>3, <3>1, <3>2, <3>3, <3>8 DEF TakenRight
  <2>5. CASE Bundle(c)
    <3>1. ~BeginCreate(c) /\ captures[c] = "bundle"
      BY <2>5 DEF Bundle, BeginCreate
    <3>2. ws = g /\ head = s.tree /\ TakenOf("bundle", g, s)
      BY <2>3, <3>1 DEF TakenRight, Capturing
    <3>3. CASE captures'[c] = "failed"
      BY <3>3 DEF TakenRight, TakenOf, Capturing
    <3>4. CASE captures'[c] # "failed"
      <4>1. /\ captures'[c] = "staged"
            /\ snap' = [snap EXCEPT ![c].untracked = [p \in DOMAIN s.untracked |-> ws.work[p]]]
        BY <2>5, <3>4 DEF Bundle, RewindInv, RewindTypeOK, SnapTypeOK
      <4>2. /\ snap'[c].tree = s.tree /\ snap'[c].untracked = [p \in DOMAIN s.untracked |-> ws.work[p]]
            /\ snap'[c].hasStaged = s.hasStaged /\ snap'[c].hasUnstaged = s.hasUnstaged
        BY <2>3, <3>1, <4>1 DEF RewindInv, RewindTypeOK, SnapTypeOK, Snapshots
      <4>3. TakenOf("staged", g, snap'[c])
        BY <3>2, <4>2 DEF TakenOf
      <4> QED
        BY <2>1, <2>3, <3>1, <3>2, <4>1, <4>2, <4>3 DEF TakenRight
    <3> QED
      BY <3>3, <3>4
  <2>6. CASE CaptureStaged(c)
    <3>1. ~BeginCreate(c) /\ captures[c] = "staged"
      BY <2>6 DEF CaptureStaged, BeginCreate
    <3>2. ws = g /\ head = s.tree /\ TakenOf("staged", g, s)
      BY <2>3, <3>1 DEF TakenRight, Capturing
    <3>3. /\ captures'[c] = "unstaged" /\ snap'[c].tree = s.tree /\ snap'[c].untracked = s.untracked
          /\ snap'[c].hasUnstaged = s.hasUnstaged
          /\ snap'[c].staged = IF s.hasStaged THEN StagedDiff(head, ws) ELSE NoPatch
      BY <2>3, <2>6, <3>1 DEF CaptureStaged, RewindInv, RewindTypeOK, SnapTypeOK, Snapshots
    <3>4. IsDiff(snap'[c].staged, s.tree, g.index, Paths)
      BY <3>2, <3>3, DiffIs, EmptyDiff DEF TakenOf, StagedDiff
    <3>5. TakenOf("unstaged", g, snap'[c])
      BY <3>2, <3>3, <3>4 DEF TakenOf
    <3> QED
      BY <2>1, <2>3, <3>1, <3>2, <3>3, <3>5 DEF TakenRight
  <2>7. CASE CaptureUnstaged(c)
    <3>1. ~BeginCreate(c) /\ captures[c] = "unstaged"
      BY <2>7 DEF CaptureUnstaged, BeginCreate
    <3>2. ws = g /\ TakenOf("unstaged", g, s)
      BY <2>3, <3>1 DEF TakenRight, Capturing
    <3>3. /\ captures'[c] = "kept" /\ snap'[c].tree = s.tree /\ snap'[c].untracked = s.untracked
          /\ snap'[c].staged = s.staged
          /\ snap'[c].unstaged = IF s.hasUnstaged THEN UnstagedDiff(ws) ELSE NoPatch
      BY <2>3, <2>7, <3>1 DEF CaptureUnstaged, RewindInv, RewindTypeOK, SnapTypeOK, Snapshots
    <3>4. IsDiff(snap'[c].unstaged, g.index, g.work, InIndex(g))
      BY <3>2, <3>3, DiffIs, EmptyDiff DEF TakenOf, UnstagedDiff, InIndex
    <3>5. TakenOf("kept", g, snap'[c])
      BY <3>2, <3>3, <3>4 DEF TakenOf
    <3> QED
      <4>1. captures'[c] \notin Capturing
        BY <3>3 DEF Capturing
      <4> QED
        BY <2>3, <3>1, <3>3, <3>5, <4>1 DEF TakenRight
  <2>8. CASE Delete(c)
    <3>1. captures'[c] \in {"stripped", "deleted"}
      BY <2>8 DEF Delete, RewindInv, RewindTypeOK, SnapTypeOK
    <3> QED
      BY <3>1 DEF TakenRight, TakenOf, Capturing
  <2> QED
    BY <2>2, <2>4, <2>5, <2>6, <2>7, <2>8
<1> QED
  BY <1>1, <1>4, <1>5, <1>6 DEF RewindInv

\* Who writes the workspace tells those that are at work there.
LEMMA DisturbKeeps ==
  ASSUME RewindInv, NEW js, Disturb(js), UNCHANGED <<captures, snap>>, NEW c \in Checkpoints,
         given'[c] # Absent
  PROVE  given'[c] = given[c] /\ captures[c] \notin Capturing /\ TakenRight(c)'
<1>1. given'[c] = given[c] /\ captures[c] \notin Capturing /\ given[c] # Absent
  BY DEF Disturb
<1>2. TakenRight(c)
  BY <1>1 DEF RewindInv
<1> QED
  BY <1>1, <1>2, SameTaken

LEMMA WriteKeeps ==
  ASSUME RewindInv, NEW j \in Jobs, NEW w \in Workspaces, Write(j, w), NEW at, Step(j, at),
         Place(j) \in DOMAIN places
  PROVE  /\ places'[Place(j)] = w
         /\ \A c \in Checkpoints : given'[c] # Absent => TakenRight(c)'
         /\ \A k \in fair' : k # j /\ job'[k].at \notin {"failed", "done"} => MadeRight(k)'
         /\ \A c \in Checkpoints : captures[c] = "kept" => given'[c] = given[c]
<1> USE DEF RewindInv, RewindTypeOK
<1>1. UNCHANGED <<head, captures, snap>> /\ places' = [places EXCEPT ![Place(j)] = w]
  BY DEF Write
<1>2. places'[Place(j)] = w
  BY <1>1
<1>3. ASSUME NEW k \in Jobs, k # j PROVE job'[k] = job[k]
  BY <1>3 DEF Step, JobTypeOK
<1>4. CASE Place(j) = "main" /\ w # ws
  <2>1. Disturb({j})
    BY <1>4 DEF Write
  <2>2. \A c \in Checkpoints : given'[c] # Absent => TakenRight(c)'
    BY <1>1, <2>1, DisturbKeeps
  <2>3. \A c \in Checkpoints : captures[c] = "kept" => given'[c] = given[c]
    BY <2>1 DEF Disturb, Capturing
  <2>4. ASSUME NEW k \in fair', k # j, job'[k].at \notin {"failed", "done"} PROVE MadeRight(k)'
    <3>1. k \in Jobs /\ k \in fair /\ (Place(k) # "main" \/ job[k].at = "done")
      BY <2>1, <2>4 DEF Disturb, JobTypeOK
    <3>2. job'[k] = job[k] /\ Place(k) # "main"
      BY <1>3, <2>4, <3>1
    <3>3. MadeRight(k) /\ captures[job[k].of] = "kept" /\ job[k].of \in Checkpoints
      BY <2>4, <3>1, <3>2 DEF MadeRight, There, JobTypeOK
    <3>4. places'[Place(k)] = places[Place(k)]
      BY <1>1, <1>4, <3>2
    <3> QED
      BY <1>1, <2>3, <3>1, <3>2, <3>3, <3>4, SameMade
  <2> QED
    BY <1>2, <2>2, <2>3, <2>4
<1>5. CASE ~(Place(j) = "main" /\ w # ws)
  <2>1. UNCHANGED <<fair, given>>
    BY <1>5 DEF Write
  <2>2. ws' = ws
    BY <1>1, <1>5 DEF ws, PlacesTypeOK
  <2>3. \A c \in Checkpoints : given'[c] # Absent => TakenRight(c)'
    BY <1>1, <2>1, <2>2, SameTaken
  <2>4. ASSUME NEW k \in fair', k # j, job'[k].at \notin {"failed", "done"} PROVE MadeRight(k)'
    <3>1. k \in Jobs /\ k \in fair
      BY <2>1, <2>4 DEF JobTypeOK
    <3>2. job'[k] = job[k]
      BY <1>3, <2>4, <3>1
    <3>3. MadeRight(k)
      BY <2>4, <3>1, <3>2
    <3>4. places'[Place(k)] = places[Place(k)]
      <4>1. CASE Place(k) = "main"
        BY <2>2, <4>1 DEF ws
      <4>2. CASE Place(k) # "main"
        <5>1. Place(k) = k
          BY <4>2 DEF Place
        <5>2. Place(k) # Place(j)
          BY <2>4, <3>1, <5>1, CheckpointsAssumption DEF Place
        <5> QED
          BY <1>1, <5>2
      <4> QED
        BY <4>1, <4>2
    <3> QED
      BY <1>1, <2>1, <3>1, <3>2, <3>3, <3>4, SameMade
  <2> QED
    BY <1>2, <2>1, <2>3, <2>4
<1> QED
  BY <1>4, <1>5

\* A job that stays fair has its next command right if it had the one before right.
LEMMA CommandKeeps ==
  ASSUME RewindInv, NEW j \in Jobs, job[j].at # "none", NEW w \in Workspaces, Write(j, w),
         NEW at \in {"failed", "staged", "unstaged", "clean", "extract", "done"}, Step(j, at),
         job[j].at \notin {"failed", "done"}, at = "clean" => job[j].kind = "restore",
         j \in fair /\ There(j) /\ job[j].fits /\ at # "failed" /\
            MadeOf(job[j].at, places[Place(j)], given[job[j].of], Of(j).tree, Loose(j))
           => MadeOf(at, w, given[job[j].of], Of(j).tree, Loose(j))
  PROVE  /\ \A c \in Checkpoints : given'[c] # Absent => TakenRight(c)'
         /\ \A k \in fair' : job'[k].at \notin {"failed", "done"} => MadeRight(k)'
         /\ j \in fair /\ job[j].fits /\ at = "done" =>
              places'[Place(j)] = given[job[j].of]
<1> USE DEF RewindInv, RewindTypeOK
<1>1. Place(j) \in DOMAIN places /\ job[j].of \in Checkpoints
  BY DEF JobTypeOK, PlacesTypeOK, Place
<1>2. /\ places'[Place(j)] = w
      /\ \A c \in Checkpoints : given'[c] # Absent => TakenRight(c)'
      /\ \A k \in fair' : k # j /\ job'[k].at \notin {"failed", "done"} => MadeRight(k)'
      /\ \A c \in Checkpoints : captures[c] = "kept" => given'[c] = given[c]
  BY <1>1, WriteKeeps
<1>3. job'[j] = [job[j] EXCEPT !.at = at] /\ UNCHANGED <<captures, snap>>
  BY DEF Step, Write, JobTypeOK
<1>4. job'[j].at = at /\ job'[j].kind = job[j].kind /\ job'[j].of = job[j].of /\ job'[j].fits = job[j].fits
  BY <1>3 DEF JobTypeOK
<1>5. ASSUME j \in fair
      PROVE  /\ There(j) /\ given[job[j].of] # Absent /\ given[job[j].of] \in Workspaces
             /\ job[j].fits /\ at # "failed" => MadeOf(at, w, given[job[j].of], Of(j).tree, Loose(j))
  <2>1. MadeRight(j)
    BY <1>5
  <2> QED
    BY <1>1, <1>5, <2>1 DEF MadeRight, GivenTypeOK
<1>6. ASSUME j \in fair', at \notin {"failed", "done"} PROVE MadeRight(j)'
  <2>1. j \in fair
    BY <1>6 DEF Write, Disturb
  <2>2. captures[job[j].of] = "kept" /\ given'[job[j].of] = given[job[j].of]
    BY <1>1, <1>2, <1>5, <2>1 DEF There
  <2>3. Place(j)' = Place(j) /\ Of(j)' = Of(j) /\ Loose(j)' = Loose(j) /\ There(j)'
    BY <1>3, <1>4, <2>2 DEF Place, Of, Loose, There
  <2>4. job[j].fits => MadeOf(at, places'[Place(j)], given'[job[j].of], Of(j).tree, Loose(j))
    BY <1>2, <1>5, <1>6, <2>1, <2>2
  <2> QED
    BY <1>4, <1>5, <2>1, <2>2, <2>3, <2>4 DEF MadeRight
<1>7. ASSUME j \in fair, job[j].fits, at = "done" PROVE places'[Place(j)] = given[job[j].of]
  <2>1. Brought(w, given[job[j].of].index, given[job[j].of].work, {})
    BY <1>5, <1>7 DEF MadeOf
  <2> QED
    BY <1>2, <1>5, <1>7, <2>1, WorkspaceIs
<1> QED
  BY <1>2, <1>4, <1>6, <1>7

LEMMA CommandRight ==
  ASSUME RewindInv, NEW j \in Jobs,
         Checkout(j) \/ ApplyStaged(j) \/ ApplyUnstaged(j) \/ Clean(j) \/ Extract(j)
  PROVE  RewindInv' /\ (Ends(j) /\ job[j].fits => Exact(j))
<1> DEFINE g == given[job[j].of]  s == Of(j)  v == places[Place(j)]
           Goal == /\ \A c \in Checkpoints : given'[c] # Absent => TakenRight(c)'
                   /\ \A k \in fair' : job'[k].at \notin {"failed", "done"} => MadeRight(k)'
                   /\ Ends(j) /\ job[j].fits => Exact(j)
<1>1. RewindTypeOK /\ RewindTypeOK' /\ job[j].at # "none"
  BY CommandKeepsTypes, CommandOf DEF RewindInv
<1>2. s \in Snapshots /\ v \in Workspaces /\ ws \in Workspaces /\ job[j].of \in Checkpoints
  BY <1>1 DEF RewindTypeOK, JobTypeOK, SnapTypeOK, PlacesTypeOK, Of, Place, Restorable, ws
<1>3. s.tree \in Files /\ s.untracked \in Bundles /\ s.staged \in Patches /\ s.unstaged \in Patches
  BY <1>2 DEF Snapshots
<1>4. ASSUME j \in fair, job[j].at \notin {"failed", "done"}
      PROVE  /\ There(j) /\ g \in Workspaces /\ TakenOf("kept", g, s)
             /\ job[j].at \in {"base", "clean"} => job[j].kind = "restore"
  <2>1. MadeRight(j) /\ given[job[j].of] # Absent
    BY <1>4 DEF RewindInv, MadeRight
  <2>2. TakenRight(job[j].of) /\ g \in Workspaces /\ captures[job[j].of] = "kept"
    BY <1>1, <1>2, <2>1 DEF RewindInv, RewindTypeOK, GivenTypeOK, MadeRight, There
  <2> QED
    BY <2>1, <2>2 DEF MadeRight, TakenRight, Of
<1>5. ASSUME NEW w \in Workspaces, Write(j, w), job[j].at \notin {"failed", "done"},
             NEW at \in {"failed", "staged", "unstaged", "clean", "extract", "done"}, Step(j, at),
             at = "clean" => job[j].kind = "restore",
             j \in fair /\ There(j) /\ at # "failed" /\ MadeOf(job[j].at, v, g, s.tree, Loose(j))
               => MadeOf(at, w, g, s.tree, Loose(j))
      PROVE  Goal
  <2>1. /\ \A c \in Checkpoints : given'[c] # Absent => TakenRight(c)'
        /\ \A k \in fair' : job'[k].at \notin {"failed", "done"} => MadeRight(k)'
        /\ j \in fair /\ job[j].fits /\ at = "done" => places'[Place(j)] = given[job[j].of]
    BY <1>1, <1>5, CommandKeeps
  <2>2. job'[j].at = at
    BY <1>1, <1>5 DEF Step, RewindTypeOK, JobTypeOK
  <2> QED
    BY <2>1, <2>2 DEF Ends, Exact
<1> SUFFICES Goal
  BY <1>1 DEF RewindInv
<1> HIDE DEF Goal
<1>6. CASE Checkout(j)
  <2> DEFINE tree == s.tree
             Filled(files) == [p \in Paths |-> IF tree[p] = Absent THEN files[p] ELSE tree[p]]
             w == [index |-> Filled(ws.index), work |-> Filled(ws.work)]
  <2>1. w \in Workspaces
    <3>1. Filled(ws.index) \in Files /\ Filled(ws.work) \in Files
      BY <1>2, <1>3 DEF Files, Workspaces
    <3> QED
      BY <3>1 DEF Workspaces
  <2>2. PICK at \in {"failed", "staged"} : Step(j, at)
    BY <1>6 DEF Checkout
  <2>3. Write(j, w) /\ job[j].at = "base"
    BY <1>6 DEF Checkout
  <2>4. ASSUME j \in fair, MadeOf("base", v, g, tree, Loose(j)) PROVE MadeOf("staged", w, g, tree, Loose(j))
    <3>1. v = ws
      BY <1>4, <2>3, <2>4 DEF Place, ws
    <3> QED
      BY <1>2, <1>3, <2>4, <3>1, CheckoutBrings
  <2> HIDE DEF w
  <2> QED
    BY <1>5, <2>1, <2>2, <2>3, <2>4
<1>7. CASE ApplyStaged(j)
  <2> DEFINE w == IF There(j) THEN ToIndexAndWork(s.staged, v) ELSE v
  <2>1. w \in Workspaces
    BY <1>2, <1>3, CommandTypes
  <2>2. Write(j, w) /\ job[j].at = "staged" /\ Step(j, "unstaged")
    BY <1>7 DEF ApplyStaged
  <2>3. ASSUME j \in fair, There(j), MadeOf("staged", v, g, s.tree, Loose(j))
        PROVE  MadeOf("unstaged", w, g, s.tree, Loose(j))
    <3>1. g \in Workspaces /\ IsDiff(s.staged, s.tree, g.index, Paths)
      BY <1>4, <2>2, <2>3 DEF TakenOf
    <3> QED
      BY <1>2, <1>3, <2>3, <3>1, StagedBrings
  <2> HIDE DEF w
  <2> QED
    BY <1>5, <2>1, <2>2, <2>3
<1>8. CASE ApplyUnstaged(j)
  <2> DEFINE patch == s.unstaged
             applied == [v EXCEPT !.work = Patch(patch, @)]
             w == IF There(j) /\ Fits(patch, v.work) THEN applied ELSE v
             at == IF job[j].kind = "fork" THEN "extract" ELSE "clean"
  <2>1. applied \in Workspaces
    BY <1>2, <1>3, CommandTypes
  <2>2. w \in Workspaces
    BY <1>2, <2>1
  <2>3. Write(j, w) /\ job[j].at = "unstaged" /\ Step(j, at)
    BY <1>8 DEF ApplyUnstaged
  <2>4. job[j].kind \in {"restore", "fork"}
    BY <1>1, <2>3 DEF RewindTypeOK, JobTypeOK
  <2>5. ASSUME j \in fair, There(j), MadeOf("unstaged", v, g, s.tree, Loose(j))
        PROVE  MadeOf(at, w, g, s.tree, Loose(j))
    <3>1. g \in Workspaces /\ IsDiff(patch, g.index, g.work, InIndex(g))
      BY <1>4, <2>3, <2>5 DEF TakenOf
    <3>2. /\ Fits(patch, v.work) /\ MadeOf("clean", applied, g, s.tree, Loose(j))
          /\ Loose(j) = {} => MadeOf("extract", applied, g, s.tree, Loose(j))
      BY <1>2, <1>3, <2>5, <3>1, UnstagedBrings
    <3>3. w = applied /\ (job[j].kind = "fork" => Loose(j) = {})
      BY <2>5, <3>2 DEF Loose
    <3> HIDE DEF w, applied
    <3> QED
      BY <3>2, <3>3
  <2> HIDE DEF w, applied
  <2>6. at \in {"clean", "extract"} /\ (at = "clean" => job[j].kind = "restore")
    BY <2>4
  <2> HIDE DEF at
  <2> QED
    BY <1>5, <2>2, <2>3, <2>5, <2>6
<1>9. CASE Clean(j)
  <2> DEFINE gone == NewFiles(j, ws)
             w == [ws EXCEPT !.work = [p \in Paths |-> IF p \in gone THEN Absent ELSE @[p]]]
  <2>1. w \in Workspaces
    BY <1>2, CommandTypes
  <2>2. Write(j, w) /\ job[j].at = "clean" /\ Step(j, "extract")
    BY <1>9 DEF Clean
  <2>3. ASSUME j \in fair, There(j), MadeOf("clean", v, g, s.tree, Loose(j))
        PROVE  MadeOf("extract", w, g, s.tree, Loose(j))
    <3>1. g \in Workspaces /\ DOMAIN s.untracked = Untracked(g) /\ job[j].kind = "restore"
      BY <1>4, <2>2, <2>3 DEF TakenOf
    <3>2. v = ws /\ gone = Untracked(ws) \ DOMAIN s.untracked
      BY <3>1 DEF Place, ws, NewFiles
    <3> HIDE DEF gone
    <3> QED
      BY <1>2, <1>3, <2>3, <3>1, <3>2, CleanBrings
  <2> HIDE DEF w
  <2> QED
    BY <1>5, <2>1, <2>2, <2>3
<1>10. CASE Extract(j)
  <2> DEFINE bundle == s.untracked
             full == [v EXCEPT !.work = [p \in Paths |-> IF p \in DOMAIN bundle THEN bundle[p] ELSE @[p]]]
             w == IF There(j) THEN full ELSE v
  <2>1. w \in Workspaces
    BY <1>2, <1>3, CommandTypes
  <2>2. Write(j, w) /\ job[j].at = "extract" /\ Step(j, "done")
    BY <1>10 DEF Extract
  <2>3. ASSUME j \in fair, There(j), MadeOf("extract", v, g, s.tree, Loose(j))
        PROVE  MadeOf("done", w, g, s.tree, Loose(j))
    <3>1. g \in Workspaces /\ bundle = [p \in Untracked(g) |-> g.work[p]]
      BY <1>4, <2>2, <2>3 DEF TakenOf
    <3>2. MadeOf("done", full, g, s.tree, Loose(j))
      BY <1>2, <1>3, <2>3, <3>1, ExtractBrings
    <3> HIDE DEF full
    <3> QED
      BY <2>3, <3>2
  <2> HIDE DEF w
  <2> QED
    BY <1>5, <2>1, <2>2, <2>3
<1> QED
  BY <1>6, <1>7, <1>8, <1>9, <1>10

LEMMA BeginRight ==
  ASSUME RewindInv, NEW j \in Jobs, NEW c \in Checkpoints,
         BeginFork(j, c) \/ \E b \in BOOLEAN : BeginRestore(j, c, b)
  PROVE  RewindInv'
<1> USE DEF RewindInv, RewindTypeOK
<1>1. RewindTypeOK'
  BY BeginTypes
<1>2. UNCHANGED <<head, captures, snap, given>> /\ job[j].at = "none"
  BY DEF BeginFork, BeginRestore
<1>3. "main" # j /\ \A q \in DOMAIN places : q # j => places'[q] = places[q]
  BY CheckpointsAssumption DEF BeginFork, BeginRestore
<1>4. \A d \in Checkpoints : given'[d] # Absent => TakenRight(d)'
  <2>1. ws' = ws
    BY <1>3 DEF ws, PlacesTypeOK
  <2> QED
    BY <1>2, <2>1, SameTaken
<1>5. ASSUME NEW k \in fair', k # j, job'[k].at \notin {"failed", "done"} PROVE MadeRight(k)'
  <2>1. k \in fair /\ k \in Jobs /\ job'[k] = job[k]
    BY <1>5 DEF BeginFork, BeginRestore, JobTypeOK
  <2>2. Place(k) # j /\ Place(k) \in DOMAIN places
    BY <1>3, <1>5, <2>1 DEF Place, JobTypeOK, PlacesTypeOK
  <2> QED
    BY <1>2, <1>3, <1>5, <2>1, <2>2, SameMade
<1>6. ASSUME j \in fair', job'[j].at \notin {"failed", "done"} PROVE MadeRight(j)'
  <2>1. j \notin fair
    BY <1>2 DEF JobTypeOK
  <2>2. captures[c] = "kept" /\ given[c] # Absent
    BY <1>6, <2>1 DEF BeginFork, BeginRestore
  <2>3. CASE BeginFork(j, c)
    <3>1. job'[j] = [at |-> "staged", kind |-> "fork", of |-> c, fits |-> TRUE]
      BY <2>3 DEF BeginFork, JobTypeOK
    <3>2. places'[j] = [index |-> snap[c].tree, work |-> snap[c].tree]
      BY <2>3 DEF BeginFork
    <3>3. Place(j)' = j /\ Of(j)' = snap[c] /\ Loose(j)' = {} /\ There(j)'
      BY <1>2, <2>2, <3>1 DEF Place, Of, Loose, There
    <3>4. MadeOf("staged", places'[j], given[c], snap[c].tree, {})
      BY <3>2 DEF MadeOf, Brought
    <3> QED
      BY <1>2, <2>2, <3>1, <3>3, <3>4 DEF MadeRight
  <2>4. ASSUME NEW b \in BOOLEAN, BeginRestore(j, c, b) PROVE MadeRight(j)'
    <3>1. job'[j] = [at |-> "base", kind |-> "restore", of |-> c, fits |-> FitsTree(c)]
      BY <2>1, <2>4, <1>6 DEF BeginRestore, JobTypeOK
    <3>2. places' = places
      BY <2>4 DEF BeginRestore
    <3>3. /\ Place(j)' = "main" /\ Of(j)' = snap[c] /\ There(j)'
          /\ Loose(j)' = {p \in Paths : snap[c].tree[p] = Absent}
      BY <1>2, <2>2, <3>1 DEF Place, Of, Loose, There
    <3>4. FitsTree(c) => MadeOf("base", ws, given[c], snap[c].tree,
                                {p \in Paths : snap[c].tree[p] = Absent})
      BY DEF FitsTree, MadeOf
    <3> QED
      BY <1>2, <2>2, <3>1, <3>2, <3>3, <3>4 DEF MadeRight, ws
  <2> QED
    BY <2>3, <2>4
<1> QED
  BY <1>1, <1>4, <1>5, <1>6

LEMMA UseKeeps ==
  ASSUME RewindInv, NEW h \in Files, NEW w \in Workspaces, Use(h, w) PROVE RewindInv'
<1> USE DEF RewindInv, RewindTypeOK
<1>1. RewindTypeOK' /\ UNCHANGED <<captures, snap, job>> /\ Disturb({})
  BY UseTypes DEF Use
<1>2. \A c \in Checkpoints : given'[c] # Absent => TakenRight(c)'
  BY <1>1, DisturbKeeps
<1>3. ASSUME NEW k \in fair', job'[k].at \notin {"failed", "done"} PROVE MadeRight(k)'
  <2>1. k \in fair /\ k \in Jobs /\ Place(k) # "main" /\ MadeRight(k)
    BY <1>1, <1>3 DEF Disturb, JobTypeOK
  <2>2. given'[job[k].of] = given[job[k].of]
    <3>1. captures[job[k].of] = "kept" /\ job[k].of \in Checkpoints
      BY <2>1 DEF MadeRight, There, JobTypeOK
    <3> QED
      BY <1>1, <3>1 DEF Disturb, Capturing
  <2>3. places'[Place(k)] = places[Place(k)]
    BY <2>1 DEF Use
  <2> QED
    BY <1>1, <2>1, <2>2, <2>3, SameMade
<1> QED
  BY <1>1, <1>2, <1>3

LEMMA RewindInvStep == RewindInv /\ [RewindNext]_rewindVars => RewindInv'
<1> SUFFICES ASSUME RewindInv, [RewindNext]_rewindVars PROVE RewindInv'
  OBVIOUS
<1>1. CASE UNCHANGED rewindVars
  <2>1. RewindTypeOK' /\ UNCHANGED <<head, places, captures, snap, given, job, fair, ws>>
    BY <1>1, RewindTypeStep DEF RewindInv, rewindVars, ws
  <2>2. \A c \in Checkpoints : given'[c] # Absent => TakenRight(c)'
    BY <2>1, SameTaken DEF RewindInv
  <2>3. \A k \in fair' : job'[k].at \notin {"failed", "done"} => MadeRight(k)'
    BY <2>1, SameMade DEF RewindInv, RewindTypeOK, JobTypeOK
  <2> QED
    BY <2>1, <2>2, <2>3 DEF RewindInv
<1>2. CASE RewindNext
  <2>1. RewindTypeOK
    BY DEF RewindInv
  <2> QED
    BY <1>2, <2>1, RewindSteps, CaptureKeeps, BeginRight, CommandRight, UseKeeps
<1> QED
  BY <1>1, <1>2

\* A job ends with its last command, which brings the last files.
LEMMA EndsExact ==
  RewindInv /\ [RewindNext]_rewindVars => \A j \in Jobs : Ends(j) /\ job[j].fits => Exact(j)
<1> SUFFICES ASSUME RewindInv, [RewindNext]_rewindVars, NEW j \in Jobs, Ends(j), job[j].fits
             PROVE  Exact(j)
  OBVIOUS
<1>1. RewindTypeOK /\ job[j].at = "extract" /\ job'[j].at = "done"
  BY DEF RewindInv, Ends
<1>2. RewindNext
  BY <1>1 DEF rewindVars
<1>3. ASSUME NEW k \in Jobs,
             Checkout(k) \/ ApplyStaged(k) \/ ApplyUnstaged(k) \/ Clean(k) \/ Extract(k)
      PROVE  Exact(j)
  <2>1. k = j
    <3>1. \E at : job' = [job EXCEPT ![k].at = at]
      BY <1>3 DEF Checkout, ApplyStaged, ApplyUnstaged, Clean, Extract, Step
    <3> QED
      BY <1>1, <3>1 DEF RewindTypeOK, JobTypeOK
  <2> QED
    BY <1>3, <2>1, CommandRight
<1>4. ~ \E c \in Checkpoints : \/ BeginCreate(c) \/ Status(c) \/ Bundle(c) \/ CaptureStaged(c)
                               \/ CaptureUnstaged(c) \/ Delete(c)
  BY <1>1 DEF BeginCreate, Status, Bundle, CaptureStaged, CaptureUnstaged, Delete
<1>5. ~ \E k \in Jobs, c \in Checkpoints : BeginFork(k, c) \/ \E b \in BOOLEAN : BeginRestore(k, c, b)
  BY <1>1 DEF BeginFork, BeginRestore, RewindTypeOK, JobTypeOK
<1>6. ~ \E h \in Files, w \in Workspaces : Use(h, w)
  BY <1>1 DEF Use
<1> QED
  BY <1>1, <1>2, <1>3, <1>4, <1>5, <1>6, RewindSteps

\* A restore or fork that nothing got in the way of ends with the workspace of its
\* checkpoint, for any files, contents, checkpoints, restores and forks at once.
THEOREM RestoresExactly == RewindSpec => ReconstructsInTree
<1>1. RewindInv /\ [RewindNext]_rewindVars
        => [\A j \in Jobs : Ends(j) /\ job[j].fits => Exact(j)]_rewindVars
  BY EndsExact
<1> QED
  BY <1>1, RewindInvInit, RewindInvStep, PTL DEF RewindSpec, ReconstructsInTree
=============================================================================
