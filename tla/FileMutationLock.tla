-------------------------- MODULE FileMutationLock --------------------------
(***************************************************************************)
(* withFileMutationQueue: the calls that write one file take turns.  The   *)
(* calls of a process form a chain of promises for each key, and the       *)
(* processes share, for each key, a lock directory that holds the pid of   *)
(* its owner.                                                              *)
(*                                                                         *)
(* A step is one file-system operation.  The file's key is its real path,  *)
(* or the path as it was given while there is no file: a path that goes    *)
(* through a linked directory has two keys.  A pid names one process.      *)
(***************************************************************************)
EXTENDS Naturals, FiniteSets

CONSTANTS Calls,     \* the calls of withFileMutationQueue
          Procs,     \* the processes
          ProcOf,    \* the process of each call
          Linked,    \* the calls whose path goes through a linked directory
          Crashes,   \* the processes that may die
          None       \* no call, no process

ASSUME LockAssumption ==
  /\ ProcOf \in [Calls -> Procs]
  /\ Linked \subseteq Calls
  /\ Crashes \subseteq Procs
  /\ None \notin Calls \union Procs

Keys == {"real", "given"}

VARIABLES
  exists,    \* whether there is a file
  alive,     \* the processes that run
  pc,        \* where each call is
  key,       \* its key
  previous,  \* the call it waits for in its process
  tail,      \* fileMutationQueues of each process
  made,      \* the call that made the lock directory
  owner,     \* the process that owner.json names
  old,       \* whether the directory is older than OWNERLESS_LOCK_STALE_MS
  \* History, which only the properties read:
  before,    \* the calls that had joined the queue of each call before it did
  seen,      \* the call that made the lock each call found dead or stale
  raced,     \* the keys of which a lock was removed that was not the one looked at
  kept       \* the calls whose rm of their own lock failed

queueVars == <<key, previous, tail, before>>
lockVars  == <<made, owner, old>>
raceVars  == <<seen, raced, kept>>
vars == <<exists, alive, pc, queueVars, lockVars, raceVars>>

Init ==
  /\ exists \in BOOLEAN
  /\ alive = Procs
  /\ pc = [c \in Calls |-> "idle"]
  /\ key = [c \in Calls |-> "real"]
  /\ previous = [c \in Calls |-> None]
  /\ tail = [p \in Procs |-> [k \in Keys |-> None]]
  /\ made = [k \in Keys |-> None]
  /\ owner = [k \in Keys |-> None]
  /\ old = [k \in Keys |-> FALSE]
  /\ before = [c \in Calls |-> {}]
  /\ seen = [c \in Calls |-> None]
  /\ raced = {}
  /\ kept = {}

Ended(c) == pc[c] \in {"done", "dead"}

\* A step of c, whose process runs.
At(c, from) == pc[c] = from /\ ProcOf[c] \in alive
Go(c, to) == pc' = [pc EXCEPT ![c] = to]

-----------------------------------------------------------------------------
(* The queue of a process *)

\* getMutationQueueKey
KeyOf(c) == IF c \in Linked /\ ~exists THEN "given" ELSE "real"

\* The registration, one at a time: the key is found and the chain extended.
Register(c) ==
  /\ At(c, "idle")
  /\ Go(c, "queued")
  /\ key' = [key EXCEPT ![c] = KeyOf(c)]
  /\ previous' = [previous EXCEPT ![c] = tail[ProcOf[c]][KeyOf(c)]]
  /\ tail' = [tail EXCEPT ![ProcOf[c]][KeyOf(c)] = c]
  /\ before' = [before EXCEPT ![c] =
       {d \in Calls : pc[d] # "idle" /\ ProcOf[d] = ProcOf[c] /\ key[d] = KeyOf(c)}]
  /\ UNCHANGED <<exists, alive, lockVars, raceVars>>

\* The calls before it have left.
Enter(c) ==
  /\ At(c, "queued")
  /\ previous[c] # None => Ended(previous[c])
  /\ Go(c, "making")
  /\ UNCHANGED <<exists, alive, queueVars, lockVars, raceVars>>

-----------------------------------------------------------------------------
(* acquireFileMutationLock *)

\* mkdir: the directory is made, somebody has it, or it fails and the call with it.
Make(c) ==
  /\ At(c, "making")
  /\ \/ /\ made[key[c]] = None
        /\ Go(c, "naming")
        /\ made' = [made EXCEPT ![key[c]] = c]
        /\ UNCHANGED <<owner, old>>
     \/ /\ made[key[c]] # None
        /\ Go(c, "checking")
        /\ UNCHANGED lockVars
     \/ /\ Go(c, "leaving")
        /\ UNCHANGED lockVars
  /\ UNCHANGED <<exists, alive, queueVars, raceVars>>

\* rm -r of the lock directory, whoever made it.
RemoveLock(k) ==
  /\ made' = [made EXCEPT ![k] = None]
  /\ owner' = [owner EXCEPT ![k] = None]
  /\ old' = [old EXCEPT ![k] = FALSE]

\* The rm fails: the directory stays, with owner.json or without.
FailRemoval(k) ==
  /\ made[k] # None
  /\ \/ UNCHANGED <<owner, old>>
     \/ /\ owner' = [owner EXCEPT ![k] = None]
        /\ old' = [old EXCEPT ![k] = FALSE]
  /\ UNCHANGED made

\* c removes the lock it made, or what is in its place.  A failure is ignored.
GiveBack(c) ==
  /\ \/ RemoveLock(key[c]) /\ UNCHANGED kept
     \/ FailRemoval(key[c]) /\ kept' = kept \union {c}
  /\ UNCHANGED <<seen, raced>>

\* owner.json is written into the directory that is there, or it cannot be, and
\* what is there is removed.
Name(c) ==
  /\ At(c, "naming")
  /\ \/ /\ made[key[c]] # None
        /\ Go(c, "running")
        /\ owner' = [owner EXCEPT ![key[c]] = ProcOf[c]]
        /\ old' = [old EXCEPT ![key[c]] = FALSE]
        /\ UNCHANGED <<made, raceVars>>
     \/ /\ Go(c, "leaving")
        /\ GiveBack(c)
  /\ UNCHANGED <<exists, alive, queueVars>>

\* c has found the lock that is there dead or stale, and goes on to remove it.
Condemn(c) ==
  /\ Go(c, "removing")
  /\ seen' = [seen EXCEPT ![c] = made[key[c]]]
  /\ UNCHANGED <<raced, kept>>

\* Mutant: an owner that cannot be read is taken for a dead one.
ReadOwnerHasty(c) ==
  /\ At(c, "checking")
  /\ IF owner[key[c]] \in alive
     THEN Go(c, "waiting") /\ UNCHANGED raceVars
     ELSE Condemn(c)
  /\ UNCHANGED <<exists, alive, queueVars, lockVars>>

\* readLockOwner and isProcessAlive
ReadOwner(c) ==
  /\ At(c, "checking")
  /\ \/ owner[key[c]] = None /\ Go(c, "stating") /\ UNCHANGED raceVars
     \/ owner[key[c]] \in alive /\ Go(c, "waiting") /\ UNCHANGED raceVars
     \/ owner[key[c]] \in Procs \ alive /\ Condemn(c)
  /\ UNCHANGED <<exists, alive, queueVars, lockVars>>

\* stat of a directory without an owner: gone, old, or perhaps about to get one.
Stat(c) ==
  /\ At(c, "stating")
  /\ \/ made[key[c]] = None /\ Go(c, "making") /\ UNCHANGED raceVars
     \/ made[key[c]] # None /\ old[key[c]] /\ Condemn(c)
     \/ made[key[c]] # None /\ ~old[key[c]] /\ Go(c, "waiting") /\ UNCHANGED raceVars
  /\ UNCHANGED <<exists, alive, queueVars, lockVars>>

\* rm of the dead or stale lock: of whatever is there by now.  If it fails, so
\* does the call.
Remove(c) ==
  /\ At(c, "removing")
  /\ \/ Go(c, "making") /\ RemoveLock(key[c])
     \/ Go(c, "leaving") /\ FailRemoval(key[c])
  /\ seen' = [seen EXCEPT ![c] = None]
  /\ raced' = IF made[key[c]] \in {None, seen[c]} THEN raced ELSE raced \union {key[c]}
  /\ UNCHANGED <<exists, alive, queueVars, kept>>

\* LOCK_POLL_MS later
Poll(c) ==
  /\ At(c, "waiting")
  /\ Go(c, "making")
  /\ UNCHANGED <<exists, alive, queueVars, lockVars, raceVars>>

\* Mutant: the call that gives up does not leave the queue.
GiveUpQueued(c) ==
  /\ At(c, "waiting")
  /\ Go(c, "stuck")
  /\ UNCHANGED <<exists, alive, queueVars, lockVars, raceVars>>

\* LOCK_WAIT_TIMEOUT_MS have passed.
GiveUp(c) ==
  /\ At(c, "waiting")
  /\ Go(c, "leaving")
  /\ UNCHANGED <<exists, alive, queueVars, lockVars, raceVars>>

-----------------------------------------------------------------------------
(* The end of a call *)

\* fn opens a file that was not there; it has yet to write it.
Create(c) ==
  /\ At(c, "running")
  /\ ~exists
  /\ exists' = TRUE
  /\ UNCHANGED <<alive, pc, queueVars, lockVars, raceVars>>

\* fn has written the file, or has thrown.
Finish(c) ==
  /\ At(c, "running")
  /\ Go(c, "releasing")
  /\ UNCHANGED <<exists, alive, queueVars, lockVars, raceVars>>

\* Mutant: a call that has thrown keeps the lock.
ReleaseUnlessThrown(c) ==
  /\ At(c, "releasing")
  /\ Go(c, "leaving")
  /\ IF exists THEN GiveBack(c) ELSE UNCHANGED <<lockVars, raceVars>>
  /\ UNCHANGED <<exists, alive, queueVars>>

\* releaseLock
Release(c) ==
  /\ At(c, "releasing")
  /\ Go(c, "leaving")
  /\ GiveBack(c)
  /\ UNCHANGED <<exists, alive, queueVars>>

\* Mutant: the end of a call deletes the map entry of those behind it.
LeaveDeleting(c) ==
  /\ At(c, "leaving")
  /\ Go(c, "done")
  /\ tail' = [tail EXCEPT ![ProcOf[c]][key[c]] = None]
  /\ UNCHANGED <<exists, alive, key, previous, before, lockVars, raceVars>>

\* releaseNext, and the end of the chain deletes the map entry.
Leave(c) ==
  /\ At(c, "leaving")
  /\ Go(c, "done")
  /\ tail' = [tail EXCEPT ![ProcOf[c]][key[c]] = IF @ = c THEN None ELSE @]
  /\ UNCHANGED <<exists, alive, key, previous, before, lockVars, raceVars>>

-----------------------------------------------------------------------------
(* The world *)

\* A process dies, wherever its calls are.
Crash(p) ==
  /\ p \in Crashes \intersect alive
  /\ alive' = alive \ {p}
  /\ pc' = [c \in Calls |-> IF ProcOf[c] = p /\ pc[c] # "done" THEN "dead" ELSE pc[c]]
  /\ UNCHANGED <<exists, queueVars, lockVars, raceVars>>

\* A directory without owner.json gets old: its maker died before it wrote it, or
\* an rm went half-way.  A process that runs takes less than
\* OWNERLESS_LOCK_STALE_MS to write it.
Age(k) ==
  /\ made[k] # None
  /\ pc[made[k]] # "naming"
  /\ owner[k] = None
  /\ old' = [old EXCEPT ![k] = TRUE]
  /\ UNCHANGED <<exists, alive, pc, queueVars, made, owner, raceVars>>

QueueStep(c) == Register(c) \/ Enter(c) \/ Leave(c)
LockStep(c) ==
  Make(c) \/ Name(c) \/ ReadOwner(c) \/ Stat(c) \/ Remove(c) \/ Poll(c) \/ GiveUp(c)
    \/ Create(c) \/ Finish(c) \/ Release(c)

Next ==
  \/ \E c \in Calls : QueueStep(c) \/ LockStep(c)
  \/ \E p \in Procs : Crash(p)
  \/ \E k \in Keys : Age(k)

Spec == Init /\ [][Next]_vars

\* A process that runs goes on, its writes end, and time passes: who keeps
\* waiting reaches the deadline.
Fairness ==
  /\ \A c \in Calls :
       /\ WF_vars(Enter(c) \/ Leave(c) \/ LockStep(c))
       /\ SF_vars(GiveUp(c))
  /\ \A k \in Keys : WF_vars(Age(k))
FairSpec == Spec /\ Fairness

-----------------------------------------------------------------------------
(* Properties *)

\* Every variable stays in the range the code gives it.
TypeOK ==
  /\ exists \in BOOLEAN
  /\ alive \subseteq Procs
  /\ pc \in [Calls -> {"idle", "queued", "making", "naming", "checking", "stating", "removing",
                       "waiting", "running", "releasing", "leaving", "done", "dead"}]
  /\ key \in [Calls -> Keys]
  /\ previous \in [Calls -> Calls \union {None}]
  /\ tail \in [Procs -> [Keys -> Calls \union {None}]]
  /\ made \in [Keys -> Calls \union {None}]
  /\ owner \in [Keys -> Procs \union {None}]
  /\ old \in [Keys -> BOOLEAN]
  /\ before \in [Calls -> SUBSET Calls]
  /\ seen \in [Calls -> Calls \union {None}]
  /\ raced \subseteq Keys
  /\ kept \subseteq Calls

Holding(c) == pc[c] \in {"naming", "running", "releasing"}

\* Calls that know the file by one key, of whichever processes, write it one at
\* a time, until a process that had found a lock dead or stale removed another that
\* was there by then.  That takes a lock that was left behind, by a process that died
\* or by an rm that failed.
OneRuns ==
  /\ \A c, d \in Calls :
       pc[c] = "running" /\ pc[d] = "running" /\ key[c] = key[d] /\ c # d => key[c] \in raced
  /\ raced # {} => alive # Procs \/ kept # {}

\* A call is not at the lock before every call of its process that had joined the
\* queue of that file before it has ended: also when calls in between gave up or
\* threw, and when the end of the chain was deleted and begun again.
InOrder ==
  \A c \in Calls : pc[c] \notin {"idle", "queued"} => \A d \in before[c] : Ended(d)

\* A directory whose call is through is that of a process that died, or one whose
\* rm failed: a call that throws or cannot write owner.json leaves none, nor does
\* one whose lock was removed under it.
NoLockLeft ==
  \A k \in Keys : made[k] # None =>
    Holding(made[k]) \/ ProcOf[made[k]] \notin alive \/ made[k] \in kept

\* A call of a process that runs comes to its end, even when the owner of the
\* lock has died with it.
CallsEnd ==
  \A c \in Calls : (pc[c] = "queued") ~> Ended(c)
=============================================================================
