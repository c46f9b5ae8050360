--------------------------- MODULE ThreadUpdates ---------------------------
(***************************************************************************)
(* The writers of one thread record.  TurnService.upsertThread reads the   *)
(* record, mutates the copy and stores it, and keeps its callers apart by  *)
(* a chain of promises: the map threadMutationQueues holds the end of the  *)
(* thread's chain.  ThreadService, the goal and the budget code of         *)
(* AgentLoop read and store the same record outside the chain.             *)
(*                                                                         *)
(* The record is the sequence of the updates it holds; what an update      *)
(* changes is left out.                                                    *)
(***************************************************************************)
EXTENDS Naturals, Sequences, FiniteSets

CONSTANTS Updates,   \* the calls that update the record
          Direct,    \* those that do it outside the chain
          NoUpdate   \* undefined

ASSUME UpdateAssumption ==
  /\ Direct \subseteq Updates
  /\ NoUpdate \notin Updates

VARIABLES
  record,    \* the stored record
  tail,      \* threadMutationQueues.get(threadId)
  previous,  \* what each call of upsertThread waits for
  pc,        \* where each call is
  snapshot,  \* the copy it mutates
  before     \* history: the calls that were queued before it

vars == <<record, tail, previous, pc, snapshot, before>>

Queued == Updates \ Direct

Init ==
  /\ record = <<>>
  /\ tail = NoUpdate
  /\ previous = [u \in Updates |-> NoUpdate]
  /\ pc = [u \in Updates |-> "idle"]
  /\ snapshot = [u \in Updates |-> <<>>]
  /\ before = [u \in Updates |-> {}]

\* The guard of u has resolved, whether its update was stored or failed.
Settled(u) == pc[u] \in {"settled", "done"}

\* The call joins the chain.
Enqueue(u) ==
  /\ u \in Queued
  /\ pc[u] = "idle"
  /\ pc' = [pc EXCEPT ![u] = "queued"]
  /\ previous' = [previous EXCEPT ![u] = tail]
  /\ tail' = u
  /\ before' = [before EXCEPT ![u] = {v \in Queued : pc[v] # "idle"}]
  /\ UNCHANGED <<record, snapshot>>

\* Mutants: it waits until its predecessor has begun, or until its predecessor's
\* update has been stored.
BeginEarly(u) ==
  /\ pc[u] = "queued"
  /\ previous[u] # NoUpdate => pc[previous[u]] # "queued"
  /\ pc' = [pc EXCEPT ![u] = "reading"]
  /\ UNCHANGED <<record, tail, previous, snapshot, before>>
BeginAfterSuccess(u) ==
  /\ pc[u] = "queued"
  /\ previous[u] # NoUpdate => \E i \in DOMAIN record : record[i] = previous[u]
  /\ pc' = [pc EXCEPT ![u] = "reading"]
  /\ UNCHANGED <<record, tail, previous, snapshot, before>>

\* Its predecessor has settled, and it asks for the record.
Begin(u) ==
  /\ pc[u] = "queued"
  /\ previous[u] # NoUpdate => Settled(previous[u])
  /\ pc' = [pc EXCEPT ![u] = "reading"]
  /\ UNCHANGED <<record, tail, previous, snapshot, before>>

\* A caller outside the chain asks for the record at once.
BeginDirect(u) ==
  /\ u \in Direct
  /\ pc[u] = "idle"
  /\ pc' = [pc EXCEPT ![u] = "reading"]
  /\ UNCHANGED <<record, tail, previous, snapshot, before>>

\* threadStore.get answers.
Read(u) ==
  /\ pc[u] = "reading"
  /\ pc' = [pc EXCEPT ![u] = "writing"]
  /\ snapshot' = [snapshot EXCEPT ![u] = record]
  /\ UNCHANGED <<record, tail, previous, before>>

\* threadStore.upsert stores the mutated copy.
Write(u) ==
  /\ pc[u] = "writing"
  /\ pc' = [pc EXCEPT ![u] = "settled"]
  /\ record' = Append(snapshot[u], u)
  /\ UNCHANGED <<tail, previous, snapshot, before>>

\* The store or the mutator throws, or there is no such record.
Fail(u) ==
  /\ pc[u] \in {"reading", "writing"}
  /\ pc' = [pc EXCEPT ![u] = "settled"]
  /\ UNCHANGED <<record, tail, previous, snapshot, before>>

\* Mutant: the entry is deleted whoever it belongs to.
ReleaseAny(u) ==
  /\ pc[u] = "settled"
  /\ pc' = [pc EXCEPT ![u] = "done"]
  /\ tail' = IF u \in Queued THEN NoUpdate ELSE tail
  /\ UNCHANGED <<record, previous, snapshot, before>>

\* The end of the chain deletes the map entry if it is still its own.
Release(u) ==
  /\ pc[u] = "settled"
  /\ pc' = [pc EXCEPT ![u] = "done"]
  /\ tail' = IF tail = u THEN NoUpdate ELSE tail
  /\ UNCHANGED <<record, previous, snapshot, before>>

Step(u) ==
  Enqueue(u) \/ Begin(u) \/ BeginDirect(u) \/ Read(u) \/ Write(u) \/ Fail(u) \/ Release(u)

Next == \E u \in Updates : Step(u)
Spec == Init /\ [][Next]_vars

\* Promises settle: a call that has begun goes on.
Fairness ==
  \A u \in Updates :
    WF_vars(Begin(u)) /\ WF_vars(Read(u)) /\ WF_vars(Write(u) \/ Fail(u)) /\ WF_vars(Release(u))
FairSpec == Spec /\ Fairness

-----------------------------------------------------------------------------
(* Properties *)

\* Every variable stays in the range the code gives it.
TypeOK ==
  /\ record \in Seq(Updates)
  /\ tail \in Queued \union {NoUpdate}
  /\ previous \in [Updates -> Queued \union {NoUpdate}]
  /\ pc \in [Updates -> {"idle", "queued", "reading", "writing", "settled", "done"}]
  /\ snapshot \in [Updates -> Seq(Updates)]
  /\ before \in [Updates -> SUBSET Queued]

Busy(u) == pc[u] \in {"reading", "writing"}

\* No two calls of upsertThread are between their read and their write at once,
\* however the map entry comes and goes.
QueuedAlone ==
  \A u, v \in Queued : Busy(u) /\ Busy(v) => u = v

\* The calls of upsertThread go to the store in the order they were made.
InOrder ==
  \A u \in Queued : Busy(u) \/ Settled(u) => \A v \in before[u] : Settled(v)

\* A failed update does not hold up those behind it.
QueueDrains ==
  \A u \in Queued : (pc[u] = "queued") ~> (pc[u] = "done")

\* The record changes as if each update were one step, as long as no caller
\* outside the chain has come to its end: the callers of upsertThread never lose
\* one another's updates.
Atomic == INSTANCE AtomicUpdates WITH Updates <- Updates, record <- record
AtomicUntilDirect ==
  Atomic!Init /\ [][Atomic!Next \/ \E d \in Direct : Settled(d)']_record
=============================================================================
