------------------------- MODULE DelegationRuntime -------------------------
(***************************************************************************)
(* DelegationRuntime.runChild: the child agents that delegate_task starts. *)
(* A call checks its budgets, stores a record, counts itself as active,    *)
(* runs the child, and stores and announces the outcome.  The records are  *)
(* files, rewritten in place: one that is being written cannot be read,    *)
(* and FileDelegationStore.list leaves it out.                             *)
(*                                                                         *)
(* The token and the cost budget are one: a completed run uses one unit.   *)
(***************************************************************************)
EXTENDS Integers, Sequences, FiniteSets

CONSTANTS Runs,         \* the calls of runChild
          ThreadOf,     \* the parent thread of each
          MaxParallel,  \* the budgets; 0 is no budget
          MaxChildRuns,
          MaxUsage,
          Asks,         \* the runs whose child uses a tool that needs an approval
          Faults,       \* whether stores and event logs may fail
          MaxRestarts   \* bound: restarts of the runtime

ASSUME DelegationAssumption ==
  /\ DOMAIN ThreadOf = Runs
  /\ IsFiniteSet(Runs)
  /\ {MaxParallel, MaxChildRuns, MaxUsage, MaxRestarts} \subseteq Nat
  /\ Asks \subseteq Runs
  /\ Faults \in BOOLEAN

VARIABLES
  active,      \* DelegationRuntime.active
  pc,          \* where each call is
  status,      \* the status in its own copy of the record
  file,        \* the status in the stored record, or that there is none to read
  signal,      \* whether the parent or the timeout has aborted the run
  told,        \* the outcomes announced in the parent's event log
  overlapped,  \* history: two calls were between the first check and the count at once
  restarts     \* bound: the restarts so far

vars == <<active, pc, status, file, signal, told, overlapped, restarts>>

Init ==
  /\ active = 0
  /\ pc = [r \in Runs |-> "idle"]
  /\ status = [r \in Runs |-> "running"]
  /\ file = [r \in Runs |-> "none"]
  /\ signal = [r \in Runs |-> FALSE]
  /\ told = [r \in Runs |-> <<>>]
  /\ overlapped = FALSE
  /\ restarts = 0

Admission == {"listing", "admitted", "creating", "starting"}
Inside == {"running", "asking", "closing", "storing", "reporting", "accounting", "auditing",
           "failing", "failStoring", "failReporting"}
Over == {"refused", "returned", "thrown", "dead"}

Go(r, to) == pc' = [pc EXCEPT ![r] = to]

-----------------------------------------------------------------------------
(* Budgets *)

ParallelSpent == MaxParallel > 0 /\ active >= MaxParallel

\* store.list: the records of the thread that can be read.
Records(t) == {r \in Runs : ThreadOf[r] = t /\ file[r] \notin {"none", "torn"}}
Used(t) == Cardinality({r \in Records(t) : file[r] = "completed"})

\* budgetStopForRecords
BudgetStop(t) ==
  \/ MaxChildRuns > 0 /\ Cardinality(Records(t)) >= MaxChildRuns
  \/ ParallelSpent
  \/ MaxUsage > 0 /\ Used(t) >= MaxUsage

\* The call begins: the parallel budget is looked at.
Call(r) ==
  /\ pc[r] = "idle"
  /\ Go(r, IF ParallelSpent THEN "refused" ELSE "listing")
  /\ overlapped' = (overlapped \/ (~ParallelSpent /\ \E q \in Runs : pc[q] \in Admission))
  /\ UNCHANGED <<active, status, file, signal, told, restarts>>

\* The records have been listed: all budgets are looked at.
List(r) ==
  /\ pc[r] = "listing"
  /\ Go(r, IF BudgetStop(ThreadOf[r]) THEN "refused" ELSE "admitted")
  /\ UNCHANGED <<active, status, file, signal, told, overlapped, restarts>>

-----------------------------------------------------------------------------
(* The record and the events *)

\* The places where the record is stored, and where it is while it is written.
Writing == [admitted |-> "creating", closing |-> "storing", failing |-> "failStoring"]
Written == [creating |-> "starting", storing |-> "reporting", failStoring |-> "failReporting"]

\* upsert opens the file, and empties it.
BeginWrite(r) ==
  /\ pc[r] \in DOMAIN Writing
  /\ Go(r, Writing[pc[r]])
  /\ file' = [file EXCEPT ![r] = "torn"]
  /\ UNCHANGED <<active, status, signal, told, overlapped, restarts>>

\* The file holds the record.
EndWrite(r) ==
  /\ pc[r] \in DOMAIN Written
  /\ Go(r, Written[pc[r]])
  /\ file' = [file EXCEPT ![r] = status[r]]
  /\ UNCHANGED <<active, status, signal, told, overlapped, restarts>>

Tell(r) == told' = [told EXCEPT ![r] = Append(@, status[r])]

\* turn_started is recorded, and the run is counted.
Start(r) ==
  /\ pc[r] = "starting"
  /\ Go(r, "running")
  /\ active' = active + 1
  /\ UNCHANGED <<status, file, signal, told, overlapped, restarts>>

\* Mutant: the count is taken back by a call that never got to it.
FailStartUncounted(r) ==
  /\ Faults
  /\ pc[r] \in Admission
  /\ Go(r, "thrown")
  /\ active' = active - 1
  /\ UNCHANGED <<status, file, signal, told, overlapped, restarts>>

\* A store or the event log fails before the run is counted.
FailStart(r) ==
  /\ Faults
  /\ pc[r] \in Admission
  /\ Go(r, "thrown")
  /\ UNCHANGED <<active, status, file, signal, told, overlapped, restarts>>

-----------------------------------------------------------------------------
(* The run *)

\* The parent turn is interrupted, or the run times out.
Abort(r) ==
  /\ pc[r] \notin Over \union {"idle"}
  /\ ~signal[r]
  /\ signal' = [signal EXCEPT ![r] = TRUE]
  /\ UNCHANGED <<active, pc, status, file, told, overlapped, restarts>>

\* A tool of the child waits at the approval gate of its own loop, which no
\* client and no signal reaches.
Ask(r) ==
  /\ pc[r] = "running"
  /\ r \in Asks
  /\ Go(r, "asking")
  /\ UNCHANGED <<active, status, file, signal, told, overlapped, restarts>>

\* The executor has a summary.
Resolve(r) ==
  /\ pc[r] = "running"
  /\ Go(r, "closing")
  /\ status' = [status EXCEPT ![r] = "completed"]
  /\ UNCHANGED <<active, file, signal, told, overlapped, restarts>>

\* The catch: the executor rejects, or what follows its success does.
Reject(r) ==
  /\ \/ pc[r] = "running"
     \/ Faults /\ pc[r] \in {"closing", "storing", "reporting", "accounting", "auditing"}
  /\ Go(r, "failing")
  /\ status' = [status EXCEPT ![r] = IF signal[r] THEN "aborted" ELSE "failed"]
  /\ UNCHANGED <<active, file, signal, told, overlapped, restarts>>

\* turn_completed is recorded.
Report(r) ==
  /\ pc[r] = "reporting"
  /\ Go(r, "accounting")
  /\ Tell(r)
  /\ UNCHANGED <<active, status, file, signal, overlapped, restarts>>

\* The usage has been added to the parent's.
Account(r) ==
  /\ pc[r] = "accounting"
  /\ Go(r, "auditing")
  /\ UNCHANGED <<active, status, file, signal, told, overlapped, restarts>>

\* The finally: the run is no longer counted.
Leave(r, to) ==
  /\ Go(r, to)
  /\ active' = active - 1

\* The budgets have been looked at again, and the record is returned.
Return(r) ==
  /\ pc[r] = "auditing"
  /\ Leave(r, "returned")
  /\ UNCHANGED <<status, file, signal, told, overlapped, restarts>>

\* Mutants: the failed run is not taken from the count; its outcome is not announced.
ReturnFailedCounted(r) ==
  /\ pc[r] = "failReporting"
  /\ Go(r, "returned")
  /\ Tell(r)
  /\ UNCHANGED <<active, status, file, signal, overlapped, restarts>>
ReturnFailedSilent(r) ==
  /\ pc[r] = "failReporting"
  /\ Leave(r, "returned")
  /\ UNCHANGED <<status, file, signal, told, overlapped, restarts>>

\* turn_failed or turn_aborted is recorded, and the record is returned.
ReturnFailed(r) ==
  /\ pc[r] = "failReporting"
  /\ Leave(r, "returned")
  /\ Tell(r)
  /\ UNCHANGED <<status, file, signal, overlapped, restarts>>

\* A store or the event log fails in the catch.
Throw(r) ==
  /\ Faults
  /\ pc[r] \in {"failing", "failStoring", "failReporting"}
  /\ Leave(r, "thrown")
  /\ UNCHANGED <<status, file, signal, told, overlapped, restarts>>

\* The runtime dies and is started again: the files are left as they are.
Restart ==
  /\ restarts < MaxRestarts
  /\ restarts' = restarts + 1
  /\ active' = 0
  /\ pc' = [r \in Runs |-> IF pc[r] \in Admission \union Inside THEN "dead" ELSE pc[r]]
  /\ UNCHANGED <<status, file, signal, told, overlapped>>

Step(r) ==
  \/ List(r) \/ BeginWrite(r) \/ EndWrite(r) \/ Start(r) \/ FailStart(r)
  \/ Resolve(r) \/ Reject(r) \/ Report(r) \/ Account(r) \/ Return(r)
  \/ ReturnFailed(r) \/ Throw(r)

Next == Restart \/ \E r \in Runs : Call(r) \/ Abort(r) \/ Ask(r) \/ Step(r)

Spec == Init /\ [][Next]_vars

\* Promises settle, and a child that waits for nobody ends.
FairSpec == Spec /\ \A r \in Runs : WF_vars(Step(r))

-----------------------------------------------------------------------------
(* Properties *)

\* Every variable stays in the range the code gives it.
TypeOK ==
  /\ active \in Nat
  /\ pc \in [Runs -> {"idle"} \union Admission \union Inside \union Over]
  /\ status \in [Runs -> {"running", "completed", "failed", "aborted"}]
  /\ file \in [Runs -> {"none", "torn", "running", "completed", "failed", "aborted"}]
  /\ signal \in [Runs -> BOOLEAN]
  /\ told \in [Runs -> Seq({"completed", "failed", "aborted"})]
  /\ overlapped \in BOOLEAN
  /\ restarts \in Nat

\* The runs that are under way.
Running == {r \in Runs : pc[r] \in Inside}

\* However runs end, and whichever store fails on the way, the count is the
\* number of runs under way: no slot of the parallel budget leaks.
ActiveCounts == active = Cardinality(Running)

\* As long as no two calls are between the first check and the count at once, the
\* parallel budget holds.
ParallelBudgetIfSerial ==
  ~overlapped /\ MaxParallel > 0 => Cardinality(Running) <= MaxParallel

\* What a call returns, what the store holds and what the parent's log said last
\* about the run are one outcome.
OutcomeAgrees ==
  \A r \in Runs : pc[r] = "returned" =>
    /\ status[r] # "running"
    /\ file[r] = status[r]
    /\ told[r] # <<>> /\ told[r][Len(told[r])] = status[r]
=============================================================================
