---------------------- MODULE DelegationRuntimeProofs ----------------------
(***************************************************************************)
(* What the loop hands to others.                                          *)
(*                                                                         *)
(* DelegationRuntime, proved for any calls, threads and budgets, with any  *)
(* failures and restarts: the count of the active runs is right, what a    *)
(* call returns is what was stored and announced, and the parallel budget  *)
(* holds as long as calls do not meet in the checks.                       *)
(*                                                                         *)
(* RequestHistory, proved for any turns, calls, folds and faults: each     *)
(* request leaves a file, and sends messages, in which every call has its  *)
(* result. Neither needs to know how the history came about: the repair    *)
(* of any sequence of items is paired, and what is sent of one is valid.   *)
(***************************************************************************)
EXTENDS DelegationRuntime, RequestHistory, FiniteSetTheorems, SequenceTheorems,
        WellFoundedInduction, TLAPS

USE DEF Admission, Inside, Over

-----------------------------------------------------------------------------
(* The variables' types, and how the copy, the file and the log of a run go *)
(* together at each place of the call.                                      *)

Outcomes == {"completed", "failed", "aborted"}

\* TypeOK without the count, which needs to know that nothing is taken from it twice.
TypesOK ==
  /\ active \in Int
  /\ pc \in [Runs -> {"idle"} \union Admission \union Inside \union Over]
  /\ status \in [Runs -> {"running"} \union Outcomes]
  /\ file \in [Runs -> {"none", "torn", "running"} \union Outcomes]
  /\ signal \in [Runs -> BOOLEAN]
  /\ told \in [Runs -> Seq(Outcomes)]
  /\ overlapped \in BOOLEAN
  /\ restarts \in Nat

Agrees(r) ==
  /\ pc[r] \in {"closing", "storing", "reporting", "accounting", "auditing"} =>
       status[r] = "completed"
  /\ pc[r] \in {"failing", "failStoring", "failReporting"} => status[r] \in {"failed", "aborted"}
  /\ pc[r] \in {"reporting", "accounting", "auditing", "failReporting", "returned"} =>
       file[r] = status[r]
  /\ pc[r] \in {"auditing", "returned", "accounting"} =>
       status[r] # "running" /\ told[r] # <<>> /\ told[r][Len(told[r])] = status[r]

RunInv == TypesOK /\ \A r \in Runs : Agrees(r)

LEMMA RunInit == Init => RunInv
<1> SUFFICES ASSUME Init PROVE RunInv
  OBVIOUS
<1>1. <<>> \in Seq(Outcomes)
  OBVIOUS
<1>2. TypesOK
  <2>1. told \in [Runs -> Seq(Outcomes)]
    BY <1>1, Zenon DEF Init
  <2>2. /\ active = 0 /\ restarts = 0 /\ overlapped = FALSE
        /\ pc = [r \in Runs |-> "idle"] /\ status = [r \in Runs |-> "running"]
        /\ file = [r \in Runs |-> "none"] /\ signal = [r \in Runs |-> FALSE]
    BY DEF Init
  <2>3. pc \in [Runs -> {"idle"} \union Admission \union Inside \union Over]
    BY <2>2
  <2>4. /\ status \in [Runs -> {"running"} \union Outcomes]
        /\ file \in [Runs -> {"none", "torn", "running"} \union Outcomes]
    BY <2>2
  <2>5. signal \in [Runs -> BOOLEAN]
    BY <2>2, Zenon
  <2>6. overlapped \in BOOLEAN
    BY <2>2, Zenon
  <2>7. active \in Int /\ restarts \in Nat
    BY <2>2
  <2> QED
    BY <2>1, <2>3, <2>4, <2>5, <2>6, <2>7 DEF TypesOK
<1>3. \A r \in Runs : Agrees(r)
  BY DEF Init, Agrees
<1> QED
  BY <1>2, <1>3 DEF RunInv

\* What Append puts at the end.
LEMMA AppendLast ==
  ASSUME NEW S, NEW s \in Seq(S), NEW e \in S
  PROVE  /\ Append(s, e) \in Seq(S) /\ Append(s, e) # <<>>
         /\ Append(s, e)[Len(Append(s, e))] = e
  OBVIOUS

\* The actions that leave every run but r alone.
OthersKept(r) ==
  \A q \in Runs \ {r} : pc'[q] = pc[q] /\ status'[q] = status[q] /\ file'[q] = file[q] /\ told'[q] = told[q]

LEMMA OthersAgree ==
  ASSUME RunInv, NEW r \in Runs, OthersKept(r), TypesOK', Agrees(r)'
  PROVE  RunInv'
<1>1. ASSUME NEW q \in Runs \ {r} PROVE Agrees(q)'
  BY DEF RunInv, OthersKept, Agrees
<1> QED
  BY <1>1 DEF RunInv

LEMMA RunStep == RunInv /\ [Next]_vars => RunInv'
<1> SUFFICES ASSUME RunInv, [Next]_vars PROVE RunInv'
  OBVIOUS
<1>t. TypesOK /\ \A r \in Runs : Agrees(r)
  BY DEF RunInv
<1>1. CASE UNCHANGED vars
  BY <1>1 DEF vars, RunInv, TypesOK, Agrees
<1>2. CASE Restart
  <2>1. TypesOK'
    BY <1>t, <1>2 DEF Restart, TypesOK
  <2>2. ASSUME NEW r \in Runs PROVE Agrees(r)'
    BY <1>t, <1>2 DEF Restart, TypesOK, Agrees
  <2> QED
    BY <2>1, <2>2 DEF RunInv
<1>3. ASSUME NEW r \in Runs, Call(r) \/ Abort(r) \/ Ask(r) \/ Step(r) PROVE RunInv'
  <2>a. Agrees(r) /\ pc[r] \in {"idle"} \union Admission \union Inside \union Over
    BY <1>t DEF TypesOK
  <2>1. CASE Call(r) \/ List(r) \/ FailStart(r)
    <3>1. TypesOK' /\ OthersKept(r)
      BY <1>t, <2>1 DEF Call, List, FailStart, Go, TypesOK, OthersKept
    <3>2. Agrees(r)'
      BY <1>t, <2>a, <2>1 DEF Call, List, FailStart, Go, TypesOK, Agrees
    <3> QED
      BY <3>1, <3>2, OthersAgree
  <2>2. CASE Abort(r)
    BY <1>t, <2>2 DEF Abort, TypesOK, RunInv, Agrees
  <2>3. CASE Ask(r) \/ Start(r) \/ Account(r)
    <3>1. TypesOK' /\ OthersKept(r)
      BY <1>t, <2>3 DEF Ask, Start, Account, Go, TypesOK, OthersKept
    <3>2. Agrees(r)'
      BY <1>t, <2>a, <2>3 DEF Ask, Start, Account, Go, TypesOK, Agrees
    <3> QED
      BY <3>1, <3>2, OthersAgree
  <2>4. CASE BeginWrite(r)
    <3>1. pc'[r] = Writing[pc[r]] /\ Writing[pc[r]] \in {"creating", "storing", "failStoring"}
          /\ (pc[r] = "closing" <=> pc'[r] = "storing") /\ (pc[r] = "failing" <=> pc'[r] = "failStoring")
      BY <1>t, <2>4 DEF BeginWrite, Writing, Go, TypesOK
    <3>2. TypesOK' /\ OthersKept(r)
      BY <1>t, <2>4, <3>1 DEF BeginWrite, Go, TypesOK, OthersKept
    <3>3. Agrees(r)'
      BY <2>a, <2>4, <3>1 DEF BeginWrite, Agrees
    <3> QED
      BY <3>2, <3>3, OthersAgree
  <2>5. CASE EndWrite(r)
    <3>1. pc'[r] = Written[pc[r]] /\ Written[pc[r]] \in {"starting", "reporting", "failReporting"}
          /\ (pc[r] = "storing" <=> pc'[r] = "reporting")
          /\ (pc[r] = "failStoring" <=> pc'[r] = "failReporting")
      BY <1>t, <2>5 DEF EndWrite, Written, Go, TypesOK
    <3>2. TypesOK' /\ OthersKept(r) /\ file'[r] = status[r]
      BY <1>t, <2>5, <3>1 DEF EndWrite, Go, TypesOK, OthersKept
    <3>3. Agrees(r)'
      BY <2>a, <2>5, <3>1, <3>2 DEF EndWrite, Agrees
    <3> QED
      BY <3>2, <3>3, OthersAgree
  <2>6. CASE Resolve(r) \/ Reject(r)
    <3>1. TypesOK' /\ OthersKept(r)
      BY <1>t, <2>6 DEF Resolve, Reject, Go, TypesOK, OthersKept, Outcomes
    <3>2. Agrees(r)'
      BY <1>t, <2>a, <2>6 DEF Resolve, Reject, Go, TypesOK, Agrees
    <3> QED
      BY <3>1, <3>2, OthersAgree
  <2>7. CASE Report(r) \/ ReturnFailed(r)
    <3>1. status[r] \in Outcomes /\ told[r] \in Seq(Outcomes)
      BY <1>t, <2>a, <2>7 DEF Report, ReturnFailed, TypesOK, Agrees, Outcomes
    <3>2. /\ told'[r] \in Seq(Outcomes) /\ told'[r] # <<>>
          /\ told'[r][Len(told'[r])] = status[r]
      <4>1. told'[r] = Append(told[r], status[r])
        BY <1>t, <2>7 DEF Report, ReturnFailed, Tell, TypesOK
      <4> QED
        BY <3>1, <4>1, AppendLast
    <3>3. TypesOK' /\ OthersKept(r)
      <4>1. CASE Report(r)
        BY <1>t, <4>1, <3>2 DEF Report, Tell, Go, TypesOK, OthersKept
      <4>2. CASE ReturnFailed(r)
        BY <1>t, <4>2, <3>2 DEF ReturnFailed, Leave, Tell, Go, TypesOK, OthersKept
      <4> QED
        BY <2>7, <4>1, <4>2
    <3>4. Agrees(r)'
      BY <1>t, <2>a, <2>7, <3>1, <3>2 DEF Report, ReturnFailed, Leave, Go, TypesOK, Agrees, Outcomes
    <3> QED
      BY <3>3, <3>4, OthersAgree
  <2>8. CASE Return(r) \/ Throw(r)
    <3>1. TypesOK' /\ OthersKept(r)
      <4>1. CASE Return(r)
        BY <1>t, <4>1 DEF Return, Leave, Go, TypesOK, OthersKept
      <4>2. CASE Throw(r)
        BY <1>t, <4>2 DEF Throw, Leave, Go, TypesOK, OthersKept
      <4> QED
        BY <2>8, <4>1, <4>2
    <3>2. Agrees(r)'
      BY <1>t, <2>a, <2>8 DEF Return, Throw, Leave, Go, TypesOK, Agrees
    <3> QED
      BY <3>1, <3>2, OthersAgree
  <2> QED
    BY <1>3, <2>1, <2>2, <2>3, <2>4, <2>5, <2>6, <2>7, <2>8 DEF Step
<1> QED
  BY <1>1, <1>2, <1>3 DEF Next

\* For any calls, budgets, failures and restarts, the record a call of runChild
\* returns, the one it stored and the outcome it announced last are the same.
THEOREM Agreed == Spec => []OutcomeAgrees
<1>1. RunInv => OutcomeAgrees
  BY DEF RunInv, Agrees, OutcomeAgrees
<1> QED
  BY <1>1, RunInit, RunStep, PTL DEF Spec

-----------------------------------------------------------------------------
(* The count *)

CountInv == RunInv /\ ActiveCounts

LEMMA RunsFinite == IsFiniteSet(Running) /\ Cardinality(Running) \in Nat
<1>1. Running \in SUBSET Runs
  BY DEF Running
<1> QED
  BY <1>1, DelegationAssumption, FS_Subset, FS_CardinalityType

LEMMA CountInit == Init => CountInv
<1> SUFFICES ASSUME Init PROVE ActiveCounts
  BY RunInit DEF CountInv
<1>1. Running = {}
  BY DEF Init, Running
<1> QED
  BY <1>1, FS_EmptySet DEF Init, ActiveCounts

LEMMA CountStep == CountInv /\ [Next]_vars => CountInv'
<1> SUFFICES ASSUME CountInv, [Next]_vars PROVE ActiveCounts'
  BY RunStep DEF CountInv
<1>t. TypesOK /\ active = Cardinality(Running)
  BY DEF CountInv, RunInv, ActiveCounts
<1>f. IsFiniteSet(Running) /\ Cardinality(Running) \in Nat
  BY RunsFinite
<1>1. CASE UNCHANGED vars
  BY <1>1, <1>t DEF vars, ActiveCounts, Running
<1>2. CASE Restart
  <2>1. Running' = {} /\ active' = 0
    BY <1>t, <1>2 DEF Restart, Running, TypesOK
  <2> QED
    BY <2>1, FS_EmptySet DEF ActiveCounts
<1>3. ASSUME NEW r \in Runs, Call(r) \/ Abort(r) \/ Ask(r) \/ Step(r) PROVE ActiveCounts'
  <2>1. CASE Call(r) \/ List(r) \/ FailStart(r) \/ Abort(r) \/ Ask(r) \/ BeginWrite(r)
             \/ EndWrite(r) \/ Resolve(r) \/ Reject(r) \/ Report(r) \/ Account(r)
    <3>1. active' = active
      BY <2>1 DEF Call, List, FailStart, Abort, Ask, BeginWrite, EndWrite, Resolve, Reject, Report, Account
    <3>2. \A q \in Runs \ {r} : pc'[q] = pc[q]
      BY <1>t, <2>1 DEF Call, List, FailStart, Abort, Ask, BeginWrite, EndWrite, Resolve, Reject, Report,
                        Account, Go, TypesOK
    <3>3. pc[r] \in Inside <=> pc'[r] \in Inside
      <4>1. CASE BeginWrite(r) \/ EndWrite(r)
        BY <1>t, <4>1 DEF BeginWrite, EndWrite, Writing, Written, Go, TypesOK
      <4>2. CASE ~(BeginWrite(r) \/ EndWrite(r))
        BY <1>t, <2>1, <4>2 DEF Call, List, FailStart, Abort, Ask, Resolve, Reject, Report, Account, Go, TypesOK
      <4> QED
        BY <4>1, <4>2
    <3>4. Running' = Running
      BY <3>2, <3>3 DEF Running
    <3> QED
      BY <1>t, <3>1, <3>4 DEF ActiveCounts
  <2>2. CASE Start(r)
    <3>1. Running' = Running \union {r} /\ r \notin Running /\ active' = active + 1
      BY <1>t, <2>2 DEF Start, Running, Go, TypesOK
    <3>2. Cardinality(Running \union {r}) = Cardinality(Running) + 1
      BY <1>f, <3>1, FS_AddElement
    <3> QED
      BY <1>t, <3>1, <3>2 DEF ActiveCounts
  <2>3. CASE Return(r) \/ ReturnFailed(r) \/ Throw(r)
    <3>1. Running' = Running \ {r} /\ r \in Running /\ active' = active - 1
      BY <1>t, <2>3 DEF Return, ReturnFailed, Throw, Leave, Running, Go, TypesOK
    <3>2. Cardinality(Running \ {r}) = Cardinality(Running) - 1
      BY <1>f, <3>1, FS_RemoveElement
    <3> QED
      BY <1>t, <3>1, <3>2 DEF ActiveCounts
  <2> QED
    BY <1>3, <2>1, <2>2, <2>3 DEF Step
<1> QED
  BY <1>1, <1>2, <1>3 DEF Next

\* For any calls, failures and restarts, DelegationRuntime.active is the number of
\* the runs under way.
THEOREM Counted == Spec => []ActiveCounts
<1>1. CountInv => ActiveCounts
  BY DEF CountInv
<1> QED
  BY <1>1, CountInit, CountStep, PTL DEF Spec

\* DelegationRuntime keeps every variable in the range the code gives it.
THEOREM TypeCorrect == Spec => []TypeOK
<1>1. CountInv => TypeOK
  BY RunsFinite DEF CountInv, RunInv, TypesOK, TypeOK, ActiveCounts, Outcomes
<1> QED
  BY <1>1, CountInit, CountStep, PTL DEF Spec

-----------------------------------------------------------------------------
(* The parallel budget *)

\* One call at a time is in the checks, and while it is there a slot is free.
Serial ==
  ~overlapped =>
    /\ \A q, r \in Runs : pc[q] \in Admission /\ pc[r] \in Admission => q = r
    /\ MaxParallel > 0 =>
         /\ active <= MaxParallel
         /\ \A r \in Runs : pc[r] \in Admission => active < MaxParallel

SerialInv == CountInv /\ Serial

LEMMA SerialInit == Init => SerialInv
  BY CountInit, DelegationAssumption DEF SerialInv, Serial, Init

LEMMA SerialStep == SerialInv /\ [Next]_vars => SerialInv'
<1> SUFFICES ASSUME SerialInv, [Next]_vars PROVE Serial'
  BY CountStep DEF SerialInv
<1>t. TypesOK /\ Serial /\ MaxParallel \in Nat
  BY DelegationAssumption DEF SerialInv, CountInv, RunInv
<1>1. CASE UNCHANGED vars
  BY <1>1, <1>t DEF vars, Serial
<1>2. CASE Restart
  BY <1>t, <1>2 DEF Restart, Serial, TypesOK
<1>3. ASSUME NEW r \in Runs, Call(r) PROVE Serial'
  <2> SUFFICES ASSUME ~overlapped' PROVE Serial'
    BY DEF Serial
  <2>1. /\ ~overlapped /\ active' = active
        /\ pc'[r] \in Admission => ~ParallelSpent /\ \A q \in Runs : pc[q] \notin Admission
        /\ \A q \in Runs \ {r} : pc'[q] = pc[q]
    BY <1>t, <1>3 DEF Call, Go, TypesOK
  <2> QED
    BY <1>t, <2>1 DEF ParallelSpent, Serial, TypesOK
<1>4. ASSUME NEW r \in Runs, Abort(r) \/ Ask(r) \/ Step(r) PROVE Serial'
  <2>a. overlapped' = overlapped
    BY <1>4 DEF Abort, Ask, Step, List, BeginWrite, EndWrite, Start, FailStart, Resolve, Reject, Report,
                Account, Return, ReturnFailed, Throw
  <2>1. CASE Start(r)
    <3>1. /\ \A q \in Runs \ {r} : pc'[q] = pc[q]
          /\ pc[r] \in Admission /\ pc'[r] \notin Admission /\ active' = active + 1
      BY <1>t, <2>1 DEF Start, Go, TypesOK
    <3> SUFFICES ASSUME ~overlapped' PROVE Serial'
      BY DEF Serial
    <3>2. \A q \in Runs : pc'[q] \notin Admission
      BY <1>t, <2>a, <3>1 DEF Serial
    <3>3. MaxParallel > 0 => active < MaxParallel
      BY <1>t, <2>a, <3>1 DEF Serial
    <3>4. MaxParallel > 0 => active' <= MaxParallel
      BY <1>t, <3>1, <3>3 DEF TypesOK
    <3> QED
      BY <3>2, <3>4 DEF Serial
  <2>2. CASE ~Start(r)
    <3>1. \A q \in Runs \ {r} : pc'[q] = pc[q]
      BY <1>t, <1>4, <2>2 DEF Abort, Ask, Step, List, BeginWrite, EndWrite, FailStart, Resolve, Reject, Report,
                              Account, Return, ReturnFailed, Throw, Leave, Go, TypesOK
    <3>2. pc'[r] \in Admission => pc[r] \in Admission
      <4>1. CASE BeginWrite(r)
        BY <1>t, <4>1 DEF BeginWrite, Writing, Go, TypesOK
      <4>2. CASE EndWrite(r)
        BY <1>t, <4>2 DEF EndWrite, Written, Go, TypesOK
      <4>3. CASE Abort(r) \/ Ask(r) \/ List(r) \/ FailStart(r) \/ Resolve(r) \/ Reject(r)
        BY <1>t, <4>3 DEF Abort, Ask, List, FailStart, Resolve, Reject, Go, TypesOK
      <4>4. CASE Report(r) \/ Account(r) \/ Return(r) \/ ReturnFailed(r) \/ Throw(r)
        BY <1>t, <4>4 DEF Report, Account, Return, ReturnFailed, Throw, Leave, Go, TypesOK
      <4> QED
        BY <1>4, <2>2, <4>1, <4>2, <4>3, <4>4 DEF Step
    <3>3. active' = active \/ active' = active - 1
      BY <1>4, <2>2 DEF Abort, Ask, Step, List, BeginWrite, EndWrite, FailStart, Resolve, Reject, Report,
                        Account, Return, ReturnFailed, Throw, Leave
    <3> SUFFICES ASSUME ~overlapped' PROVE Serial'
      BY DEF Serial
    <3>4. \A q \in Runs : pc'[q] \in Admission => pc[q] \in Admission
      BY <3>1, <3>2
    <3>5. active' <= active
      BY <1>t, <3>3 DEF TypesOK
    <3>6. \A q, p \in Runs : pc'[q] \in Admission /\ pc'[p] \in Admission => q = p
      BY <1>t, <2>a, <3>4 DEF Serial
    <3>7. ASSUME MaxParallel > 0
          PROVE  active' <= MaxParallel /\ \A q \in Runs : pc'[q] \in Admission => active' < MaxParallel
      <4>1. active' \in Int /\ active \in Int
        BY <1>t, <3>3 DEF TypesOK
      <4>2. active <= MaxParallel /\ \A q \in Runs : pc[q] \in Admission => active < MaxParallel
        BY <1>t, <2>a, <3>7 DEF Serial
      <4> QED
        BY <1>t, <3>4, <3>5, <4>1, <4>2
    <3> QED
      BY <3>6, <3>7 DEF Serial
  <2> QED
    BY <2>1, <2>2
<1> QED
  BY <1>1, <1>2, <1>3, <1>4 DEF Next

\* For any calls, budgets, failures and restarts, the parallel budget holds as
\* long as no two calls of runChild have met between the first check and the count.
THEOREM ParallelBudgetHolds == Spec => []ParallelBudgetIfSerial
<1>1. SerialInv => ParallelBudgetIfSerial
  BY DEF SerialInv, CountInv, Serial, ActiveCounts, ParallelBudgetIfSerial
<1> QED
  BY <1>1, SerialInit, SerialStep, PTL DEF Spec

-----------------------------------------------------------------------------
(* RequestHistory: the items at some places                                 *)

\* Every nonempty set of numbers has a least element.
LEMMA LeastNatural ==
  ASSUME NEW T \in SUBSET Nat, T # {} PROVE \E x \in T : \A y \in T : x <= y
<1> DEFINE R == OpToRel(<, Nat)
<1>1. \A x, y \in Nat : x < y => <<x, y>> \in R
  BY Zenon DEF OpToRel
<1>2. IsWellFoundedOn(R, Nat)
  BY NatLessThanWellFounded
<1> HIDE DEF R
<1>3. PICK x \in T : \A y \in T : <<y, x>> \notin R
  BY <1>2, WFMin, Zenon
<1>4. \A y \in T : ~(y < x)
  BY <1>1, <1>3
<1> QED
  BY <1>4

\* f lists the places in their order.
Lists(f, places) ==
  LET N == Cardinality(places)
  IN  /\ f \in [1..N -> places]
      /\ \A j, k \in 1..N : j < k <=> f[j] < f[k]
      /\ \A n \in places : \E k \in 1..N : f[k] = n

UpTo(places, n) == {m \in places : m <= n}

LEMMA UpToGrows ==
  ASSUME NEW places \in SUBSET Nat, IsFiniteSet(places), NEW n \in places
  PROVE  /\ Cardinality(UpTo(places, n)) \in 1..Cardinality(places)
         /\ \A m \in places : n < m => Cardinality(UpTo(places, n)) < Cardinality(UpTo(places, m))
<1>1. \A m \in places : UpTo(places, m) \in SUBSET places /\ m \in UpTo(places, m)
  BY DEF UpTo
<1>2. \A m \in places : /\ IsFiniteSet(UpTo(places, m))
                        /\ Cardinality(UpTo(places, m)) \in Nat
                        /\ Cardinality(UpTo(places, m)) <= Cardinality(places)
                        /\ Cardinality(UpTo(places, m)) # 0
  BY <1>1, FS_Subset, FS_CardinalityType, FS_EmptySet
<1>3. Cardinality(places) \in Nat
  BY FS_CardinalityType
<1>4. ASSUME NEW m \in places, n < m
      PROVE  Cardinality(UpTo(places, n)) < Cardinality(UpTo(places, m))
  <2>1. UpTo(places, n) \in SUBSET UpTo(places, m) /\ m \notin UpTo(places, n)
    <3>1. \A k \in places : k <= n => k <= m
      BY <1>4
    <3>2. ~(m <= n)
      BY <1>4
    <3> QED
      BY <3>1, <3>2 DEF UpTo
  <2>2. /\ Cardinality(UpTo(places, n)) <= Cardinality(UpTo(places, m))
        /\ Cardinality(UpTo(places, m)) = Cardinality(UpTo(places, n)) => UpTo(places, m) = UpTo(places, n)
    BY <1>2, <2>1, FS_Subset
  <2> QED
    BY <1>1, <1>2, <2>1, <2>2
<1> QED
  BY <1>2, <1>3, <1>4

LEMMA Listed ==
  ASSUME NEW places \in SUBSET Nat, IsFiniteSet(places)
  PROVE  Lists([k \in 1..Cardinality(places) |-> CHOOSE n \in places : Cardinality(UpTo(places, n)) = k],
               places)
<1> DEFINE N == Cardinality(places)
           rank == [n \in places |-> Cardinality(UpTo(places, n))]
           f == [k \in 1..N |-> CHOOSE n \in places : Cardinality(UpTo(places, n)) = k]
<1>1. N \in Nat /\ IsFiniteSet(1..N) /\ Cardinality(1..N) = N
  BY FS_CardinalityType, FS_Interval
<1>2. \A n \in places : rank[n] \in 1..N /\ \A m \in places : n < m => rank[n] < rank[m]
  BY UpToGrows
<1>3. rank \in [places -> 1..N]
  BY <1>2
<1> HIDE DEF rank
<1>4. ASSUME NEW n \in places, NEW m \in places, n # m PROVE rank[n] # rank[m]
  <2>1. n < m \/ m < n
    BY <1>4
  <2>2. rank[n] \in Nat /\ rank[m] \in Nat
    BY <1>1, <1>3
  <2> QED
    BY <1>2, <2>1, <2>2
<1>5. rank \in Injection(places, 1..N)
  BY <1>3, <1>4 DEF Injection, IsInjective
<1>6. rank \in Surjection(places, 1..N)
  <2> HIDE DEF N
  <2>1. Cardinality(places) = Cardinality(1..N)
    BY <1>1 DEF N
  <2> QED
    BY <1>1, <1>5, <2>1, FS_Injection
<1>7. \A k \in 1..N : \E n \in places : rank[n] = k
  BY <1>6 DEF Surjection
<1>8. \A k \in 1..N : f[k] \in places /\ rank[f[k]] = k
  <2> USE DEF rank
  <2>1. \A k \in 1..N : \E n \in places : Cardinality(UpTo(places, n)) = k
    BY <1>7
  <2>2. \A k \in 1..N : f[k] \in places /\ Cardinality(UpTo(places, f[k])) = k
    BY <2>1
  <2> QED
    BY <2>2
<1> HIDE DEF f
<1>9. f \in [1..N -> places]
  BY <1>8 DEF f
<1>10. \A j, k \in 1..N : j < k <=> f[j] < f[k]
  <2> SUFFICES ASSUME NEW j \in 1..N, NEW k \in 1..N PROVE j < k <=> f[j] < f[k]
    OBVIOUS
  <2>1. f[j] \in Nat /\ f[k] \in Nat
    BY <1>8
  <2>2. f[j] < f[k] => j < k
    BY <1>2, <1>8
  <2>3. f[k] < f[j] => k < j
    BY <1>2, <1>8
  <2>4. f[j] = f[k] => j = k
    BY <1>8
  <2> QED
    BY <1>1, <2>1, <2>2, <2>3, <2>4
<1>11. \A n \in places : \E k \in 1..N : f[k] = n
  <2> TAKE n \in places
  <2>1. rank[n] \in 1..N
    BY <1>3
  <2>2. f[rank[n]] = n
    BY <1>4, <1>8, <2>1
  <2> QED
    BY <2>1, <2>2
<1>12. Lists(f, places)
  BY <1>9, <1>10, <1>11 DEF Lists
<1> QED
  BY <1>12 DEF f

\* The items at the places of h, which f lists.
Picks(f, h, places, new) ==
  Lists(f, places) /\ Len(new) = Cardinality(places) /\ \A k \in 1..Len(new) : new[k] = h[f[k]]

LEMMA AtInOrder ==
  ASSUME NEW S, NEW h \in Seq(S), NEW places \in SUBSET (1..Len(h))
  PROVE  At(h, places) \in Seq(S) /\ \E f : Picks(f, h, places, At(h, places))
<1> DEFINE N == Cardinality(places)
           f == [k \in 1..N |-> CHOOSE n \in places : Cardinality(UpTo(places, n)) = k]
           new == [k \in 1..N |-> h[CHOOSE n \in places : Cardinality(UpTo(places, n)) = k]]
<1>1. IsFiniteSet(places) /\ places \in SUBSET Nat /\ N \in Nat
  <2>1. IsFiniteSet(1..Len(h))
    BY FS_Interval
  <2>2. IsFiniteSet(places)
    BY <2>1, FS_Subset
  <2> QED
    BY <2>2, FS_CardinalityType
<1>2. Lists(f, places)
  BY <1>1, Listed
<1>3. f \in [1..N -> places]
  BY <1>2 DEF Lists
<1>4. \A k \in 1..N : new[k] = h[f[k]]
  OBVIOUS
<1> HIDE DEF f, new
<1>5. \A k \in 1..N : new[k] \in S
  <2> TAKE k \in 1..N
  <2>1. f[k] \in 1..Len(h)
    BY <1>3
  <2> QED
    BY <1>4, <2>1
<1> USE DEF new
<1>6. new \in Seq(S) /\ Len(new) = N
  <2>1. new = [k \in 1..N |-> new[k]]
    OBVIOUS
  <2> HIDE DEF new, N
  <2>2. new \in [1..N -> S]
    BY <1>5, <2>1
  <2> QED
    BY <1>1, <2>2
<1>7. At(h, places) = <<>> \o new
  BY DEF At, UpTo
<1> HIDE DEF new
<1>8. At(h, places) = new
  BY <1>6, <1>7, ConcatEmptySeq
<1> HIDE DEF N
<1>9. Picks(f, h, places, new)
  BY <1>2, <1>4, <1>6 DEF Picks, N
<1> QED
  BY <1>6, <1>8, <1>9

-----------------------------------------------------------------------------
(* Blocks of calls                                                          *)

IsCall(h, n) == h[n].kind = "call"

\* The places s to e of h are a block of calls.
Block(h, s, e) ==
  /\ s \in 1..Len(h) /\ e \in s..Len(h)
  /\ \A k \in s..e : IsCall(h, k)
  /\ s = 1 \/ ~IsCall(h, s - 1)
  /\ e = Len(h) \/ ~IsCall(h, e + 1)

LEMMA InOneBlock ==
  ASSUME NEW S, NEW h \in Seq(S), NEW s, NEW e, Block(h, s, e), NEW n \in s..e
  PROVE  BlockStart(h, n) = s /\ BlockEnd(h, n) = e
<1>1. Len(h) \in Nat /\ s \in 1..Len(h) /\ e \in s..Len(h) /\ n \in 1..Len(h)
  BY DEF Block
<1>2. /\ s \in 1..n /\ \A k \in s..n : h[k].kind = "call"
      /\ s = 1 \/ h[s - 1].kind # "call"
  BY <1>1 DEF Block, IsCall
<1>3. ASSUME NEW r \in 1..n, \A k \in r..n : h[k].kind = "call", r = 1 \/ h[r - 1].kind # "call"
      PROVE  r = s
  <2>1. CASE r < s
    <3>1. s - 1 \in r..n /\ s # 1
      BY <1>1, <2>1
    <3> QED
      BY <1>2, <1>3, <3>1
  <2>2. CASE s < r
    <3>1. r - 1 \in s..n /\ r # 1
      BY <1>1, <2>2
    <3> QED
      BY <1>2, <1>3, <3>1
  <2> QED
    BY <1>1, <2>1, <2>2
<1>4. BlockStart(h, n) = s
  BY <1>2, <1>3 DEF BlockStart
<1>5. /\ e \in n..Len(h) /\ \A k \in n..e : h[k].kind = "call"
      /\ e = Len(h) \/ h[e + 1].kind # "call"
  BY <1>1 DEF Block, IsCall
<1>6. ASSUME NEW r \in n..Len(h), \A k \in n..r : h[k].kind = "call", r = Len(h) \/ h[r + 1].kind # "call"
      PROVE  r = e
  <2>1. CASE r < e
    <3>1. r + 1 \in n..e /\ r # Len(h)
      BY <1>1, <2>1
    <3> QED
      BY <1>5, <1>6, <3>1
  <2>2. CASE e < r
    <3>1. e + 1 \in n..r /\ e # Len(h)
      BY <1>1, <2>2
    <3> QED
      BY <1>5, <1>6, <3>1
  <2> QED
    BY <1>1, <2>1, <2>2
<1>7. BlockEnd(h, n) = e
  BY <1>5, <1>6 DEF BlockEnd
<1> QED
  BY <1>4, <1>7

\* Every call is in a block: its bounds are the nearest.
LEMMA BlockOf ==
  ASSUME NEW S, NEW h \in Seq(S), NEW n \in 1..Len(h), IsCall(h, n)
  PROVE  Block(h, BlockStart(h, n), BlockEnd(h, n)) /\ n \in BlockStart(h, n)..BlockEnd(h, n)
<1> DEFINE before == {d \in Nat : n - d = 1 \/ (d < n /\ ~IsCall(h, n - d - 1))}
           after == {d \in Nat : n + d = Len(h) \/ (n + d < Len(h) /\ ~IsCall(h, n + d + 1))}
<1>1. Len(h) \in Nat
  OBVIOUS
<1>2. PICK a \in before : \A d \in before : a <= d
  <2>1. n - 1 \in before
    OBVIOUS
  <2>2. before \in SUBSET Nat
    OBVIOUS
  <2> HIDE DEF before
  <2> QED
    BY <2>1, <2>2, LeastNatural
<1>3. PICK b \in after : \A d \in after : b <= d
  <2>1. Len(h) - n \in after
    BY <1>1
  <2>2. after \in SUBSET Nat
    OBVIOUS
  <2> HIDE DEF after
  <2> QED
    BY <2>1, <2>2, LeastNatural
<1>4. a \in Nat /\ b \in Nat /\ a < n /\ n + b <= Len(h)
  BY <1>1, <1>2, <1>3
<1>5. \A k \in (n - a)..n : IsCall(h, k)
  <2> SUFFICES ASSUME NEW k \in (n - a)..n, ~IsCall(h, k) PROVE FALSE
    OBVIOUS
  <2>1. n - k - 1 \in Nat /\ n - (n - k - 1) - 1 = k /\ n - k - 1 < n
    BY <1>4
  <2>2. n - k - 1 \in before
    BY <2>1
  <2> HIDE DEF before
  <2> QED
    BY <1>2, <1>4, <2>1, <2>2
<1>6. \A k \in n..(n + b) : IsCall(h, k)
  <2> SUFFICES ASSUME NEW k \in n..(n + b), ~IsCall(h, k) PROVE FALSE
    OBVIOUS
  <2>1. k - n - 1 \in Nat /\ n + (k - n - 1) + 1 = k /\ n + (k - n - 1) < Len(h)
    BY <1>1, <1>4
  <2>2. k - n - 1 \in after
    BY <2>1
  <2> HIDE DEF after
  <2> QED
    BY <1>3, <1>4, <2>1, <2>2
<1>7. n - a = 1 \/ ~IsCall(h, (n - a) - 1)
  BY <1>2, <1>4
<1>8. n + b = Len(h) \/ ~IsCall(h, (n + b) + 1)
  BY <1>3, <1>4
<1> HIDE DEF before, after
<1>9. Block(h, n - a, n + b)
  <2>1. n - a \in 1..Len(h) /\ n + b \in (n - a)..Len(h)
    BY <1>1, <1>4
  <2>2. \A k \in (n - a)..(n + b) : IsCall(h, k)
    BY <1>4, <1>5, <1>6
  <2> QED
    BY <1>7, <1>8, <2>1, <2>2 DEF Block
<1>10. n \in (n - a)..(n + b)
  BY <1>4
<1>11. BlockStart(h, n) = n - a /\ BlockEnd(h, n) = n + b
  BY <1>9, <1>10, InOneBlock
<1> QED
  BY <1>9, <1>10, <1>11

\* The same of calls with nothing but calls between them.
LEMMA SameBlock ==
  ASSUME NEW S, NEW h \in Seq(S), NEW s, NEW e, Block(h, s, e), NEW n \in s..e, NEW m \in 1..Len(h),
         \A k \in (IF n <= m THEN n..m ELSE m..n) : IsCall(h, k)
  PROVE  m \in s..e
<1>1. Len(h) \in Nat /\ s \in 1..Len(h) /\ e \in s..Len(h)
  BY DEF Block
<1>2. CASE m < s
  <2>1. s - 1 \in m..n /\ s # 1 /\ ~(n <= m)
    BY <1>1, <1>2
  <2> QED
    BY <2>1 DEF Block
<1>3. CASE e < m
  <2>1. e + 1 \in n..m /\ e # Len(h) /\ n <= m
    BY <1>1, <1>3
  <2> QED
    BY <2>1 DEF Block
<1> QED
  BY <1>1, <1>2, <1>3

\* No two of the values are equal, and they are those of the other.
Distinct(f) == \A i, j \in DOMAIN f : f[i] = f[j] => i = j

LEMMA OneEachIs ==
  ASSUME NEW f, NEW g, IsFiniteSet(DOMAIN f), IsFiniteSet(DOMAIN g), Distinct(f), Distinct(g),
         f = [n \in DOMAIN f |-> f[n]], g = [n \in DOMAIN g |-> g[n]],
         \A i \in DOMAIN f : \E j \in DOMAIN g : g[j] = f[i],
         \A j \in DOMAIN g : \E i \in DOMAIN f : f[i] = g[j]
  PROVE  OneEach(f, g)
<1>1. ASSUME NEW u, IsFiniteSet(DOMAIN u), Distinct(u), u = [n \in DOMAIN u |-> u[n]]
      PROVE  Cardinality({u[n] : n \in DOMAIN u}) = Cardinality(DOMAIN u)
  <2> DEFINE T == {u[n] : n \in DOMAIN u}
  <2>1. u \in [DOMAIN u -> T]
    BY <1>1
  <2>2. \A t \in T : \E n \in DOMAIN u : u[n] = t
    OBVIOUS
  <2> HIDE DEF T
  <2>3. u \in Bijection(DOMAIN u, T)
    BY <1>1, <2>1, <2>2 DEF Bijection, Injection, Surjection, IsInjective, Distinct
  <2>4. ExistsBijection(DOMAIN u, T)
    BY <2>3 DEF ExistsBijection
  <2> QED
    BY <1>1, <2>4, FS_Bijection DEF T
<1>2. {f[n] : n \in DOMAIN f} = {g[n] : n \in DOMAIN g}
  OBVIOUS
<1>3. /\ Cardinality({f[n] : n \in DOMAIN f}) = Cardinality(DOMAIN f)
      /\ Cardinality({g[n] : n \in DOMAIN g}) = Cardinality(DOMAIN g)
  BY <1>1
<1> QED
  BY <1>2, <1>3 DEF OneEach

-----------------------------------------------------------------------------
(* Repair                                                                   *)

LEMMA ResultsAre ==
  ASSUME NEW S, NEW h \in Seq(S), NEW s, NEW e, Block(h, s, e)
  PROVE  /\ \A n \in s..e : ResultsOf(h, n) = ResultsOf(h, e)
         /\ \A k \in ResultsOf(h, e) :
              /\ k \in (e + 1)..Len(h) /\ h[k].kind = "result"
              /\ \E c \in s..e : h[c].call = h[k].call
              /\ \A j \in (e + 1)..k : h[j].kind \notin {"call", "user", "summary"}
         /\ \A j, k \in ResultsOf(h, e) : h[j].call = h[k].call => j = k
<1>1. Len(h) \in Nat /\ s \in 1..Len(h) /\ e \in s..Len(h)
  BY DEF Block
<1>2. \A n \in s..e : BlockStart(h, n) = s /\ BlockEnd(h, n) = e
  BY InOneBlock
<1> DEFINE reached == {k \in (e + 1)..Len(h) :
                         \A j \in (e + 1)..k : h[j].kind = "result" \/ Bridges(h, h[s].turn, e, j)}
           results == {k \in reached : h[k].kind = "result" /\ h[k].call \in {h[c].call : c \in s..e}}
<1>3. \A n \in s..e : ResultsOf(h, n) = {k \in results : \A j \in results : h[j].call = h[k].call => k <= j}
  <2> TAKE n \in s..e
  <2>1. BlockStart(h, n) = s /\ BlockEnd(h, n) = e
    BY <1>2
  <2> QED
    BY <2>1 DEF ResultsOf
<1>4. e \in s..e
  BY <1>1
<1>5. ResultsOf(h, e) \in SUBSET results /\ results \in SUBSET reached /\ reached \in SUBSET ((e + 1)..Len(h))
  BY <1>3, <1>4
<1>6. ASSUME NEW k \in ResultsOf(h, e)
      PROVE  /\ k \in (e + 1)..Len(h) /\ h[k].kind = "result"
             /\ \E c \in s..e : h[c].call = h[k].call
             /\ \A j \in (e + 1)..k : h[j].kind \notin {"call", "user", "summary"}
  <2>1. k \in results
    BY <1>5
  <2>2. \A j \in (e + 1)..k : h[j].kind = "result" \/ Bridges(h, h[s].turn, e, j)
    BY <2>1
  <2> QED
    BY <2>1, <2>2 DEF Bridges
<1>7. ASSUME NEW j \in ResultsOf(h, e), NEW k \in ResultsOf(h, e), h[j].call = h[k].call PROVE j = k
  <2>1. j <= k /\ k <= j
    BY <1>3, <1>4, <1>5, <1>7
  <2>2. j \in Nat /\ k \in Nat
    BY <1>1, <1>5
  <2> QED
    BY <2>1, <2>2
<1> QED
  BY <1>3, <1>4, <1>6, <1>7

LEMMA KeptCallIs ==
  ASSUME NEW S, NEW h \in Seq(S), NEW s, NEW e, Block(h, s, e), NEW n \in s..e
  PROVE  KeptCall(h, n) <=> /\ \A c \in s..(n - 1) : h[c].call # h[n].call
                            /\ \E k \in ResultsOf(h, e) : h[k].call = h[n].call
  BY InOneBlock, ResultsAre DEF KeptCall

\* A result that is kept answers a call that is kept: the first of its name.
LEMMA FirstKept ==
  ASSUME NEW S, NEW h \in Seq(S), NEW s, NEW e, Block(h, s, e), NEW k \in ResultsOf(h, e)
  PROVE  \E c \in s..e : h[c].call = h[k].call /\ KeptCall(h, c)
<1> DEFINE T == {c \in s..e : h[c].call = h[k].call}
<1>1. s \in Nat /\ e \in Nat
  BY DEF Block
<1>2. T # {} /\ T \in SUBSET Nat
  BY <1>1, ResultsAre
<1> HIDE DEF T
<1>3. PICK c \in T : \A d \in T : c <= d
  BY <1>2, LeastNatural
<1>4. c \in s..e /\ h[c].call = h[k].call
  BY DEF T
<1>5. \A d \in s..(c - 1) : h[d].call # h[c].call
  <2> SUFFICES ASSUME NEW d \in s..(c - 1), h[d].call = h[c].call PROVE FALSE
    OBVIOUS
  <2>1. d \in T /\ d < c
    BY <1>1, <1>4 DEF T
  <2> QED
    BY <1>1, <1>3, <1>4, <2>1
<1> QED
  BY <1>4, <1>5, KeptCallIs

LEMMA KeptResultIs ==
  ASSUME NEW S, NEW h \in Seq(S), NEW k \in 1..Len(h)
  PROVE  KeptResult(h, k) <=> \E s, e \in 1..Len(h) : Block(h, s, e) /\ k \in ResultsOf(h, e)
<1>1. Len(h) \in Nat
  OBVIOUS
<1>2. ASSUME KeptResult(h, k) PROVE \E s, e \in 1..Len(h) : Block(h, s, e) /\ k \in ResultsOf(h, e)
  <2>1. PICK n \in 1..(k - 1) : h[n].kind = "call" /\ k \in ResultsOf(h, n)
    BY <1>2 DEF KeptResult
  <2> DEFINE s == BlockStart(h, n)  e == BlockEnd(h, n)
  <2>2. n \in 1..Len(h) /\ IsCall(h, n)
    BY <1>1, <2>1 DEF IsCall
  <2>3. Block(h, s, e) /\ n \in s..e
    BY <2>2, BlockOf
  <2> HIDE DEF s, e
  <2>4. s \in 1..Len(h) /\ e \in 1..Len(h)
    BY <1>1, <2>3 DEF Block
  <2>5. k \in ResultsOf(h, e)
    <3>1. ResultsOf(h, n) = ResultsOf(h, e)
      BY <2>3, ResultsAre
    <3> QED
      BY <2>1, <3>1
  <2> QED
    BY <2>3, <2>4, <2>5
<1>3. ASSUME NEW s \in 1..Len(h), NEW e \in 1..Len(h), Block(h, s, e), k \in ResultsOf(h, e)
      PROVE  KeptResult(h, k)
  <2>1. k \in (e + 1)..Len(h) /\ \A j \in (e + 1)..k : h[j].kind # "call"
    BY <1>3, ResultsAre
  <2>2. h[e].kind = "call"
    BY <1>3 DEF Block, IsCall
  <2>3. e \in 1..(k - 1) /\ \A j \in (e + 1)..(k - 1) : h[j].kind # "call"
    BY <1>1, <2>1
  <2> QED
    BY <1>3, <2>2, <2>3 DEF KeptResult
<1> QED
  BY <1>2, <1>3

RepairPlaces(h) ==
  {n \in DOMAIN h : /\ h[n].kind = "call" => KeptCall(h, n)
                    /\ h[n].kind = "result" => KeptResult(h, n)}

\* The places from which new has its items, in their order.
Ordered(f, h, places, new) ==
  /\ \A k \in 1..Len(new) : f[k] \in places /\ f[k] \in 1..Len(h) /\ new[k] = h[f[k]]
  /\ \A j, k \in 1..Len(new) : (j < k <=> f[j] < f[k]) /\ (j = k <=> f[j] = f[k]) /\ (j <= k <=> f[j] <= f[k])
  /\ \A n \in places : \E k \in 1..Len(new) : f[k] = n

\* The order of the places is that of the items.
LEMMA PicksOrder ==
  ASSUME NEW S, NEW h \in Seq(S), NEW places \in SUBSET (1..Len(h)), NEW f, NEW new \in Seq(S),
         Picks(f, h, places, new)
  PROVE  Ordered(f, h, places, new)
<1>1. /\ \A k \in 1..Len(new) : f[k] \in places /\ new[k] = h[f[k]]
      /\ \A j, k \in 1..Len(new) : j < k <=> f[j] < f[k]
      /\ \A n \in places : \E k \in 1..Len(new) : f[k] = n
  BY DEF Picks, Lists
<1>2. \A k \in 1..Len(new) : f[k] \in 1..Len(h)
  BY <1>1
<1>3. ASSUME NEW j \in 1..Len(new), NEW k \in 1..Len(new)
      PROVE  (j = k <=> f[j] = f[k]) /\ (j <= k <=> f[j] <= f[k])
  <2>1. f[j] \in Nat /\ f[k] \in Nat /\ j \in Nat /\ k \in Nat
    BY <1>2
  <2>2. (j < k <=> f[j] < f[k]) /\ (k < j <=> f[k] < f[j])
    BY <1>1
  <2> QED
    BY <2>1, <2>2
<1> QED
  BY <1>1, <1>2, <1>3 DEF Ordered

\* A result of a block is kept, and so is the first call of its name.
LEMMA ResultKept ==
  ASSUME NEW S, NEW h \in Seq(S), NEW s, NEW e, Block(h, s, e), NEW k \in ResultsOf(h, e)
  PROVE  k \in RepairPlaces(h)
<1>1. Len(h) \in Nat /\ s \in 1..Len(h) /\ e \in s..Len(h)
  BY DEF Block
<1>2. k \in (e + 1)..Len(h) /\ h[k].kind = "result"
  BY ResultsAre
<1>3. k \in 1..Len(h) /\ e \in 1..Len(h)
  BY <1>1, <1>2
<1>4. KeptResult(h, k)
  BY <1>1, <1>3, KeptResultIs
<1> QED
  BY <1>2, <1>3, <1>4 DEF RepairPlaces

\* A repaired history, with the places in h that its items come from.
Repaired(f, h, new) == Picks(f, h, RepairPlaces(h), new)

LEMMA RepairOrder ==
  ASSUME NEW S, NEW h \in Seq(S), NEW f, NEW new \in Seq(S), Repaired(f, h, new)
  PROVE  /\ \A k \in 1..Len(new) : f[k] \in RepairPlaces(h) /\ f[k] \in 1..Len(h) /\ new[k] = h[f[k]]
         /\ \A j, k \in 1..Len(new) : (j < k <=> f[j] < f[k]) /\ (j = k <=> f[j] = f[k]) /\ (j <= k <=> f[j] <= f[k])
         /\ \A n \in RepairPlaces(h) : \E k \in 1..Len(new) : f[k] = n
<1>1. RepairPlaces(h) \in SUBSET (1..Len(h))
  BY DEF RepairPlaces
<1> DEFINE places == RepairPlaces(h)
<1>2. Picks(f, h, places, new) /\ places \in SUBSET (1..Len(h))
  BY <1>1 DEF Repaired
<1> HIDE DEF places
<1>3. Ordered(f, h, places, new)
  BY <1>2, PicksOrder
<1> QED
  BY <1>3 DEF places, Ordered

\* A call of the repaired history is one of h.
LEMMA CallFrom ==
  ASSUME NEW S, NEW h \in Seq(S), NEW f, NEW new \in Seq(S), Repaired(f, h, new),
         NEW n \in 1..Len(new)
  PROVE  IsCall(new, n) <=> IsCall(h, f[n])
<1>1. new[n] = h[f[n]]
  BY RepairOrder
<1> QED
  BY <1>1 DEF IsCall

\* The calls of a block of the repaired history come from one block of h: a block of
\* which a call is kept has a result that is kept, between it and the next.
LEMMA FromOneBlock ==
  ASSUME NEW S, NEW h \in Seq(S), NEW f, NEW new \in Seq(S), Repaired(f, h, new),
         NEW s, NEW e, Block(new, s, e),
         NEW t, NEW u, Block(h, t, u), f[e] \in t..u
  PROVE  /\ \A n \in s..e : f[n] \in t..u
         /\ \A n \in 1..Len(new) : f[n] \in t..u => n \in s..e
<1>1. /\ \A k \in 1..Len(new) : f[k] \in RepairPlaces(h) /\ f[k] \in 1..Len(h) /\ new[k] = h[f[k]]
      /\ \A j, k \in 1..Len(new) : (j < k <=> f[j] < f[k]) /\ (j = k <=> f[j] = f[k]) /\ (j <= k <=> f[j] <= f[k])
      /\ \A n \in RepairPlaces(h) : \E k \in 1..Len(new) : f[k] = n
  BY RepairOrder
<1>2. /\ Len(new) \in Nat /\ Len(h) \in Nat
      /\ s \in 1..Len(new) /\ e \in s..Len(new) /\ e \in 1..Len(new)
      /\ t \in 1..Len(h) /\ u \in t..Len(h)
  BY DEF Block
<1>3. ASSUME NEW n \in s..e, f[n] \notin t..u PROVE FALSE
  <2>1. n \in 1..Len(new) /\ n <= e /\ IsCall(h, f[n]) /\ f[n] <= f[e]
    <3>1. n \in 1..Len(new) /\ n <= e
      BY <1>2
    <3>2. IsCall(new, n)
      BY DEF Block
    <3> QED
      BY <1>1, <1>2, <3>1, <3>2, CallFrom
  <2>2. f[n] < t /\ f[n] \in 1..Len(h)
    BY <1>1, <1>2, <1>3, <2>1
  <2> DEFINE a == BlockStart(h, f[n])  b == BlockEnd(h, f[n])
  <2>3. Block(h, a, b) /\ f[n] \in a..b
    BY <2>1, <2>2, BlockOf
  <2> HIDE DEF a, b
  <2>4. b < t
    <3>1. a \in 1..Len(h) /\ b \in a..Len(h)
      BY <2>3 DEF Block
    <3>2. CASE t <= b
      <4>1. t - 1 \in a..b /\ t # 1
        BY <1>2, <2>2, <2>3, <3>1, <3>2
      <4> QED
        BY <2>3, <4>1 DEF Block
    <3> QED
      BY <1>2, <3>1, <3>2
  <2>5. KeptCall(h, f[n])
    BY <1>1, <2>1 DEF RepairPlaces, IsCall
  <2>6. PICK k \in ResultsOf(h, b) : h[k].call = h[f[n]].call
    BY <2>3, <2>5, KeptCallIs
  <2>7. k \in (b + 1)..Len(h) /\ h[k].kind = "result" /\ \A j \in (b + 1)..k : h[j].kind # "call"
    BY <2>3, ResultsAre
  <2>8. k < t
    <3>1. b \in Nat /\ k \in Nat
      BY <2>3, <2>7 DEF Block
    <3>2. CASE t <= k
      <4>1. t \in (b + 1)..k
        BY <1>2, <2>4, <3>1, <3>2
      <4>2. h[t].kind = "call"
        BY <1>2 DEF Block, IsCall
      <4> QED
        BY <2>7, <4>1, <4>2
    <3> QED
      BY <1>2, <3>1, <3>2
  <2>9. PICK m \in 1..Len(new) : f[m] = k
    BY <1>1, <2>3, ResultKept
  <2>10. f[n] < f[m] /\ f[m] < f[e]
    <3>1. b \in 1..Len(h)
      <4>1. a \in 1..Len(h) /\ b \in a..Len(h)
        BY <2>3 DEF Block
      <4> QED
        BY <1>2, <4>1
    <3>2. f[n] <= b /\ b < k
      BY <2>2, <2>3, <2>7, <3>1
    <3>3. f[e] \in Nat /\ t <= f[e]
      BY <1>2
    <3>4. f[n] \in Nat /\ k \in Nat /\ t \in Nat
      BY <1>2, <2>2, <2>7, <3>1
    <3>5. f[n] < k /\ k < f[e]
      BY <2>8, <3>1, <3>2, <3>3, <3>4
    <3> QED
      BY <2>9, <3>5
  <2>11. m \in s..e
    BY <1>1, <1>2, <2>1, <2>9, <2>10
  <2>12. new[m].kind = "result"
    BY <1>1, <2>7, <2>9
  <2>13. IsCall(new, m)
    BY <2>11 DEF Block
  <2> QED
    BY <2>12, <2>13 DEF IsCall
<1>4. ASSUME NEW n \in 1..Len(new), f[n] \in t..u, n \notin s..e PROVE FALSE
  <2>1. f[s] \in t..u /\ s \in 1..Len(new)
    BY <1>2, <1>3
  <2>2. CASE n < s
    <3>1. s - 1 \in 1..Len(new) /\ n <= s - 1 /\ s - 1 <= s
      BY <1>2, <2>2
    <3>2. f[n] <= f[s - 1] /\ f[s - 1] <= f[s] /\ f[s - 1] \in 1..Len(h)
      BY <1>1, <2>1, <3>1
    <3>3. f[s - 1] \in t..u
      BY <1>2, <1>4, <2>1, <3>2
    <3>4. IsCall(new, s - 1)
      <4>1. IsCall(h, f[s - 1])
        BY <3>3 DEF Block
      <4> QED
        BY <3>1, <4>1, CallFrom
    <3> QED
      BY <1>2, <2>2, <3>1, <3>4 DEF Block
  <2>3. CASE e < n
    <3>1. e + 1 \in 1..Len(new) /\ e <= e + 1 /\ e + 1 <= n
      BY <1>2, <2>3
    <3>2. f[e] <= f[e + 1] /\ f[e + 1] <= f[n] /\ f[e + 1] \in 1..Len(h)
      BY <1>1, <1>2, <3>1
    <3>3. f[e + 1] \in t..u
      BY <1>2, <1>4, <3>2
    <3>4. IsCall(new, e + 1)
      <4>1. IsCall(h, f[e + 1])
        BY <3>3 DEF Block
      <4> QED
        BY <3>1, <4>1, CallFrom
    <3> QED
      BY <1>2, <2>3, <3>1, <3>4 DEF Block
  <2> QED
    BY <1>2, <1>4, <2>2, <2>3
<1> QED
  BY <1>3, <1>4

\* What follows a block of the repaired history are the results of the block of h that
\* its calls come from.
LEMMA FollowingFrom ==
  ASSUME NEW S, NEW h \in Seq(S), NEW f, NEW new \in Seq(S), Repaired(f, h, new),
         NEW s, NEW e, Block(new, s, e),
         NEW t, NEW u, Block(h, t, u), f[e] \in t..u,
         NEW k \in 1..Len(new)
  PROVE  k \in Following(new, e) <=> f[k] \in ResultsOf(h, u)
<1>1. /\ \A n \in 1..Len(new) : f[n] \in RepairPlaces(h) /\ f[n] \in 1..Len(h) /\ new[n] = h[f[n]]
      /\ \A j, n \in 1..Len(new) : (j < n <=> f[j] < f[n]) /\ (j = n <=> f[j] = f[n]) /\ (j <= n <=> f[j] <= f[n])
      /\ \A n \in RepairPlaces(h) : \E j \in 1..Len(new) : f[j] = n
  BY RepairOrder
<1>2. /\ Len(new) \in Nat /\ Len(h) \in Nat
      /\ s \in 1..Len(new) /\ e \in s..Len(new) /\ e \in 1..Len(new)
      /\ t \in 1..Len(h) /\ u \in t..Len(h)
  BY DEF Block
<1>3. \A n \in 1..Len(new) : f[n] \in t..u => n \in s..e
  BY FromOneBlock
<1>4. ASSUME f[k] \in ResultsOf(h, u) PROVE k \in Following(new, e)
  <2>1. /\ f[k] \in (u + 1)..Len(h) /\ h[f[k]].kind = "result"
        /\ \A j \in (u + 1)..f[k] : h[j].kind \notin {"call", "user", "summary"}
    BY <1>4, ResultsAre
  <2>2. f[e] < f[k]
    BY <1>2, <2>1
  <2>3. k \in (e + 1)..Len(new)
    BY <1>1, <1>2, <2>2
  <2>4. ASSUME NEW j \in (e + 1)..k PROVE new[j].kind \notin {"call", "user", "summary"}
    <3>1. j \in 1..Len(new) /\ e < j /\ j <= k
      BY <1>2
    <3>2. f[e] < f[j] /\ f[j] <= f[k] /\ f[j] \in 1..Len(h)
      BY <1>1, <1>2, <3>1
    <3>3. f[j] \notin t..u
      BY <1>2, <1>3, <3>1
    <3>4. f[j] \in (u + 1)..f[k]
      BY <1>2, <2>1, <3>2, <3>3
    <3> QED
      BY <1>1, <2>1, <3>1, <3>4
  <2>5. new[k].kind = "result"
    BY <1>1, <2>1
  <2> QED
    BY <2>3, <2>4, <2>5 DEF Following
<1>5. ASSUME k \in Following(new, e) PROVE f[k] \in ResultsOf(h, u)
  <2>1. /\ k \in (e + 1)..Len(new) /\ new[k].kind = "result"
        /\ \A j \in (e + 1)..k : new[j].kind \notin {"call", "user", "summary"}
    BY <1>5 DEF Following
  <2>2. KeptResult(h, f[k]) /\ f[k] \in 1..Len(h)
    BY <1>1, <2>1 DEF RepairPlaces
  <2>3. PICK a, b \in 1..Len(h) : Block(h, a, b) /\ f[k] \in ResultsOf(h, b)
    BY <2>2, KeptResultIs
  <2>4. PICK c \in a..b : KeptCall(h, c)
    BY <2>3, FirstKept
  <2>5. c \in RepairPlaces(h) /\ IsCall(h, c)
    <3>1. IsCall(h, c) /\ c \in 1..Len(h)
      BY <1>2, <2>3 DEF Block
    <3> QED
      BY <2>4, <3>1 DEF RepairPlaces, IsCall
  <2>6. PICK j \in 1..Len(new) : f[j] = c
    BY <1>1, <2>5
  <2>7. /\ f[k] \in (b + 1)..Len(h)
        /\ \A i \in (b + 1)..f[k] : h[i].kind \notin {"call", "user", "summary"}
    BY <2>3, ResultsAre
  <2>8. j < k
    <3>1. f[j] < f[k]
      BY <1>2, <2>3, <2>4, <2>6, <2>7
    <3> QED
      BY <1>1, <2>6, <3>1
  <2>9. j <= e
    <3>1. CASE e < j
      <4>1. j \in (e + 1)..k
        BY <1>2, <2>6, <2>8, <3>1
      <4>2. new[j].kind = "call"
        BY <1>1, <2>5, <2>6 DEF IsCall
      <4> QED
        BY <2>1, <4>1, <4>2
    <3> QED
      BY <1>2, <3>1
  <2>10. c <= f[e] /\ f[e] < f[k] /\ f[e] \in 1..Len(h)
    <3>1. e < k
      BY <1>2, <2>1
    <3> QED
      BY <1>1, <1>2, <2>6, <2>9, <3>1
  <2>11. f[e] <= b
    <3>1. CASE b < f[e]
      <4>1. f[e] \in (b + 1)..f[k]
        <5>1. b \in Nat /\ f[e] \in Nat /\ f[k] \in Nat
          BY <1>1, <2>3, <2>10
        <5> QED
          BY <2>10, <3>1, <5>1
      <4>2. h[f[e]].kind = "call"
        BY DEF Block, IsCall
      <4> QED
        BY <2>7, <4>1, <4>2
    <3> QED
      BY <2>3, <2>10, <3>1
  <2>12. f[e] \in a..b
    BY <2>3, <2>4, <2>10, <2>11
  <2>13. BlockEnd(h, f[e]) = b
    BY <2>3, <2>12, InOneBlock
  <2>14. BlockEnd(h, f[e]) = u
    BY InOneBlock
  <2> QED
    BY <2>3, <2>13, <2>14
<1> QED
  BY <1>4, <1>5

\* Whether a history is paired, in terms of its blocks.
LEMMA PairedIs ==
  ASSUME NEW S, NEW h \in Seq(S)
  PROVE  Paired(h) <=>
           /\ \A s, e : Block(h, s, e) =>
                OneEach([n \in s..e |-> h[n].call], [n \in Following(h, e) |-> h[n].call])
           /\ \A k \in 1..Len(h) : h[k].kind = "result" =>
                \E s, e : Block(h, s, e) /\ k \in Following(h, e)
<1> DEFINE Ends == {n \in DOMAIN h : h[n].kind = "call" /\ BlockEnd(h, n) = n}
<1>1. \A s, e : Block(h, s, e) => e \in Ends /\ s = BlockStart(h, e)
  <2> SUFFICES ASSUME NEW s, NEW e, Block(h, s, e) PROVE e \in Ends /\ s = BlockStart(h, e)
    OBVIOUS
  <2>1. Len(h) \in Nat /\ s \in 1..Len(h) /\ e \in s..Len(h)
    BY DEF Block
  <2>2. e \in 1..Len(h) /\ e \in s..e
    BY <2>1
  <2>3. BlockEnd(h, e) = e /\ BlockStart(h, e) = s
    BY <2>2, InOneBlock
  <2>4. h[e].kind = "call"
    BY <2>2 DEF Block, IsCall
  <2> QED
    BY <2>2, <2>3, <2>4
<1>2. \A e \in Ends : Block(h, BlockStart(h, e), e)
  <2> TAKE e \in Ends
  <2>1. e \in 1..Len(h) /\ IsCall(h, e) /\ BlockEnd(h, e) = e
    BY DEF IsCall
  <2> QED
    BY <2>1, BlockOf
<1>3. Paired(h) <=>
        /\ \A e \in Ends : OneEach([n \in BlockStart(h, e)..e |-> h[n].call], [n \in Following(h, e) |-> h[n].call])
        /\ \A k \in 1..Len(h) : h[k].kind = "result" => \E e \in Ends : k \in Following(h, e)
  BY DEF Paired
<1> HIDE DEF Ends
<1>4. (\A e \in Ends : OneEach([n \in BlockStart(h, e)..e |-> h[n].call], [n \in Following(h, e) |-> h[n].call]))
        <=> \A s, e : Block(h, s, e) =>
              OneEach([n \in s..e |-> h[n].call], [n \in Following(h, e) |-> h[n].call])
  BY <1>1, <1>2
<1>5. \A k : (\E e \in Ends : k \in Following(h, e)) <=> \E s, e : Block(h, s, e) /\ k \in Following(h, e)
  BY <1>1, <1>2
<1> QED
  BY <1>3, <1>4, <1>5

\* A repaired history is paired, whatever was in it.
LEMMA RepairedIsPaired ==
  ASSUME NEW S, NEW h \in Seq(S), NEW f, NEW new \in Seq(S), Repaired(f, h, new)
  PROVE  Paired(new)
<1>1. /\ \A n \in 1..Len(new) : f[n] \in RepairPlaces(h) /\ f[n] \in 1..Len(h) /\ new[n] = h[f[n]]
      /\ \A j, n \in 1..Len(new) : (j < n <=> f[j] < f[n]) /\ (j = n <=> f[j] = f[n]) /\ (j <= n <=> f[j] <= f[n])
      /\ \A n \in RepairPlaces(h) : \E j \in 1..Len(new) : f[j] = n
  BY RepairOrder
<1>2. Len(new) \in Nat /\ Len(h) \in Nat
  OBVIOUS
<1>3. ASSUME NEW s, NEW e, Block(new, s, e)
      PROVE  \E t, u : Block(h, t, u) /\ f[e] \in t..u
  <2>1. e \in 1..Len(new) /\ IsCall(new, e)
    BY <1>2, <1>3 DEF Block
  <2>2. f[e] \in 1..Len(h) /\ IsCall(h, f[e])
    BY <1>1, <2>1, CallFrom
  <2> QED
    BY <2>2, BlockOf
<1>4. ASSUME NEW s, NEW e, Block(new, s, e)
      PROVE  OneEach([n \in s..e |-> new[n].call], [n \in Following(new, e) |-> new[n].call])
  <2>1. PICK t, u : Block(h, t, u) /\ f[e] \in t..u
    BY <1>3, <1>4
  <2> DEFINE calling == [n \in s..e |-> new[n].call]
             results == [n \in Following(new, e) |-> new[n].call]
  <2>2. s \in 1..Len(new) /\ e \in s..Len(new) /\ t \in 1..Len(h) /\ u \in t..Len(h)
    BY <1>4, <2>1 DEF Block
  <2>3. \A n \in s..e : n \in 1..Len(new) /\ f[n] \in t..u /\ f[n] \in 1..Len(h) /\ new[n] = h[f[n]]
    <3>1. \A n \in s..e : n \in 1..Len(new)
      BY <1>2, <2>2
    <3>2. \A n \in s..e : f[n] \in t..u
      BY <1>4, <2>1, FromOneBlock
    <3> QED
      BY <1>1, <3>1, <3>2
  <2>4. \A n \in Following(new, e) : n \in 1..Len(new) /\ f[n] \in ResultsOf(h, u) /\ new[n] = h[f[n]]
    <3>1. \A n \in Following(new, e) : n \in 1..Len(new)
      BY <1>2, <2>2 DEF Following
    <3>2. \A n \in Following(new, e) : f[n] \in ResultsOf(h, u)
      BY <1>4, <2>1, <3>1, FollowingFrom
    <3> QED
      BY <1>1, <3>1, <3>2
  <2>5. \A n \in s..e : KeptCall(h, f[n])
    <3> TAKE n \in s..e
    <3>1. new[n].kind = "call"
      BY <1>4 DEF Block, IsCall
    <3> QED
      BY <1>1, <2>3, <3>1 DEF RepairPlaces
  <2>6. \A n \in s..e : /\ \A c \in t..(f[n] - 1) : h[c].call # h[f[n]].call
                        /\ \E k \in ResultsOf(h, u) : h[k].call = h[f[n]].call
    BY <2>1, <2>3, <2>5, KeptCallIs
  <2>7. \A i, j \in s..e : calling[i] = calling[j] => i = j
    <3>1. ASSUME NEW i \in s..e, NEW j \in s..e, i < j PROVE calling[i] # calling[j]
      <4>1. f[i] < f[j]
        BY <1>1, <2>3, <3>1
      <4>2. f[i] \in t..(f[j] - 1)
        BY <2>2, <2>3, <4>1
      <4> QED
        BY <2>3, <2>6, <4>2
    <3> TAKE i, j \in s..e
    <3>2. i < j \/ j < i \/ i = j
      BY <2>2
    <3> QED
      BY <3>1, <3>2
  <2>8. \A i, j \in Following(new, e) : results[i] = results[j] => i = j
    <3> TAKE i, j \in Following(new, e)
    <3> HAVE results[i] = results[j]
    <3>1. h[f[i]].call = h[f[j]].call
      BY <2>4
    <3>2. f[i] = f[j]
      BY <2>1, <2>4, <3>1, ResultsAre
    <3> QED
      BY <1>1, <2>4, <3>2
  <2>9. \A i \in s..e : \E j \in Following(new, e) : results[j] = calling[i]
    <3> TAKE i \in s..e
    <3>1. PICK k \in ResultsOf(h, u) : h[k].call = h[f[i]].call
      BY <2>6
    <3>2. k \in RepairPlaces(h)
      BY <2>1, ResultKept
    <3>3. PICK j \in 1..Len(new) : f[j] = k
      BY <1>1, <3>2
    <3>4. j \in Following(new, e)
      BY <1>4, <2>1, <3>3, FollowingFrom
    <3> QED
      BY <2>3, <2>4, <3>1, <3>3, <3>4
  <2>10. \A j \in Following(new, e) : \E i \in s..e : calling[i] = results[j]
    <3> TAKE j \in Following(new, e)
    <3>1. PICK c \in t..u : h[c].call = h[f[j]].call /\ KeptCall(h, c)
      BY <2>1, <2>4, FirstKept
    <3>2. c \in RepairPlaces(h)
      <4>1. h[c].kind = "call" /\ c \in 1..Len(h)
        BY <1>2, <2>1, <2>2 DEF Block, IsCall
      <4> QED
        BY <3>1, <4>1 DEF RepairPlaces
    <3>3. PICK i \in 1..Len(new) : f[i] = c
      BY <1>1, <3>2
    <3>4. i \in s..e
      BY <1>4, <2>1, <3>3, FromOneBlock
    <3> QED
      BY <2>3, <2>4, <3>1, <3>3, <3>4
  <2>11. IsFiniteSet(s..e) /\ IsFiniteSet(Following(new, e))
    <3>1. IsFiniteSet(s..e) /\ IsFiniteSet((e + 1)..Len(new))
      BY <1>2, <2>2, FS_Interval
    <3>2. Following(new, e) \in SUBSET ((e + 1)..Len(new))
      BY DEF Following
    <3> QED
      BY <3>1, <3>2, FS_Subset
  <2>12. /\ DOMAIN calling = s..e /\ DOMAIN results = Following(new, e)
         /\ calling = [n \in DOMAIN calling |-> calling[n]]
         /\ results = [n \in DOMAIN results |-> results[n]]
    OBVIOUS
  <2> HIDE DEF calling, results
  <2>13. Distinct(calling) /\ Distinct(results)
    BY <2>7, <2>8, <2>12 DEF Distinct
  <2>14. OneEach(calling, results)
    BY <2>9, <2>10, <2>11, <2>12, <2>13, OneEachIs
  <2> QED
    BY <2>14 DEF calling, results
<1>5. ASSUME NEW k \in 1..Len(new), new[k].kind = "result"
      PROVE  \E s, e : Block(new, s, e) /\ k \in Following(new, e)
  <2>1. KeptResult(h, f[k]) /\ f[k] \in 1..Len(h)
    BY <1>1, <1>5 DEF RepairPlaces
  <2>2. PICK t, u \in 1..Len(h) : Block(h, t, u) /\ f[k] \in ResultsOf(h, u)
    BY <2>1, KeptResultIs
  <2>3. PICK c \in t..u : KeptCall(h, c)
    BY <2>2, FirstKept
  <2>4. c \in RepairPlaces(h) /\ IsCall(h, c)
    <3>1. IsCall(h, c) /\ c \in 1..Len(h)
      BY <1>2, <2>2 DEF Block
    <3> QED
      BY <2>3, <3>1 DEF RepairPlaces, IsCall
  <2>5. PICK n \in 1..Len(new) : f[n] = c
    BY <1>1, <2>4
  <2>6. IsCall(new, n)
    BY <2>4, <2>5, CallFrom
  <2>7. PICK s, e : Block(new, s, e) /\ n \in s..e
    BY <2>6, BlockOf
  <2>8. PICK a, b : Block(h, a, b) /\ f[e] \in a..b
    BY <1>3, <2>7
  <2>9. c \in a..b
    BY <2>5, <2>7, <2>8, FromOneBlock
  <2>10. BlockEnd(h, c) = b /\ BlockEnd(h, c) = u
    BY <2>2, <2>3, <2>8, <2>9, InOneBlock
  <2>11. k \in Following(new, e)
    BY <2>2, <2>7, <2>8, <2>10, FollowingFrom
  <2> QED
    BY <2>7, <2>11
<1> QED
  BY <1>4, <1>5, PairedIs

\* repairModelHistoryItems: whatever is in a history, what is left of it has, for each block
\* of tool calls, one result of each call before anything else is said, and no other results.
THEOREM RepairPairs ==
  ASSUME NEW S, NEW h \in Seq(S)
  PROVE  Repair(h) \in Seq(S) /\ Paired(Repair(h))
<1> DEFINE places == RepairPlaces(h)
<1>1. places \in SUBSET (1..Len(h)) /\ Repair(h) = At(h, places)
  BY DEF RepairPlaces, Repair
<1> HIDE DEF places
<1>2. Repair(h) \in Seq(S) /\ \E f : Picks(f, h, places, Repair(h))
  BY <1>1, AtInOrder
<1>3. PICK f : Repaired(f, h, Repair(h))
  BY <1>2 DEF places, Repaired
<1> QED
  BY <1>2, <1>3, RepairedIsPaired

\* All the items of a history are that history.
LEMMA AtAll ==
  ASSUME NEW S, NEW h \in Seq(S) PROVE At(h, 1..Len(h)) = h
<1> DEFINE N == Len(h)
           places == 1..N
<1>1. N \in Nat
  OBVIOUS
<1>2. \A n \in places : Cardinality({m \in places : m <= n}) = n
  <2> TAKE n \in places
  <2>1. {m \in places : m <= n} = 1..n
    BY <1>1
  <2>2. Cardinality(1..n) = n
    <3>1. n \in Nat
      OBVIOUS
    <3> QED
      BY <3>1, FS_Interval
  <2> QED
    BY <2>1, <2>2
<1>3. \A k \in 1..N : (CHOOSE n \in places : Cardinality({m \in places : m <= n}) = k) = k
  BY <1>2
<1> DEFINE Nth(k) == CHOOSE n \in places : Cardinality({m \in places : m <= n}) = k
<1>4. \A k \in 1..N : Nth(k) = k
  BY <1>3
<1>5. At(h, places) = <<>> \o h
  <2>1. Cardinality(places) = N
    <3> HIDE DEF N
    <3>1. 1 \in Int /\ N \in Int /\ (1 <= N + 1)
      BY <1>1
    <3>2. Cardinality(1..N) = IF 1 > N THEN 0 ELSE N - 1 + 1
      BY <3>1, FS_Interval
    <3> QED
      BY <1>1, <3>2
  <2>2. At(h, places) = <<>> \o [k \in 1..Cardinality(places) |-> h[Nth(k)]]
    BY DEF At
  <2> HIDE DEF Nth, places
  <2>3. h = [k \in 1..N |-> h[k]]
    OBVIOUS
  <2>4. [k \in 1..N |-> h[Nth(k)]] = [k \in 1..N |-> h[k]]
    BY <1>4
  <2> QED
    BY <2>1, <2>2, <2>3, <2>4
<1>6. At(h, places) = h
  BY <1>5, ConcatEmptySeq
<1> QED
  BY <1>6

\* What is neither a call nor a result may follow what is paired.
LEMMA PairedAppend ==
  ASSUME NEW S, NEW h \in Seq(S), Paired(h), NEW x \in S, x.kind \notin {"call", "result"}
  PROVE  Paired(Append(h, x))
<1> DEFINE new == Append(h, x)
<1>1. /\ new \in Seq(S) /\ Len(h) \in Nat /\ Len(new) = Len(h) + 1
      /\ \A k \in 1..Len(h) : new[k] = h[k]
      /\ new[Len(h) + 1] = x
  OBVIOUS
<1> HIDE DEF new
<1>2. \A k \in 1..Len(h) : IsCall(new, k) <=> IsCall(h, k)
  BY <1>1 DEF IsCall
<1>3. ~IsCall(new, Len(h) + 1)
  BY <1>1 DEF IsCall
<1>4. ASSUME NEW s, NEW e, Block(new, s, e) PROVE Block(h, s, e)
  <2>1. s \in 1..Len(new) /\ e \in s..Len(new) /\ IsCall(new, e)
    <3>1. s \in 1..Len(new) /\ e \in s..Len(new)
      BY <1>4 DEF Block
    <3>2. e \in s..e
      BY <1>1, <3>1
    <3> QED
      BY <1>4, <3>1, <3>2 DEF Block
  <2>2. s \in 1..Len(h) /\ e \in s..Len(h)
    <3>1. e # Len(h) + 1
      BY <1>3, <2>1
    <3> QED
      BY <1>1, <2>1, <3>1
  <2>3. \A k \in s..e : k \in 1..Len(h)
    BY <1>1, <2>2
  <2>4. \A k \in s..e : IsCall(h, k)
    BY <1>2, <1>4, <2>3 DEF Block
  <2>5. s = 1 \/ ~IsCall(h, s - 1)
    <3>1. s # 1 => s - 1 \in 1..Len(h)
      BY <1>1, <2>2
    <3> QED
      BY <1>2, <1>4, <3>1 DEF Block
  <2>6. e = Len(h) \/ ~IsCall(h, e + 1)
    <3>1. e # Len(h) => e + 1 \in 1..Len(h) /\ e # Len(new)
      BY <1>1, <2>2
    <3> QED
      BY <1>2, <1>4, <3>1 DEF Block
  <2> QED
    BY <2>2, <2>4, <2>5, <2>6 DEF Block
<1>5. ASSUME NEW s, NEW e, Block(h, s, e)
      PROVE  /\ Block(new, s, e) /\ Following(new, e) = Following(h, e)
             /\ \A k \in s..e : new[k].call = h[k].call
             /\ \A k \in Following(h, e) : new[k].call = h[k].call
  <2>1. s \in 1..Len(h) /\ e \in s..Len(h)
    BY <1>5 DEF Block
  <2>2. \A k \in s..e : k \in 1..Len(h)
    BY <1>1, <2>1
  <2>3. \A k \in s..e : IsCall(new, k)
    BY <1>2, <1>5, <2>2 DEF Block
  <2>4. s = 1 \/ ~IsCall(new, s - 1)
    <3>1. s # 1 => s - 1 \in 1..Len(h)
      BY <1>1, <2>1
    <3> QED
      BY <1>2, <1>5, <3>1 DEF Block
  <2>5. ~IsCall(new, e + 1)
    <3>1. CASE e = Len(h)
      BY <1>3, <3>1
    <3>2. CASE e # Len(h)
      <4>1. e + 1 \in 1..Len(h)
        BY <1>1, <2>1, <3>2
      <4>2. ~IsCall(h, e + 1)
        BY <1>5, <3>2 DEF Block
      <4> QED
        BY <1>2, <4>1, <4>2
    <3> QED
      BY <3>1, <3>2
  <2>6. s \in 1..Len(new) /\ e \in s..Len(new)
    BY <1>1, <2>1
  <2>7. Block(new, s, e)
    BY <2>3, <2>4, <2>5, <2>6 DEF Block
  <2>8. ASSUME NEW k PROVE k \in Following(new, e) <=> k \in Following(h, e)
    <3>1. ASSUME k \in Following(new, e) PROVE k \in (e + 1)..Len(h)
      <4>1. k \in (e + 1)..Len(new) /\ new[k].kind = "result"
        BY <3>1 DEF Following
      <4>2. k # Len(h) + 1
        BY <1>1, <4>1
      <4> QED
        BY <1>1, <2>1, <4>1, <4>2
    <3>2. k \in Following(h, e) => k \in (e + 1)..Len(h)
      BY DEF Following
    <3>3. ASSUME k \in (e + 1)..Len(h) PROVE k \in Following(new, e) <=> k \in Following(h, e)
      <4>1. k \in (e + 1)..Len(new) /\ k \in 1..Len(h) /\ \A j \in (e + 1)..k : j \in 1..Len(h)
        BY <1>1, <2>1, <3>3
      <4> QED
        BY <1>1, <3>3, <4>1 DEF Following
    <3> QED
      BY <3>1, <3>2, <3>3
  <2>9. Following(new, e) = Following(h, e)
    <3>1. Following(new, e) \in SUBSET ((e + 1)..Len(new)) /\ Following(h, e) \in SUBSET ((e + 1)..Len(h))
      BY DEF Following
    <3> QED
      BY <2>8
  <2>10. \A k \in Following(h, e) : k \in 1..Len(h)
    BY <1>1, <2>1 DEF Following
  <2> QED
    BY <1>1, <2>2, <2>7, <2>9, <2>10
<1>6. ASSUME NEW s, NEW e, Block(new, s, e)
      PROVE  OneEach([n \in s..e |-> new[n].call], [n \in Following(new, e) |-> new[n].call])
  <2>1. Block(h, s, e)
    BY <1>4, <1>6
  <2>2. OneEach([n \in s..e |-> h[n].call], [n \in Following(h, e) |-> h[n].call])
    BY <2>1, PairedIs
  <2>3. /\ [n \in s..e |-> h[n].call] = [n \in s..e |-> new[n].call]
        /\ [n \in Following(h, e) |-> h[n].call] = [n \in Following(new, e) |-> new[n].call]
    BY <1>5, <2>1
  <2> QED
    BY <2>2, <2>3
<1>7. ASSUME NEW k \in 1..Len(new), new[k].kind = "result"
      PROVE  \E s, e : Block(new, s, e) /\ k \in Following(new, e)
  <2>1. k \in 1..Len(h) /\ h[k].kind = "result"
    <3>1. k # Len(h) + 1
      BY <1>1, <1>7
    <3>2. k \in 1..Len(h)
      BY <1>1, <3>1
    <3> QED
      BY <1>1, <1>7, <3>2
  <2>2. PICK s, e : Block(h, s, e) /\ k \in Following(h, e)
    BY <2>1, PairedIs
  <2> QED
    BY <1>5, <2>2
<1>8. Paired(new)
  BY <1>1, <1>6, <1>7, PairedIs
<1> QED
  BY <1>8 DEF new

-----------------------------------------------------------------------------
(* Messages                                                                 *)

MessagesOf(S) ==
  [role : {"user", "system", "assistant", "tool"}, calls : Seq({x.call : x \in S}),
   step : {0} \cup {x.step : x \in S}, of : {{}} \cup {x.of : x \in S}]

\* The messages of calls ask for each only once, and get one answer to each name.
IsCalling(m, n) == m[n].role = "assistant" /\ m[n].calls # <<>>
Good(m) ==
  \A n \in 1..Len(m) : IsCalling(m, n) =>
    /\ Distinct(m[n].calls)
    /\ \A j, k \in Answers(m, n) : m[j].calls[1] = m[k].calls[1] => j = k

\* What an item becomes: nothing, a message that is not an answer, or that of calls
\* with their answers.
Unit(u) ==
  u # <<>> =>
    /\ u[1].role # "tool"
    /\ \A k \in 2..Len(u) : u[k].role = "tool"
    /\ IsCalling(u, 1) =>
         /\ Distinct(u[1].calls)
         /\ \A j, k \in 2..Len(u) : u[j].calls[1] = u[k].calls[1] => j = k

LEMMA GoodWithUnit ==
  ASSUME NEW M, NEW m \in Seq(M), NEW u \in Seq(M), Good(m), Unit(u)
  PROVE  Good(m \o u)
<1> DEFINE new == m \o u
<1>1. /\ new \in Seq(M) /\ Len(m) \in Nat /\ Len(u) \in Nat /\ Len(new) = Len(m) + Len(u)
      /\ \A k \in 1..Len(m) : new[k] = m[k]
      /\ \A k \in 1..Len(u) : new[Len(m) + k] = u[k]
  OBVIOUS
<1> HIDE DEF new
<1>2. u # <<>> => 1 \in 1..Len(u)
  BY <1>1
<1>3. u # <<>> => new[Len(m) + 1] = u[1] /\ u[1].role # "tool"
  BY <1>1, <1>2 DEF Unit
<1>4. \A k \in 2..Len(u) : u # <<>> /\ new[Len(m) + k] = u[k]
  BY <1>1
<1>5. ASSUME NEW n \in 1..Len(new), IsCalling(new, n)
      PROVE  /\ Distinct(new[n].calls)
             /\ \A j, k \in Answers(new, n) : new[j].calls[1] = new[k].calls[1] => j = k
  <2>1. \A k \in Answers(new, n) :
          k \in (n + 1)..Len(new) /\ \A j \in (n + 1)..k : new[j].role = "tool"
    BY DEF Answers
  <2>2. CASE n \in 1..Len(m)
    <3>1. \A k \in Answers(new, n) : k \in 1..Len(m)
      <4> SUFFICES ASSUME NEW k \in Answers(new, n), k \notin 1..Len(m) PROVE FALSE
        OBVIOUS
      <4>1. u # <<>> /\ Len(m) + 1 \in (n + 1)..k
        BY <1>1, <2>1, <2>2
      <4> QED
        BY <1>3, <2>1, <4>1
    <3>2. \A k \in Answers(new, n) : k \in Answers(m, n) /\ new[k] = m[k]
      <4> TAKE k \in Answers(new, n)
      <4>1. k \in (n + 1)..Len(m) /\ \A j \in (n + 1)..k : j \in 1..Len(m)
        BY <1>1, <2>1, <2>2, <3>1
      <4> QED
        BY <1>1, <2>1, <3>1, <4>1 DEF Answers
    <3>3. IsCalling(m, n) /\ new[n] = m[n]
      BY <1>1, <1>5, <2>2 DEF IsCalling
    <3> QED
      BY <2>2, <3>2, <3>3 DEF Good
  <2>3. CASE n = Len(m) + 1
    <3>1. u # <<>>
      BY <1>1, <2>3
    <3>2. new[n] = u[1] /\ IsCalling(u, 1)
      BY <1>3, <1>5, <2>3, <3>1 DEF IsCalling
    <3>3. \A k \in Answers(new, n) : k - Len(m) \in 2..Len(u) /\ new[k] = u[k - Len(m)] /\ k \in Nat
      <4> TAKE k \in Answers(new, n)
      <4>1. k - Len(m) \in 2..Len(u) /\ Len(m) + (k - Len(m)) = k /\ k \in Nat
        BY <1>1, <2>1, <2>3
      <4> QED
        BY <1>4, <4>1
    <3>4. /\ Distinct(u[1].calls)
          /\ \A j, k \in 2..Len(u) : u[j].calls[1] = u[k].calls[1] => j = k
      BY <3>1, <3>2 DEF Unit
    <3>5. ASSUME NEW j \in Answers(new, n), NEW k \in Answers(new, n), new[j].calls[1] = new[k].calls[1]
          PROVE  j = k
      <4>1. j - Len(m) = k - Len(m)
        <5> DEFINE a == j - Len(m)  b == k - Len(m)
        <5>1. a \in 2..Len(u) /\ b \in 2..Len(u) /\ new[j] = u[a] /\ new[k] = u[b]
          BY <3>3
        <5> HIDE DEF a, b
        <5>2. a = b
          BY <3>4, <3>5, <5>1
        <5> QED
          BY <5>2 DEF a, b
      <4>2. j \in Nat /\ k \in Nat
        BY <3>3
      <4> QED
        BY <1>1, <4>1, <4>2
    <3> QED
      BY <3>2, <3>4, <3>5
  <2>4. CASE n > Len(m) + 1
    <3>1. n - Len(m) \in 2..Len(u) /\ Len(m) + (n - Len(m)) = n
      BY <1>1, <2>4
    <3>2. new[n].role = "tool"
      <4> DEFINE a == n - Len(m)
      <4>1. a \in 2..Len(u) /\ u # <<>> /\ new[n] = u[a]
        BY <1>4, <3>1
      <4> HIDE DEF a
      <4>2. u[a].role = "tool"
        BY <4>1 DEF Unit
      <4> QED
        BY <4>1, <4>2
    <3> QED
      BY <1>5, <3>2 DEF IsCalling
  <2> QED
    BY <1>1, <2>2, <2>3, <2>4
<1>6. Good(new)
  BY <1>5 DEF Good
<1> QED
  BY <1>6 DEF new

CallsDiffer(h) == \A s, e : Block(h, s, e) => \A i, j \in s..e : h[i].call = h[j].call => i = j

LEMMA BlockMessagesUnit ==
  ASSUME NEW S, NEW h \in Seq(S), CallsDiffer(h), NEW n, NEW e, Block(h, n, e)
  PROVE  BlockMessages(h, n) \in Seq(MessagesOf(S)) /\ Unit(BlockMessages(h, n))
<1> DEFINE C == {x.call : x \in S}
           M == MessagesOf(S)
           block == SubSeq(h, n, e)
           results == At(h, ResultsOf(h, n))
           asking == [k \in DOMAIN block |-> block[k].call]
           first == [Message("assistant") EXCEPT !.calls = asking]
           rest == [k \in DOMAIN results |->
                      [Message("tool") EXCEPT !.calls = <<results[k].call>>, !.step = results[k].step]]
<1>1. Len(h) \in Nat /\ n \in 1..Len(h) /\ e \in n..Len(h) /\ n \in n..e
  BY DEF Block
<1>2. BlockEnd(h, n) = e
  BY <1>1, InOneBlock
<1>3. block \in Seq(S) /\ Len(block) = (e - n) + 1 /\ \A k \in 1..Len(block) : block[k] = h[(n + k) - 1]
  BY <1>1
<1>4. ResultsOf(h, n) \in SUBSET (1..Len(h))
  <2>1. ResultsOf(h, n) = ResultsOf(h, e)
    BY <1>1, ResultsAre
  <2>2. \A k \in ResultsOf(h, e) : k \in (e + 1)..Len(h)
    BY ResultsAre
  <2> QED
    BY <1>1, <2>1, <2>2
<1>5. results \in Seq(S) /\ \E g : Picks(g, h, ResultsOf(h, n), results)
  <2> DEFINE places == ResultsOf(h, n)
  <2>1. places \in SUBSET (1..Len(h))
    BY <1>4
  <2> HIDE DEF places
  <2>2. At(h, places) \in Seq(S) /\ \E g : Picks(g, h, places, At(h, places))
    BY <2>1, AtInOrder
  <2> QED
    BY <2>2 DEF places
<1>6. \A j, k \in 1..Len(results) : results[j].call = results[k].call => j = k
  <2> HIDE DEF results
  <2> DEFINE places == ResultsOf(h, n)
  <2>1. PICK g : Picks(g, h, places, results) /\ places \in SUBSET (1..Len(h))
    BY <1>4, <1>5
  <2>2. \A j, k \in places : h[j].call = h[k].call => j = k
    <3>1. places = ResultsOf(h, e)
      BY <1>1, ResultsAre
    <3> HIDE DEF places
    <3> QED
      BY <3>1, ResultsAre
  <2> HIDE DEF places
  <2>3. Ordered(g, h, places, results)
    BY <1>5, <2>1, PicksOrder
  <2> TAKE j, k \in 1..Len(results)
  <2> HAVE results[j].call = results[k].call
  <2>4. g[j] \in places /\ g[k] \in places /\ results[j] = h[g[j]] /\ results[k] = h[g[k]]
    BY <2>3 DEF Ordered
  <2>5. g[j] = g[k]
    BY <2>2, <2>4
  <2> QED
    BY <2>3, <2>5 DEF Ordered
<1> HIDE DEF block, results
<1>7. asking \in Seq(C) /\ DOMAIN asking = 1..Len(block)
  <2>1. asking = [k \in 1..Len(block) |-> block[k].call]
    BY <1>3
  <2>2. \A k \in 1..Len(block) : block[k].call \in C
    <3>1. \A k \in 1..Len(block) : block[k] \in S
      BY <1>3
    <3> QED
      BY <3>1
  <2> HIDE DEF C
  <2>3. asking \in [1..Len(block) -> C]
    BY <2>1, <2>2
  <2>4. Len(block) \in Nat
    BY <1>3
  <2> HIDE DEF asking
  <2> QED
    BY <2>3, <2>4
<1>8. Distinct(asking)
  <2>1. \A k \in 1..Len(block) : (n + k) - 1 \in n..e /\ asking[k] = h[(n + k) - 1].call
    BY <1>1, <1>3
  <2> HIDE DEF asking
  <2>2. \A i, j \in n..e : h[i].call = h[j].call => i = j
    BY DEF CallsDiffer
  <2>3. \A i, j \in 1..Len(block) : asking[i] = asking[j] => i = j
    <3> TAKE i, j \in 1..Len(block)
    <3> HAVE asking[i] = asking[j]
    <3>1. (n + i) - 1 = (n + j) - 1
      BY <2>1, <2>2
    <3> QED
      BY <1>1, <3>1
  <2> QED
    BY <1>7, <2>3 DEF Distinct
<1>9. first \in [role : {"assistant"}, calls : Seq(C), step : {0}, of : {{}}] /\ first.calls = asking
  <2> HIDE DEF asking, C
  <2> QED
    BY <1>7 DEF Message
<1>10. first \in M /\ first.role = "assistant" /\ first.calls = asking
  <2> HIDE DEF asking, first
  <2> QED
    BY <1>9 DEF MessagesOf
<1>11. /\ rest \in Seq(M) /\ Len(rest) = Len(results)
       /\ \A k \in 1..Len(rest) : rest[k].role = "tool" /\ rest[k].calls[1] = results[k].call
  <2>1. Len(results) \in Nat /\ DOMAIN results = 1..Len(results)
    BY <1>5
  <2> DEFINE Answer(k) == [Message("tool") EXCEPT !.calls = <<results[k].call>>, !.step = results[k].step]
  <2>2. \A k \in 1..Len(results) :
          Answer(k) \in M /\ Answer(k).role = "tool" /\ Answer(k).calls[1] = results[k].call
    <3> TAKE k \in 1..Len(results)
    <3>1. results[k] \in S
      BY <1>5
    <3>2. results[k].call \in C /\ results[k].step \in {x.step : x \in S}
      BY <3>1
    <3> DEFINE steps == {x.step : x \in S}
    <3> HIDE DEF C, steps
    <3>3. <<results[k].call>> \in Seq(C)
      BY <3>2
    <3>4. results[k].step \in steps
      BY <3>2 DEF steps
    <3>5. /\ Answer(k) \in [role : {"tool"}, calls : Seq(C), step : {0} \cup steps, of : {{}}]
          /\ Answer(k).calls = <<results[k].call>>
      BY <3>3, <3>4 DEF Message
    <3> HIDE DEF Answer
    <3>6. Answer(k) \in [role : {"user", "system", "assistant", "tool"}, calls : Seq(C),
                         step : {0} \cup steps, of : {{}} \cup {x.of : x \in S}]
      BY <3>5
    <3> QED
      BY <3>5, <3>6 DEF MessagesOf, C, steps
  <2>7. rest = [k \in 1..Len(results) |-> Answer(k)]
    BY <2>1
  <2> HIDE DEF Answer, rest
  <2>3. rest = [k \in 1..Len(results) |-> rest[k]]
    BY <2>7
  <2>4. \A k \in 1..Len(results) : rest[k] \in M /\ rest[k].role = "tool" /\ rest[k].calls[1] = results[k].call
    BY <2>2, <2>7
  <2> HIDE DEF M
  <2>5. rest \in [1..Len(results) -> M]
    BY <2>3, <2>4
  <2> QED
    BY <2>1, <2>4, <2>5
<1>12. BlockMessages(h, n) = <<first>> \o rest
  BY <1>2 DEF BlockMessages, block, results
<1> HIDE DEF first, rest, asking
<1> DEFINE u == <<first>> \o rest
<1>13. /\ u \in Seq(M) /\ u[1] = first /\ Len(u) = Len(rest) + 1 /\ Len(rest) \in Nat
       /\ \A k \in 2..Len(u) : k - 1 \in 1..Len(rest) /\ u[k] = rest[k - 1]
  <2> HIDE DEF M
  <2> QED
    BY <1>10, <1>11
<1> HIDE DEF u
<1>14. ASSUME NEW j \in 2..Len(u), NEW k \in 2..Len(u), u[j].calls[1] = u[k].calls[1] PROVE j = k
  <2>1. /\ j - 1 \in 1..Len(results) /\ k - 1 \in 1..Len(results)
        /\ results[j - 1].call = results[k - 1].call
    BY <1>11, <1>13, <1>14
  <2>2. j - 1 = k - 1
    BY <1>6, <2>1
  <2> QED
    BY <2>2
<1>15. u[1].role # "tool" /\ Distinct(u[1].calls)
  BY <1>8, <1>10, <1>13
<1>16. \A k \in 2..Len(u) : u[k].role = "tool"
  BY <1>11, <1>13
<1>17. Unit(u)
  BY <1>14, <1>15, <1>16 DEF Unit
<1> QED
  BY <1>12, <1>13, <1>17 DEF u

LEMMA MessagesAtUnit ==
  ASSUME NEW S, NEW h \in Seq(S), CallsDiffer(h), NEW n \in 1..Len(h)
  PROVE  MessagesAt(h, n) \in Seq(MessagesOf(S)) /\ Unit(MessagesAt(h, n))
<1> DEFINE M == MessagesOf(S)
           u == MessagesAt(h, n)
           made == [Message("system") EXCEPT !.of = h[n].of]
<1>1. h[n] \in S
  OBVIOUS
<1>2. ASSUME NEW x \in M, x.role # "tool", x.calls = <<>> PROVE <<x>> \in Seq(M) /\ Unit(<<x>>)
  <2>1. <<x>> \in Seq(M) /\ Len(<<x>>) = 1 /\ <<x>>[1] = x
    OBVIOUS
  <2>2. \A k \in 2..Len(<<x>>) : FALSE
    BY <2>1
  <2> QED
    BY <1>2, <2>1, <2>2 DEF Unit, IsCalling
<1>3. \A role \in {"user", "system", "assistant"} : /\ Message(role) \in M /\ Message(role).role # "tool"
                                                    /\ Message(role).calls = <<>>
  <2> DEFINE C == {x.call : x \in S}
  <2> HIDE DEF C
  <2>1. <<>> \in Seq(C)
    OBVIOUS
  <2>2. \A role \in {"user", "system", "assistant"} :
          /\ Message(role) \in [role : {"user", "system", "assistant", "tool"}, calls : Seq(C), step : {0}, of : {{}}]
          /\ Message(role).role # "tool" /\ Message(role).calls = <<>>
    BY <2>1 DEF Message
  <2>3. \A x \in [role : {"user", "system", "assistant", "tool"}, calls : Seq(C), step : {0}, of : {{}}] : x \in M
    BY DEF MessagesOf, C
  <2> QED
    BY <2>2, <2>3
<1>4. made \in M /\ made.role # "tool" /\ made.calls = <<>>
  <2> DEFINE C == {x.call : x \in S}
             ofs == {x.of : x \in S}
  <2>1. h[n].of \in ofs
    BY <1>1
  <2> HIDE DEF C, ofs
  <2>2. <<>> \in Seq(C)
    OBVIOUS
  <2>3. /\ made \in [role : {"system"}, calls : Seq(C), step : {0}, of : ofs]
        /\ made.role # "tool" /\ made.calls = <<>>
    BY <2>1, <2>2 DEF Message
  <2> HIDE DEF made
  <2>4. made \in [role : {"user", "system", "assistant", "tool"}, calls : Seq(C),
                  step : {0} \cup {x.step : x \in S}, of : {{}} \cup ofs]
    BY <2>3
  <2> QED
    BY <2>3, <2>4 DEF MessagesOf, C, ofs
<1>5. <<>> \in Seq(M) /\ Unit(<<>>)
  BY DEF Unit
<1> HIDE DEF M, made
<1>6. \/ u \in {<<Message("user")>>, <<made>>, <<Message("assistant")>>, <<>>}
      \/ h[n].kind = "call" /\ BlockStart(h, n) = n /\ u = BlockMessages(h, n)
  BY DEF MessagesAt, made
<1>7. ASSUME h[n].kind = "call", BlockStart(h, n) = n, u = BlockMessages(h, n)
      PROVE  u \in Seq(M) /\ Unit(u)
  <2>1. IsCall(h, n)
    BY <1>7 DEF IsCall
  <2>2. Block(h, n, BlockEnd(h, n))
    BY <1>7, <2>1, BlockOf
  <2>3. BlockMessages(h, n) \in Seq(MessagesOf(S)) /\ Unit(BlockMessages(h, n))
    BY <2>2, BlockMessagesUnit
  <2> QED
    BY <1>7, <2>3 DEF M
<1> HIDE DEF u
<1>8. ASSUME u \in {<<Message("user")>>, <<made>>, <<Message("assistant")>>, <<>>}
      PROVE  u \in Seq(M) /\ Unit(u)
  BY <1>2, <1>3, <1>4, <1>5, <1>8
<1>9. u \in Seq(M) /\ Unit(u)
  BY <1>6, <1>7, <1>8
<1> QED
  BY <1>9 DEF M, u

\* The messages of the first items, one item after the other.
Joins(f, n, h) ==
  f = [k \in 0..n |-> IF k = 0 THEN <<>> ELSE f[k - 1] \o MessagesAt(h, k)]

\* By induction on the number of items.
LEMMA JoinsExists ==
  ASSUME NEW h PROVE \A n \in Nat : \E f : Joins(f, n, h)
<1> DEFINE Joined(n) == \E f : Joins(f, n, h)
           failing == {n \in Nat : ~Joined(n)}
<1> SUFFICES ASSUME failing # {} PROVE FALSE
  OBVIOUS
<1>1. PICK n \in failing : \A m \in failing : n <= m
  <2>1. failing \in SUBSET Nat
    OBVIOUS
  <2> HIDE DEF failing
  <2> QED
    BY <2>1, LeastNatural
<1>2. n \in Nat /\ ~Joined(n)
  BY <1>1
<1>3. CASE n = 0
  <2> DEFINE f == [k \in 0..n |-> <<>>]
  <2>1. Joins(f, n, h)
    BY <1>3 DEF Joins
  <2> QED
    BY <1>2, <2>1
<1>4. CASE n # 0
  <2>1. n - 1 \in Nat /\ n - 1 < n
    BY <1>2, <1>4
  <2>2. Joined(n - 1)
    <3>1. n - 1 \notin failing
      <4> HIDE DEF failing
      <4> QED
        BY <1>1, <1>2, <2>1
    <3> QED
      BY <2>1, <3>1
  <2>3. PICK g : Joins(g, n - 1, h)
    BY <2>2
  <2> DEFINE More(v, k) == v[k - 1] \o MessagesAt(h, k)
             f == [k \in 0..n |-> IF k = n THEN More(g, n) ELSE g[k]]
  <2>4. g = [k \in 0..(n - 1) |-> IF k = 0 THEN <<>> ELSE More(g, k)]
    BY <2>3 DEF Joins
  <2>5. \A k \in 0..n : k # n => f[k] = IF k = 0 THEN <<>> ELSE More(g, k)
    <3>1. \A k \in 0..n : k # n => k \in 0..(n - 1)
      BY <1>2, <2>1
    <3> HIDE DEF More
    <3>2. \A k \in 0..(n - 1) : g[k] = IF k = 0 THEN <<>> ELSE More(g, k)
      BY <2>4
    <3> QED
      BY <3>1, <3>2
  <2>6. \A k \in 0..n : k # 0 => f[k - 1] = g[k - 1]
    BY <1>2, <2>1
  <2>7. \A k \in 0..n : f[k] = IF k = 0 THEN <<>> ELSE More(f, k)
    BY <1>2, <1>4, <2>1, <2>5, <2>6
  <2>8. f = [k \in 0..n |-> f[k]]
    OBVIOUS
  <2> HIDE DEF f
  <2>9. f = [k \in 0..n |-> IF k = 0 THEN <<>> ELSE More(f, k)]
    BY <2>7, <2>8
  <2> QED
    BY <1>2, <2>9 DEF Joins
<1> QED
  BY <1>3, <1>4

LEMMA GoodMessages ==
  ASSUME NEW S, NEW h \in Seq(S), CallsDiffer(h)
  PROVE  Messages(h) \in Seq(MessagesOf(S)) /\ Good(Messages(h))
<1> DEFINE M == MessagesOf(S)
           N == Len(h)
           upto == CHOOSE f : Joins(f, N, h)
<1>1. N \in Nat
  OBVIOUS
<1>2. Joins(upto, N, h)
  BY <1>1, JoinsExists
<1>3. Messages(h) = upto[N]
  BY DEF Messages, Joins
<1> HIDE DEF upto
<1>4. upto[0] = <<>> /\ \A k \in 1..N : upto[k] = upto[k - 1] \o MessagesAt(h, k)
  <2> DEFINE More(k) == upto[k - 1] \o MessagesAt(h, k)
  <2>1. upto = [k \in 0..N |-> IF k = 0 THEN <<>> ELSE More(k)]
    BY <1>2 DEF Joins
  <2>2. 0 \in 0..N /\ \A k \in 1..N : k \in 0..N /\ k # 0
    BY <1>1
  <2> HIDE DEF More, N
  <2>3. upto[0] = <<>> /\ \A k \in 1..N : upto[k] = More(k)
    BY <2>1, <2>2
  <2> QED
    BY <2>3 DEF More
<1>5. \A k \in 1..N : MessagesAt(h, k) \in Seq(M) /\ Unit(MessagesAt(h, k))
  BY MessagesAtUnit
<1> HIDE DEF M
<1> DEFINE Holds(n) == upto[n] \in Seq(M) /\ Good(upto[n])
           failing == {n \in 0..N : ~Holds(n)}
<1> SUFFICES ASSUME failing # {} PROVE FALSE
  <2>1. N \in 0..N
    BY <1>1
  <2>2. failing = {} => Holds(N)
    BY <2>1
  <2> QED
    BY <1>3, <2>2 DEF M
<1>6. PICK n \in failing : \A m \in failing : n <= m
  <2>1. failing \in SUBSET Nat
    BY <1>1
  <2> HIDE DEF failing
  <2> QED
    BY <2>1, LeastNatural
<1>7. n \in 0..N /\ ~Holds(n)
  BY <1>6
<1>8. CASE n = 0
  <2>1. upto[n] = <<>>
    BY <1>4, <1>8
  <2>2. <<>> \in Seq(M) /\ Good(<<>>)
    BY DEF Good
  <2> QED
    BY <1>7, <2>1, <2>2
<1>9. CASE n # 0
  <2>1. n \in 1..N /\ n - 1 \in 0..N /\ n - 1 < n
    BY <1>1, <1>7, <1>9
  <2>2. Holds(n - 1)
    <3>1. n - 1 \notin failing
      <4> HIDE DEF failing
      <4> QED
        BY <1>1, <1>6, <1>7, <2>1
    <3> QED
      BY <2>1, <3>1
  <2>3. upto[n] = upto[n - 1] \o MessagesAt(h, n)
    BY <1>4, <2>1
  <2>4. upto[n - 1] \o MessagesAt(h, n) \in Seq(M)
    BY <1>5, <2>1, <2>2
  <2>5. Good(upto[n - 1] \o MessagesAt(h, n))
    BY <1>5, <2>1, <2>2, GoodWithUnit
  <2> QED
    BY <1>7, <2>3, <2>4, <2>5
<1> QED
  BY <1>8, <1>9

LEMMA HealedIsValid ==
  ASSUME NEW S, NEW m \in Seq(MessagesOf(S)), Good(m)
  PROVE  Healed(m) \in Seq(MessagesOf(S)) /\ Valid(Healed(m))
<1> DEFINE M == MessagesOf(S)
           Asked(n) == {m[n].calls[c] : c \in DOMAIN m[n].calls}
           Answered(n) == \A c \in Asked(n) : \E k \in Answers(m, n) : m[k].calls = <<c>>
           Keep(n) == /\ IsCalling(m, n) => Answered(n)
                      /\ m[n].role = "tool" =>
                           \E a \in 1..(n - 1) : /\ IsCalling(m, a) /\ Answered(a) /\ n \in Answers(m, a)
                                                 /\ m[n].calls[1] \in Asked(a)
           places == {n \in 1..Len(m) : Keep(n)}
           new == Healed(m)
<1>1. new = At(m, places)
  <2>1. Healed(m) = At(m, {n \in DOMAIN m : Keep(n)})
    BY Zenon DEF Healed, IsCalling
  <2>2. DOMAIN m = 1..Len(m)
    OBVIOUS
  <2> HIDE DEF Keep
  <2> QED
    BY <2>1, <2>2
<1>2. Len(m) \in Nat /\ places \in SUBSET (1..Len(m))
  OBVIOUS
<1>3. \A n \in 1..Len(m) : n \in places <=> Keep(n)
  OBVIOUS
<1> HIDE DEF places, new
<1>4. new \in Seq(M) /\ \E f : Picks(f, m, places, new)
  <2> HIDE DEF M
  <2>1. m \in Seq(M)
    BY DEF M
  <2> QED
    BY <1>1, <1>2, <2>1, AtInOrder
<1>5. PICK f : Ordered(f, m, places, new)
  <2> HIDE DEF M
  <2>1. m \in Seq(M)
    BY DEF M
  <2> QED
    BY <1>2, <1>4, <2>1, PicksOrder
<1>6. /\ \A k \in 1..Len(new) : f[k] \in places /\ f[k] \in 1..Len(m) /\ new[k] = m[f[k]]
      /\ \A j, k \in 1..Len(new) : (j < k <=> f[j] < f[k]) /\ (j = k <=> f[j] = f[k]) /\ (j <= k <=> f[j] <= f[k])
      /\ \A n \in places : \E k \in 1..Len(new) : f[k] = n
  BY <1>5 DEF Ordered
<1>7. Len(new) \in Nat /\ DOMAIN new = 1..Len(new)
  BY <1>4
<1>8. \A n \in 1..Len(m) : IsCalling(m, n) => m[n].role # "tool"
  BY DEF IsCalling
<1> HIDE DEF Asked, Answered, Keep
<1>9. ASSUME NEW n \in 1..Len(new), IsCalling(new, n)
      PROVE  IsCalling(m, f[n]) /\ Answered(f[n])
  <2>1. IsCalling(m, f[n])
    BY <1>6, <1>9 DEF IsCalling
  <2> QED
    BY <1>3, <1>6, <2>1 DEF Keep
<1>10. ASSUME NEW k \in 1..Len(new), new[k].role = "tool"
       PROVE  \E n \in 1..Len(new) : /\ IsCalling(m, f[n]) /\ f[k] \in Answers(m, f[n])
                                     /\ m[f[k]].calls[1] \in Asked(f[n])
  <2>1. Keep(f[k]) /\ m[f[k]].role = "tool" /\ f[k] \in 1..Len(m)
    BY <1>3, <1>6, <1>10
  <2>2. PICK a \in 1..(f[k] - 1) : /\ IsCalling(m, a) /\ Answered(a) /\ f[k] \in Answers(m, a)
                                   /\ m[f[k]].calls[1] \in Asked(a)
    BY <2>1 DEF Keep
  <2>3. a \in 1..Len(m)
    BY <1>2, <2>1
  <2>4. a \in places
    BY <1>3, <1>8, <2>2, <2>3 DEF Keep
  <2> QED
    BY <1>6, <2>2, <2>4
<1>11. \A n, k : k \in Answers(m, n) <=> k \in (n + 1)..Len(m) /\ \A j \in (n + 1)..k : m[j].role = "tool"
  BY DEF Answers
<1>12. \A n, k : k \in Answers(new, n) <=> k \in (n + 1)..Len(new) /\ \A j \in (n + 1)..k : new[j].role = "tool"
  BY DEF Answers
\* The answers that are kept are those of the same calls.
<1>13. ASSUME NEW n \in 1..Len(new), NEW k \in 1..Len(new), IsCalling(m, f[n]), f[k] \in Answers(m, f[n])
       PROVE  k \in Answers(new, n)
  <2>1. f[k] \in (f[n] + 1)..Len(m) /\ \A j \in (f[n] + 1)..f[k] : m[j].role = "tool"
    BY <1>11, <1>13
  <2>2. f[n] \in 1..Len(m) /\ f[k] \in 1..Len(m)
    BY <1>6
  <2>3. k \in (n + 1)..Len(new)
    <3>1. f[n] < f[k]
      BY <2>1, <2>2
    <3>2. n < k
      BY <1>6, <3>1
    <3> QED
      BY <1>7, <3>2
  <2>4. ASSUME NEW j \in (n + 1)..k PROVE new[j].role = "tool"
    <3>1. j \in 1..Len(new) /\ n < j /\ j <= k
      BY <1>7
    <3>2. f[n] < f[j] /\ f[j] <= f[k] /\ f[j] \in 1..Len(m)
      BY <1>6, <3>1
    <3>3. f[j] \in (f[n] + 1)..f[k]
      BY <2>2, <3>2
    <3>4. m[f[j]].role = "tool"
      BY <2>1, <3>3
    <3>5. new[j] = m[f[j]]
      BY <1>6, <3>1
    <3> QED
      BY <3>4, <3>5
  <2> QED
    BY <1>12, <2>3, <2>4
<1>14. ASSUME NEW n \in 1..Len(new), NEW k \in Answers(new, n), IsCalling(new, n)
       PROVE  k \in 1..Len(new) /\ f[k] \in Answers(m, f[n]) /\ m[f[k]].calls[1] \in Asked(f[n])
  <2>1. k \in (n + 1)..Len(new) /\ \A j \in (n + 1)..k : new[j].role = "tool"
    BY <1>12
  <2>2. k \in 1..Len(new) /\ new[k].role = "tool" /\ n < k
    BY <1>7, <2>1
  <2>3. PICK a \in 1..Len(new) : /\ IsCalling(m, f[a]) /\ f[k] \in Answers(m, f[a])
                                 /\ m[f[k]].calls[1] \in Asked(f[a])
    BY <1>10, <2>2
  <2>4. f[k] \in (f[a] + 1)..Len(m) /\ \A j \in (f[a] + 1)..f[k] : m[j].role = "tool"
    BY <1>11, <2>3
  <2>5. /\ f[a] \in 1..Len(m) /\ f[n] \in 1..Len(m) /\ f[k] \in 1..Len(m)
        /\ m[f[a]].role # "tool" /\ m[f[n]].role # "tool"
    BY <1>6, <1>8, <1>9, <1>14, <2>2, <2>3
  <2>6. a < k /\ f[n] < f[k]
    <3>1. f[a] < f[k]
      BY <2>4, <2>5
    <3> QED
      BY <1>6, <2>2, <3>1
  <2>7. ~(n < a)
    <3> SUFFICES ASSUME n < a PROVE FALSE
      OBVIOUS
    <3>1. a \in (n + 1)..k
      BY <1>7, <2>2, <2>6
    <3>2. new[a].role = "tool"
      BY <2>1, <3>1
    <3> QED
      BY <1>6, <2>5, <3>2
  <2>8. ~(a < n)
    <3> SUFFICES ASSUME a < n PROVE FALSE
      OBVIOUS
    <3>1. f[a] < f[n]
      BY <1>6
    <3>2. f[n] \in (f[a] + 1)..f[k]
      BY <2>5, <2>6, <3>1
    <3> QED
      BY <2>4, <2>5, <3>2
  <2>9. a = n
    BY <1>7, <2>7, <2>8
  <2> QED
    BY <2>2, <2>3, <2>9
<1>15. ASSUME NEW n \in 1..Len(new), IsCalling(new, n)
       PROVE  OneEach(new[n].calls, [k \in Answers(new, n) |-> new[k].calls[1]])
  <2> DEFINE calling == new[n].calls
             answers == [k \in Answers(new, n) |-> new[k].calls[1]]
  <2>1. f[n] \in 1..Len(m) /\ new[n] = m[f[n]] /\ IsCalling(m, f[n]) /\ Answered(f[n])
    BY <1>6, <1>9, <1>15
  <2>2. /\ Distinct(m[f[n]].calls)
        /\ \A j, k \in Answers(m, f[n]) : m[j].calls[1] = m[k].calls[1] => j = k
    BY <2>1 DEF Good
  <2>3. \A k \in Answers(new, n) : /\ k \in 1..Len(new) /\ f[k] \in Answers(m, f[n]) /\ new[k] = m[f[k]]
                                   /\ m[f[k]].calls[1] \in Asked(f[n])
    BY <1>6, <1>14, <1>15
  <2>4. Distinct(calling)
    BY <2>1, <2>2
  <2>5. DOMAIN answers = Answers(new, n) /\ answers = [k \in DOMAIN answers |-> answers[k]]
    OBVIOUS
  <2>6. \A i, j \in Answers(new, n) : answers[i] = answers[j] => i = j
    <3> TAKE i, j \in Answers(new, n)
    <3> HAVE answers[i] = answers[j]
    <3>1. m[f[i]].calls[1] = m[f[j]].calls[1]
      BY <2>3
    <3>2. f[i] = f[j]
      BY <2>2, <2>3, <3>1
    <3> QED
      BY <1>6, <2>3, <3>2
  <2>7. \A c \in DOMAIN calling : \E k \in Answers(new, n) : answers[k] = calling[c]
    <3> TAKE c \in DOMAIN calling
    <3>1. calling[c] \in Asked(f[n])
      BY <2>1 DEF Asked
    <3>2. PICK k \in Answers(m, f[n]) : m[k].calls = <<calling[c]>>
      BY <2>1, <3>1 DEF Answered
    <3>3. m[k].calls[1] = calling[c]
      BY <3>2
    <3>4. k \in (f[n] + 1)..Len(m) /\ \A j \in (f[n] + 1)..k : m[j].role = "tool"
      BY <1>11
    <3>5. k \in 1..Len(m) /\ f[n] \in 1..(k - 1) /\ m[k].role = "tool"
      BY <1>2, <2>1, <3>4
    <3>6. Keep(k)
      BY <1>8, <2>1, <3>1, <3>3, <3>5 DEF Keep
    <3>7. PICK i \in 1..Len(new) : f[i] = k
      BY <1>3, <1>6, <3>5, <3>6
    <3>8. i \in Answers(new, n)
      BY <1>13, <2>1, <3>7
    <3> QED
      BY <2>3, <3>3, <3>7, <3>8
  <2>8. \A k \in Answers(new, n) : \E c \in DOMAIN calling : calling[c] = answers[k]
    BY <2>1, <2>3 DEF Asked
  <2>9. IsFiniteSet(DOMAIN calling) /\ calling = [c \in DOMAIN calling |-> calling[c]]
    <3>1. new[n] \in M
      BY <1>4
    <3>2. calling \in Seq({x.call : x \in S})
      BY <3>1 DEF MessagesOf
    <3> HIDE DEF calling
    <3>3. DOMAIN calling = 1..Len(calling) /\ Len(calling) \in Nat
      BY <3>2
    <3>4. IsFiniteSet(1..Len(calling))
      BY <3>3, FS_Interval
    <3>5. calling = [c \in DOMAIN calling |-> calling[c]]
      BY <3>2
    <3> QED
      BY <3>3, <3>4, <3>5
  <2>10. IsFiniteSet(DOMAIN answers)
    <3>1. Answers(new, n) \in SUBSET ((n + 1)..Len(new))
      BY <1>12
    <3>2. IsFiniteSet((n + 1)..Len(new))
      BY <1>7, FS_Interval
    <3> QED
      BY <2>5, <3>1, <3>2, FS_Subset
  <2> HIDE DEF calling, answers
  <2>11. Distinct(answers)
    BY <2>5, <2>6 DEF Distinct
  <2>12. OneEach(calling, answers)
    BY <2>4, <2>5, <2>7, <2>8, <2>9, <2>10, <2>11, OneEachIs
  <2> QED
    BY <2>12 DEF calling, answers
<1>16. ASSUME NEW k \in 1..Len(new), new[k].role = "tool"
       PROVE  \E n \in 1..Len(new) : IsCalling(new, n) /\ k \in Answers(new, n)
  <2>1. PICK n \in 1..Len(new) : IsCalling(m, f[n]) /\ f[k] \in Answers(m, f[n])
    BY <1>10, <1>16
  <2>2. IsCalling(new, n)
    BY <1>6, <2>1 DEF IsCalling
  <2> QED
    BY <1>13, <2>1, <2>2
<1>17. Valid(new)
  BY <1>7, <1>15, <1>16 DEF Valid, IsCalling
<1> QED
  BY <1>4, <1>17 DEF new

LEMMA PairedCallsDiffer ==
  ASSUME NEW S, NEW h \in Seq(S), Paired(h) PROVE CallsDiffer(h)
<1> SUFFICES ASSUME NEW s, NEW e, Block(h, s, e)
             PROVE  \A i, j \in s..e : h[i].call = h[j].call => i = j
  BY DEF CallsDiffer
<1> DEFINE T == {h[n].call : n \in s..e}
           f == [n \in s..e |-> h[n].call]
<1>1. Len(h) \in Nat /\ s \in 1..Len(h) /\ e \in s..Len(h)
  BY DEF Block
<1>2. OneEach(f, [n \in Following(h, e) |-> h[n].call])
  BY PairedIs
<1>3. Cardinality({f[n] : n \in s..e}) = Cardinality(s..e)
  BY <1>2 DEF OneEach
<1>4. {f[n] : n \in s..e} = T
  OBVIOUS
<1>5. IsFiniteSet(s..e)
  BY <1>1, FS_Interval
<1>6. f \in Surjection(s..e, T)
  <2>1. f \in [s..e -> T] /\ \A t \in T : \E n \in s..e : f[n] = t
    OBVIOUS
  <2> HIDE DEF f, T
  <2> QED
    BY <2>1 DEF Surjection
<1>7. f \in Injection(s..e, T)
  <2> HIDE DEF f, T
  <2> QED
    BY <1>3, <1>4, <1>5, <1>6, FS_Surjection
<1>8. \A i, j \in s..e : f[i] = f[j] => i = j
  <2> HIDE DEF f, T
  <2> QED
    BY <1>7 DEF Injection, IsInjective
<1> QED
  BY <1>8

\* collectMessages: what is sent of a history is valid, whatever was in it: each message with
\* calls is followed by one answer to each, and no answer stands elsewhere.
THEOREM WireIsValid ==
  ASSUME NEW S, NEW h \in Seq(S)
  PROVE  Wire(h) \in Seq(MessagesOf(S)) /\ Valid(Wire(h))
<1>1. Repair(h) \in Seq(S) /\ Paired(Repair(h))
  BY RepairPairs
<1>2. CallsDiffer(Repair(h))
  BY <1>1, PairedCallsDiffer
<1>3. Messages(Repair(h)) \in Seq(MessagesOf(S)) /\ Good(Messages(Repair(h)))
  BY <1>1, <1>2, GoodMessages
<1> QED
  BY <1>3, HealedIsValid DEF Wire

-----------------------------------------------------------------------------
(* The types of what is written, kept and sent                              *)

Names == CallIds \cup {""}
Kinds == {"user", "reasoning", "text", "call", "result", "input", "approval", "error"}

\* The ids of the items: a summary has the number of the fold, so the next is new.
PlainIds ==
  (Kinds \X Nat \X Nat) \cup ({"call"} \X Nat \X CallIds)
    \cup ({"result", "storm", "input", "approval"} \X CallIds)
Ids(n) == PlainIds \cup ({"summary"} \X Nat \X (0..(n - 1)))

Items(n) ==
  [id : Ids(n), kind : Kinds \cup {"summary"}, turn : Nat, call : Names, step : Nat, open : BOOLEAN,
   of : SUBSET (Names \X Nat)]
Ops == [how : {"add", "change", "either"}, item : Items(0)]
SentMessages ==
  [role : {"user", "system", "assistant", "tool"}, calls : Seq(Names), step : Nat, of : SUBSET (Names \X Nat)]

RequestTypeOK ==
  /\ items \in Seq(Items(folds))
  /\ place \in {"idle", "head", "stream", "tools"}
  /\ turn \in Nat /\ step \in Nat /\ folds \in Nat /\ faults \in Nat
  /\ calls \in Seq(CallIds)
  /\ ops \in Seq(Ops)
  /\ late \in [turn : Nat, ops : Seq(Ops)]
  /\ route \in [items : Seq(Items(folds)), open : BOOLEAN]
  /\ sent \in Seq(SentMessages)
  /\ owed \in SUBSET Items(0)
  /\ mixed \in BOOLEAN

LEMMA SeqGrows ==
  ASSUME NEW A, NEW B, A \in SUBSET B, NEW h \in Seq(A) PROVE h \in Seq(B)
<1>1. h \in [1..Len(h) -> A] /\ Len(h) \in Nat
  OBVIOUS
<1>2. h \in [1..Len(h) -> B]
  BY <1>1
<1> QED
  BY <1>1, <1>2

LEMMA ItemsGrow ==
  ASSUME NEW n \in Nat
  PROVE  /\ Items(0) \in SUBSET Items(n) /\ Items(n) \in SUBSET Items(n + 1)
         /\ \A t \in Nat : <<"summary", t, n>> \in Ids(n + 1) /\ <<"summary", t, n>> \notin Ids(n)
<1>1. Ids(0) \in SUBSET Ids(n)
  <2>1. 0..(0 - 1) = {}
    OBVIOUS
  <2> QED
    BY <2>1 DEF Ids
<1>2. Ids(n) \in SUBSET Ids(n + 1)
  <2>1. 0..(n - 1) \in SUBSET (0..((n + 1) - 1))
    OBVIOUS
  <2> QED
    BY <2>1 DEF Ids
<1>3. Items(0) \in SUBSET Items(n)
  <2> DEFINE I == Ids(0)  J == Ids(n)
  <2>1. I \in SUBSET J
    BY <1>1
  <2> HIDE DEF I, J
  <2>2. \A x : x \in [id : I, kind : Kinds \cup {"summary"}, turn : Nat, call : Names, step : Nat, open : BOOLEAN,
                      of : SUBSET (Names \X Nat)] =>
               x \in [id : J, kind : Kinds \cup {"summary"}, turn : Nat, call : Names, step : Nat, open : BOOLEAN,
                      of : SUBSET (Names \X Nat)]
    BY <2>1
  <2> QED
    BY <2>2 DEF Items, I, J
<1>4. Items(n) \in SUBSET Items(n + 1)
  <2> DEFINE I == Ids(n)  J == Ids(n + 1)
  <2>1. I \in SUBSET J
    BY <1>2
  <2> HIDE DEF I, J
  <2>2. \A x : x \in [id : I, kind : Kinds \cup {"summary"}, turn : Nat, call : Names, step : Nat, open : BOOLEAN,
                      of : SUBSET (Names \X Nat)] =>
               x \in [id : J, kind : Kinds \cup {"summary"}, turn : Nat, call : Names, step : Nat, open : BOOLEAN,
                      of : SUBSET (Names \X Nat)]
    BY <2>1
  <2> QED
    BY <2>2 DEF Items, I, J
<1>5. ASSUME NEW t \in Nat PROVE <<"summary", t, n>> \in Ids(n + 1) /\ <<"summary", t, n>> \notin Ids(n)
  <2>1. n \in 0..((n + 1) - 1) /\ n \notin 0..(n - 1)
    OBVIOUS
  <2>2. <<"summary", t, n>> \in {"summary"} \X Nat \X (0..((n + 1) - 1))
    BY <2>1
  <2>3. <<"summary", t, n>> \notin {"summary"} \X Nat \X (0..(n - 1))
    BY <2>1
  <2>4. <<"summary", t, n>> \notin PlainIds
    BY DEF PlainIds, Kinds
  <2> QED
    BY <2>2, <2>3, <2>4 DEF Ids
<1> QED
  BY <1>3, <1>4, <1>5

LEMMA ItemTyped ==
  ASSUME NEW kind \in Kinds, NEW t \in Nat, NEW s \in Nat
  PROVE  Item(kind, t, s) \in Items(0) /\ ~Item(kind, t, s).open /\ Item(kind, t, s).kind = kind
<1>1. <<kind, t, s>> \in Ids(0)
  BY DEF Ids, PlainIds
<1>2. "" \in Names /\ {} \in SUBSET (Names \X Nat) /\ kind \in Kinds \cup {"summary"}
  BY DEF Names
<1> QED
  BY <1>1, <1>2 DEF Item, Items

LEMMA AtTyped ==
  ASSUME NEW S, NEW h \in Seq(S), NEW places \in SUBSET (DOMAIN h) PROVE At(h, places) \in Seq(S)
<1>1. places \in SUBSET (1..Len(h))
  OBVIOUS
<1> QED
  BY <1>1, AtInOrder

LEMMA PutTyped ==
  ASSUME NEW S, NEW h \in Seq(S), NEW x \in S PROVE Put(h, x) \in Seq(S)
<1> DEFINE places == {n \in DOMAIN h : h[n].id # x.id}
<1>1. places \in SUBSET (DOMAIN h)
  OBVIOUS
<1>2. Put(h, x) = Append(At(h, places), x)
  BY DEF Put
<1> HIDE DEF places
<1>3. At(h, places) \in Seq(S)
  BY <1>1, AtTyped
<1> QED
  BY <1>2, <1>3

LEMMA WriteTyped ==
  ASSUME NEW n \in Nat, NEW h \in Seq(Items(n)), NEW op \in Ops PROVE Write(h, op) \in Seq(Items(n))
<1>1. op.item \in Items(n) /\ op.item.open \in BOOLEAN
  <2>1. op.item \in Items(0)
    BY DEF Ops
  <2> QED
    BY <2>1, ItemsGrow DEF Items
<1>2. CASE op.how # "add" /\ Has(h, op.item.id)
  <2> DEFINE there == CHOOSE k \in DOMAIN h : h[k].id = op.item.id
             new == [h[there] EXCEPT !.open = op.item.open]
  <2>1. there \in DOMAIN h
    BY <1>2 DEF Has
  <2>2. h[there] \in Items(n)
    <3> HIDE DEF there
    <3> QED
      BY <2>1
  <2>3. new \in Items(n)
    <3> HIDE DEF there
    <3> QED
      BY <1>1, <2>2 DEF Items
  <2>4. Write(h, op) = Put(h, new)
    BY <1>2 DEF Write
  <2> HIDE DEF new
  <2> QED
    BY <2>3, <2>4, PutTyped
<1>3. CASE ~(op.how # "add" /\ Has(h, op.item.id))
  <2>1. Write(h, op) \in {h, Put(h, op.item)}
    BY <1>3 DEF Write
  <2>2. Put(h, op.item) \in Seq(Items(n))
    BY <1>1, PutTyped
  <2> QED
    BY <2>1, <2>2
<1> QED
  BY <1>2, <1>3

LEMMA FinalizedTyped ==
  ASSUME NEW n \in Nat, NEW h \in Seq(Items(n)), NEW t PROVE Finalized(h, t) \in Seq(Items(n))
<1> DEFINE open == {k \in DOMAIN h : h[k].turn = t /\ h[k].open}
           closed == At(h, open)
           others == At(h, DOMAIN h \ open)
           new == [k \in DOMAIN closed |-> [closed[k] EXCEPT !.open = FALSE]]
<1>1. open \in SUBSET (DOMAIN h) /\ DOMAIN h \ open \in SUBSET (DOMAIN h)
  OBVIOUS
<1>2. Finalized(h, t) = others \o new
  BY DEF Finalized
<1> HIDE DEF open
<1>3. closed \in Seq(Items(n)) /\ others \in Seq(Items(n))
  BY <1>1, AtTyped
<1> HIDE DEF closed, others
<1>4. new \in Seq(Items(n))
  <2>1. DOMAIN closed = 1..Len(closed) /\ Len(closed) \in Nat
    BY <1>3
  <2>2. \A k \in 1..Len(closed) : new[k] \in Items(n)
    <3> TAKE k \in 1..Len(closed)
    <3>1. closed[k] \in Items(n)
      BY <1>3
    <3>2. [closed[k] EXCEPT !.open = FALSE] \in Items(n)
      BY <3>1 DEF Items
    <3> QED
      BY <2>1, <3>2
  <2>3. new = [k \in 1..Len(closed) |-> new[k]]
    BY <2>1
  <2> HIDE DEF new
  <2>4. new \in [1..Len(closed) -> Items(n)]
    BY <2>2, <2>3
  <2> QED
    BY <2>1, <2>4
<1> HIDE DEF new
<1> QED
  BY <1>2, <1>3, <1>4

LEMMA OutcomeTyped ==
  ASSUME RequestHistoryAssumption, turn \in Nat, step \in Nat, NEW c \in CallIds, NEW writes \in CallOutcomes(c)
  PROVE  writes \in Seq(Ops)
<1> DEFINE call == CallItem(turn, c, step)
           result == Result(<<"result", c>>, turn, c, step)
           storm == [result EXCEPT !.id = <<"storm", c>>]
           hook == [result EXCEPT !.id = <<"call", turn, c>>]
           question == [Item("input", turn, step) EXCEPT !.id = <<"input", c>>, !.open = TRUE]
           approval == [Item("approval", turn, step) EXCEPT !.id = <<"approval", c>>, !.open = TRUE]
<1>1. /\ Item("call", turn, step) \in Items(0) /\ Item("result", turn, step) \in Items(0)
      /\ Item("input", turn, step) \in Items(0) /\ Item("approval", turn, step) \in Items(0)
  <2>1. "call" \in Kinds /\ "result" \in Kinds /\ "input" \in Kinds /\ "approval" \in Kinds
    BY DEF Kinds
  <2> QED
    BY <2>1, ItemTyped
<1>2. /\ <<"call", turn, c>> \in Ids(0) /\ <<"result", c>> \in Ids(0) /\ <<"storm", c>> \in Ids(0)
      /\ <<"input", c>> \in Ids(0) /\ <<"approval", c>> \in Ids(0) /\ c \in Names
  BY DEF Ids, PlainIds, Names
<1>3. call \in Items(0) /\ result \in Items(0)
  BY <1>1, <1>2 DEF CallItem, Result, Items
<1>4. question \in Items(0) /\ approval \in Items(0)
  BY <1>1, <1>2 DEF Items
<1> HIDE DEF call, result
<1>5. storm \in Items(0) /\ hook \in Items(0)
  BY <1>2, <1>3 DEF Items
<1> HIDE DEF question, approval, storm, hook
<1>6. ASSUME NEW x \in Items(0) PROVE Adding(x) \in Ops /\ Closing(x) \in Ops /\ Showing(x) \in Ops
  <2>1. [x EXCEPT !.open = FALSE] \in Items(0) /\ [x EXCEPT !.open = TRUE] \in Items(0)
    BY DEF Items
  <2> QED
    BY <2>1 DEF Adding, Closing, Showing, Ops
<1>7. /\ Closing(call) \in Ops /\ Adding(result) \in Ops /\ Showing(result) \in Ops
      /\ Adding(question) \in Ops /\ Closing(question) \in Ops /\ Adding(storm) \in Ops
      /\ Adding(approval) \in Ops /\ Adding(hook) \in Ops
  BY <1>3, <1>4, <1>5, <1>6
<1>8. PICK way \in Ways : writes = Outcome(way, c)
  BY DEF CallOutcomes
<1>9. way \in {"result", "partial", "asked", "storm", "refused", "hook"}
  BY DEF RequestHistoryAssumption
<1>10. writes \in {<<Closing(call), Adding(result)>>, <<Showing(result), Closing(call), Adding(result)>>,
                   <<Adding(question), Closing(question), Closing(call), Adding(result)>>,
                   <<Closing(call), Adding(storm)>>, <<Closing(call), Adding(approval)>>,
                   <<Closing(call), Adding(hook)>>}
  BY <1>8, <1>9 DEF Outcome, call, result, question, approval, storm, hook
<1> HIDE DEF call, result
<1>11. \A v, w, x, y \in Ops : <<v, w>> \in Seq(Ops) /\ <<v, w, x>> \in Seq(Ops) /\ <<v, w, x, y>> \in Seq(Ops)
  OBVIOUS
<1> DEFINE closed == Closing(call)  given == Adding(result)  shown == Showing(result)  asks == Adding(question)
           answers == Closing(question)  stormed == Adding(storm)  refused == Adding(approval)  hooked == Adding(hook)
<1>12. writes \in {<<closed, given>>, <<shown, closed, given>>, <<asks, answers, closed, given>>,
                  <<closed, stormed>>, <<closed, refused>>, <<closed, hooked>>}
  BY <1>10
<1>13. {closed, given, shown, asks, answers, stormed, refused, hooked} \in SUBSET Ops
  BY <1>7
<1> HIDE DEF closed, given, shown, asks, answers, stormed, refused, hooked
<1>14. \A w \in {closed, given, shown, asks, answers, stormed, refused, hooked} : w \in Ops
  BY <1>13
<1>15. /\ <<closed, given>> \in Seq(Ops) /\ <<shown, closed, given>> \in Seq(Ops)
       /\ <<asks, answers, closed, given>> \in Seq(Ops)
  BY <1>11, <1>14
<1>16. <<closed, stormed>> \in Seq(Ops) /\ <<closed, refused>> \in Seq(Ops) /\ <<closed, hooked>> \in Seq(Ops)
  BY <1>11, <1>14
<1> QED
  BY <1>12, <1>15, <1>16

-----------------------------------------------------------------------------
(* Folding                                                                  *)

LEMMA EffectiveTyped ==
  ASSUME NEW S, NEW h \in Seq(S) PROVE Effective(h) \in Seq(S) /\ Trimmed(h) \in Seq(S)
<1> DEFINE folded == {n \in DOMAIN h : h[n].kind = "summary"}
           recent == {n \in DOMAIN h : \A f \in folded : f <= n}
           trimmed == {n \in DOMAIN h : \E k \in n..Len(h) : h[k].kind # "call"}
<1>1. recent \in SUBSET (DOMAIN h) /\ trimmed \in SUBSET (DOMAIN h)
  OBVIOUS
<1>2. Effective(h) \in {h, At(h, recent)} /\ Trimmed(h) = At(h, trimmed)
  BY DEF Effective, Trimmed
<1> HIDE DEF recent, trimmed
<1>3. At(h, recent) \in Seq(S) /\ At(h, trimmed) \in Seq(S)
  BY <1>1, AtTyped
<1> QED
  BY <1>2, <1>3

LEMMA SummaryTyped ==
  ASSUME folds \in Nat, NEW h \in Seq(Items(folds)), NEW keep, NEW t \in Nat
  PROVE  /\ Summary(h, keep, t) \in Items(folds + 1)
         /\ Summary(h, keep, t).id = <<"summary", t, folds>>
         /\ Summary(h, keep, t).kind = "summary"
<1>1. Told(h) \in SUBSET (Names \X Nat)
  <2> DEFINE T(n) == IF h[n].kind = "result" THEN {<<h[n].call, h[n].step>>} ELSE h[n].of
  <2>1. \A n \in DOMAIN h : T(n) \in SUBSET (Names \X Nat)
    <3> TAKE n \in DOMAIN h
    <3>1. h[n] \in Items(folds)
      OBVIOUS
    <3>2. h[n].call \in Names /\ h[n].step \in Nat /\ h[n].of \in SUBSET (Names \X Nat)
      BY <3>1 DEF Items
    <3> QED
      BY <3>2
  <2>2. Told(h) = UNION {T(n) : n \in DOMAIN h}
    BY DEF Told
  <2> HIDE DEF T
  <2> QED
    BY <2>1, <2>2
<1>2. <<"summary", t, folds>> \in Ids(folds + 1)
  BY ItemsGrow
<1>3. "" \in Names /\ "summary" \in Kinds \cup {"summary"}
  BY DEF Names
<1> DEFINE made == Told(h)
           summary == [Item("summary", t, folds) EXCEPT !.of = made]
<1>4. made \in SUBSET (Names \X Nat) /\ Summary(h, keep, t) = summary
  BY <1>1 DEF Summary
<1> HIDE DEF made
<1>5. summary \in Items(folds + 1)
  BY <1>2, <1>3, <1>4 DEF Item, Items
<1>6. summary.id = <<"summary", t, folds>> /\ summary.kind = "summary"
  BY DEF Item
<1> QED
  BY <1>4, <1>5, <1>6

LEMMA CompactedTyped ==
  ASSUME RequestHistoryAssumption, folds \in Nat, NEW h \in Seq(Items(folds)), NEW keep \in Keeps, NEW t \in Nat
  PROVE  /\ Compacted(h, keep, t) \in Seq(Items(folds + 1))
         /\ Folds(h) => /\ Compacted(h, keep, t)[1] \in Items(folds + 1)
                        /\ Compacted(h, keep, t)[1].id = <<"summary", t, folds>>
                        /\ Compacted(h, keep, t)[1].kind = "summary"
<1> DEFINE whole == Trimmed(h)
           tail == Kept(whole, keep)
           rest == SubSeq(whole, Len(whole) - tail + 1, Len(whole))
           summary == Summary(whole, tail, t)
<1>1. whole \in Seq(Items(folds)) /\ Len(whole) \in Nat
  BY EffectiveTyped
<1>2. Compacted(h, keep, t) = IF Folds(h) THEN <<summary>> \o rest ELSE whole
  BY DEF Compacted
<1> HIDE DEF whole
<1>3. \A x \in Seq(Items(folds)) : x \in Seq(Items(folds + 1))
  BY ItemsGrow, SeqGrows
<1>4. summary \in Items(folds + 1) /\ summary.id = <<"summary", t, folds>> /\ summary.kind = "summary"
  BY <1>1, SummaryTyped
<1> HIDE DEF summary
<1>5. CASE Folds(h)
  <2>1. Len(whole) > 1
    BY <1>5 DEF Folds, whole
  <2>2. tail \in Nat /\ tail < Len(whole)
    <3>1. keep \in Nat
      BY DEF RequestHistoryAssumption
    <3> QED
      BY <1>1, <2>1, <3>1 DEF Kept
  <2> HIDE DEF tail
  <2>3. rest \in Seq(Items(folds))
    <3>1. Len(whole) - tail + 1 \in 1..(Len(whole) + 1) /\ Len(whole) \in 0..Len(whole)
      BY <1>1, <2>2
    <3>2. \A k \in (Len(whole) - tail + 1)..Len(whole) : k \in 1..Len(whole)
      BY <1>1, <2>2
    <3> QED
      BY <1>1, <3>1, <3>2
  <2>4. rest \in Seq(Items(folds + 1))
    BY <1>3, <2>3
  <2> HIDE DEF rest
  <2>5. <<summary>> \o rest \in Seq(Items(folds + 1)) /\ (<<summary>> \o rest)[1] = summary
    BY <1>4, <2>4
  <2> QED
    BY <1>2, <1>4, <1>5, <2>5
<1>6. CASE ~Folds(h)
  BY <1>1, <1>2, <1>3, <1>6
<1> QED
  BY <1>5, <1>6

\* What is sent has a type, too.
LEMMA SentTyped ==
  ASSUME NEW n \in Nat, NEW h \in Seq(Items(n)) PROVE Wire(h) \in Seq(SentMessages) /\ Valid(Wire(h))
<1>1. Wire(h) \in Seq(MessagesOf(Items(n))) /\ Valid(Wire(h))
  BY WireIsValid
<1>2. \A x \in Items(n) : x.call \in Names /\ x.step \in Nat /\ x.of \in SUBSET (Names \X Nat)
  BY DEF Items
<1> DEFINE I == Items(n)
           C == {x.call : x \in I}
<1>3. C \in SUBSET Names
  BY <1>2
<1> HIDE DEF C
<1>4. \A x \in Seq(C) : x \in Seq(Names)
  BY <1>3, SeqGrows
<1>5. {0} \cup {x.step : x \in I} \in SUBSET Nat
  BY <1>2
<1>6. {{}} \cup {x.of : x \in I} \in SUBSET (SUBSET (Names \X Nat))
  BY <1>2
<1> DEFINE T == {0} \cup {x.step : x \in I}
           O == {{}} \cup {x.of : x \in I}
<1> HIDE DEF T, O
<1>7. [role : {"user", "system", "assistant", "tool"}, calls : Seq(C), step : T, of : O] \in SUBSET SentMessages
  BY <1>4, <1>5, <1>6 DEF SentMessages, T, O
<1>8. MessagesOf(I) \in SUBSET SentMessages
  BY <1>7 DEF MessagesOf, C, T, O
<1> QED
  BY <1>1, <1>8, SeqGrows

\* A summary that is written to a paired history leaves it paired: its id is new.
LEMMA SummaryKeepsPairs ==
  ASSUME NEW n \in Nat, NEW h \in Seq(Items(n)), Paired(h), NEW t \in Nat,
         NEW x \in Items(n + 1), x.id = <<"summary", t, n>>, x.kind = "summary"
  PROVE  Paired(Put(h, x))
<1>1. \A k \in 1..Len(h) : h[k].id # x.id
  <2> TAKE k \in 1..Len(h)
  <2>1. h[k] \in Items(n)
    OBVIOUS
  <2>2. h[k].id \in Ids(n)
    BY <2>1 DEF Items
  <2>3. <<"summary", t, n>> \notin Ids(n)
    BY ItemsGrow
  <2> QED
    BY <2>2, <2>3
<1>2. {k \in DOMAIN h : h[k].id # x.id} = 1..Len(h)
  BY <1>1
<1>3. At(h, 1..Len(h)) = h
  BY AtAll
<1>4. Put(h, x) = Append(h, x)
  BY <1>2, <1>3 DEF Put
<1>5. h \in Seq(Items(n + 1))
  BY ItemsGrow, SeqGrows
<1> QED
  BY <1>4, <1>5, PairedAppend

-----------------------------------------------------------------------------
(* Steps                                                                    *)

\* The loop's state, and what is left of another's.
LEMMA StopTyped ==
  ASSUME RequestTypeOK, Stop
  PROVE  place' \in {"idle", "head", "stream", "tools"} /\ calls' \in Seq(CallIds) /\ ops' \in Seq(Ops) /\ faults' \in Nat
  BY DEF Stop, RequestTypeOK

LEMMA LeftoversTyped ==
  ASSUME RequestHistoryAssumption, RequestTypeOK, calls # <<>> => Head(calls) \in CallIds, NEW left \in Leftovers
  PROVE  left \in Seq(Ops)
<1>1. turn \in Nat /\ step \in Nat /\ ops \in Seq(Ops)
  BY DEF RequestTypeOK
<1> DEFINE text == Adding(Item("text", turn, step))
<1>2. text \in Ops
  <2>1. "text" \in Kinds
    BY DEF Kinds
  <2>2. Item("text", turn, step) \in Items(0)
    BY <1>1, <2>1, ItemTyped
  <2> QED
    BY <2>2 DEF Adding, Ops
<1>3. calls # <<>> => \A w \in CallOutcomes(Head(calls)) : w \in Seq(Ops)
  BY <1>1, OutcomeTyped
<1> HIDE DEF text
<1>4. <<>> \in Seq(Ops) /\ <<text>> \in Seq(Ops)
  BY <1>2
<1>5. \/ left \in {<<>>, <<text>>, ops}
      \/ calls # <<>> /\ left \in CallOutcomes(Head(calls))
  BY DEF Leftovers, text
<1> QED
  BY <1>1, <1>3, <1>4, <1>5

LEMMA RequestInitTyped ==
  ASSUME RequestInit PROVE RequestTypeOK
<1> DEFINE O == Seq(Ops)  I == Seq(Items(folds))  C == Seq(CallIds)  M == Seq(SentMessages)
<1>1. <<>> \in O /\ <<>> \in I /\ <<>> \in C /\ <<>> \in M
  OBVIOUS
<1>2. {} \in SUBSET Items(0)
  OBVIOUS
<1> HIDE DEF O, I, C, M
<1>3. /\ items \in I /\ calls \in C /\ ops \in O /\ sent \in M
      /\ late \in [turn : Nat, ops : O] /\ route \in [items : I, open : BOOLEAN]
  BY <1>1 DEF RequestInit, NoRoute
<1>4. /\ place \in {"idle", "head", "stream", "tools"}
      /\ turn \in Nat /\ step \in Nat /\ folds \in Nat /\ faults \in Nat
      /\ owed \in SUBSET Items(0) /\ mixed \in BOOLEAN
  BY <1>2 DEF RequestInit
<1> QED
  BY <1>3, <1>4 DEF RequestTypeOK, O, I, C, M

\* A step keeps the types, and one that sends a request leaves a file that is paired,
\* and has sent what is valid.
LEMMA RequestStep ==
  ASSUME RequestHistoryAssumption, RequestTypeOK, RequestNext
  PROVE  RequestTypeOK' /\ (step' # step => (Paired(items) /\ Valid(sent))')
<1> DEFINE Sends == step' # step => (Paired(items) /\ Valid(sent))'
<1>1. /\ items \in Seq(Items(folds)) /\ place \in {"idle", "head", "stream", "tools"}
      /\ turn \in Nat /\ step \in Nat /\ folds \in Nat /\ faults \in Nat
      /\ calls \in Seq(CallIds) /\ ops \in Seq(Ops) /\ late \in [turn : Nat, ops : Seq(Ops)]
      /\ route \in [items : Seq(Items(folds)), open : BOOLEAN] /\ sent \in Seq(SentMessages)
      /\ owed \in SUBSET Items(0) /\ mixed \in BOOLEAN
  BY DEF RequestTypeOK
<1>2. \A x \in Items(0) : x \in Items(folds)
  BY <1>1, ItemsGrow
<1>3. \A kind \in Kinds, t \in Nat, s \in Nat : Item(kind, t, s) \in Items(0) /\ Item(kind, t, s) \in Items(folds)
  BY <1>1, <1>2, ItemTyped
<1>4. \A x \in Items(folds), h \in Seq(Items(folds)) : Put(h, x) \in Seq(Items(folds))
  BY PutTyped
<1>5. "user" \in Kinds /\ "error" \in Kinds /\ "call" \in Kinds
  BY DEF Kinds
<1>6. \A t : Finalized(items, t) \in Seq(Items(folds))
  BY <1>1, FinalizedTyped
<1>7. ASSUME StartTurn PROVE RequestTypeOK' /\ Sends
  <2>1. turn + 1 \in Nat /\ Item("user", turn + 1, step) \in Items(folds)
    BY <1>1, <1>3, <1>5
  <2>2. items' \in Seq(Items(folds))
    BY <1>1, <1>4, <1>7, <2>1 DEF StartTurn
  <2> QED
    BY <1>1, <1>7, <2>1, <2>2 DEF StartTurn, RequestTypeOK
<1>8. ASSUME Request PROVE RequestTypeOK' /\ Sends
  <2> DEFINE healed == Repair(items)
             h == Repair(Effective(healed))
  <2>1. healed \in Seq(Items(folds)) /\ Paired(healed)
    BY <1>1, RepairPairs
  <2> HIDE DEF healed
  <2>2. h \in Seq(Items(folds))
    BY <2>1, EffectiveTyped, RepairPairs
  <2>3. items' = healed /\ sent' = Wire(h)
    BY <1>8 DEF Request, healed
  <2> HIDE DEF h
  <2>4. sent' \in Seq(SentMessages) /\ Valid(sent')
    BY <1>1, <2>2, <2>3, SentTyped
  <2>5. (Paired(items) /\ Valid(sent))'
    BY <2>1, <2>3, <2>4
  <2>6. step' \in Nat
    BY <1>1, <1>8 DEF Request
  <2> QED
    BY <1>1, <1>8, <2>1, <2>3, <2>4, <2>5, <2>6 DEF Request, RequestTypeOK
<1>9. ASSUME NEW keep \in Keeps, RequestFolded(keep) PROVE RequestTypeOK' /\ Sends
  <2> DEFINE healed == Repair(items)
             h == Repair(Effective(healed))
             folded == Compacted(h, keep, turn)
  <2>1. healed \in Seq(Items(folds)) /\ Paired(healed)
    BY <1>1, RepairPairs
  <2>2. h \in Seq(Items(folds))
    <3> HIDE DEF healed
    <3> QED
      BY <2>1, EffectiveTyped, RepairPairs
  <2>3. /\ items' = IF Folds(h) THEN Put(healed, folded[1]) ELSE healed
        /\ sent' = Wire(folded)
        /\ folds' = IF Folds(h) THEN folds + 1 ELSE folds
    BY <1>9 DEF RequestFolded
  <2> HIDE DEF healed, h
  <2>4. /\ folded \in Seq(Items(folds + 1))
        /\ Folds(h) => folded[1] \in Items(folds + 1) /\ folded[1].id = <<"summary", turn, folds>>
                       /\ folded[1].kind = "summary"
    <3>1. folds \in Nat /\ turn \in Nat /\ keep \in Keeps
      BY <1>1
    <3>2. Compacted(h, keep, turn) \in Seq(Items(folds + 1))
      BY <2>2, <3>1, CompactedTyped
    <3>3. Folds(h) => /\ Compacted(h, keep, turn)[1] \in Items(folds + 1)
                      /\ Compacted(h, keep, turn)[1].id = <<"summary", turn, folds>>
                      /\ Compacted(h, keep, turn)[1].kind = "summary"
      BY <2>2, <3>1, CompactedTyped
    <3> QED
      BY <3>2, <3>3
  <2> HIDE DEF folded
  <2>5. folds + 1 \in Nat /\ folds' \in Nat
    BY <1>1, <2>3
  <2>6. sent' \in Seq(SentMessages) /\ Valid(sent')
    BY <2>3, <2>4, <2>5, SentTyped
  <2>7. \A x \in Seq(Items(folds)) : x \in Seq(Items(folds'))
    BY <1>1, <2>3, ItemsGrow, SeqGrows
  <2>8. items' \in Seq(Items(folds')) /\ Paired(items')
    <3>1. CASE Folds(h)
      <4>1. items' = Put(healed, folded[1]) /\ folds' = folds + 1 /\ healed \in Seq(Items(folds + 1))
        BY <2>1, <2>3, <2>7, <3>1
      <4>2. Put(healed, folded[1]) \in Seq(Items(folds + 1))
        BY <2>4, <3>1, <4>1, PutTyped
      <4>3. Paired(Put(healed, folded[1]))
        BY <1>1, <2>1, <2>4, <3>1, SummaryKeepsPairs
      <4> QED
        BY <4>1, <4>2, <4>3
    <3>2. CASE ~Folds(h)
      BY <2>1, <2>3, <3>2
    <3> QED
      BY <3>1, <3>2
  <2>9. (Paired(items) /\ Valid(sent))'
    BY <2>6, <2>8
  <2>10. route' \in [items : Seq(Items(folds')), open : BOOLEAN]
    BY <1>1, <1>9, <2>7 DEF RequestFolded
  <2>11. step' \in Nat /\ place' = "stream"
    BY <1>1, <1>9 DEF RequestFolded
  <2>12. UNCHANGED <<turn, calls, ops, late, owed, mixed, faults>>
    BY <1>9 DEF RequestFolded
  <2> QED
    BY <1>1, <2>5, <2>6, <2>8, <2>9, <2>10, <2>11, <2>12 DEF RequestTypeOK
<1>10. ASSUME NEW c \in CallIds, ReceiveCall(c) PROVE RequestTypeOK' /\ Sends
  <2>1. CallItem(turn, c, step) \in Items(0)
    <3>1. Item("call", turn, step) \in Items(0)
      BY <1>1, <1>3, <1>5
    <3>2. <<"call", turn, c>> \in Ids(0) /\ c \in Names
      BY <1>1 DEF Ids, PlainIds, Names
    <3> QED
      BY <3>1, <3>2 DEF CallItem, Items
  <2>2. items' \in Seq(Items(folds))
    BY <1>1, <1>2, <1>4, <1>10, <2>1 DEF ReceiveCall
  <2>3. calls' \in Seq(CallIds)
    BY <1>1, <1>10 DEF ReceiveCall
  <2>4. owed' \in SUBSET Items(0)
    BY <1>1, <1>10 DEF ReceiveCall
  <2> QED
    BY <1>1, <1>10, <2>2, <2>3, <2>4 DEF ReceiveCall, RequestTypeOK
<1>11. ASSUME EndStream PROVE RequestTypeOK' /\ Sends
  <2>1. PICK said \in Says : ops' = [n \in DOMAIN said |-> Adding(Item(said[n], turn, step))]
    BY <1>11 DEF EndStream
  <2>2. said \in Seq({"reasoning", "text"})
    BY DEF RequestHistoryAssumption
  <2>3. DOMAIN said = 1..Len(said) /\ Len(said) \in Nat
    BY <2>2
  <2>4. \A n \in 1..Len(said) : ops'[n] \in Ops
    <3> TAKE n \in 1..Len(said)
    <3>1. said[n] \in Kinds
      BY <2>2 DEF Kinds
    <3>2. Item(said[n], turn, step) \in Items(0)
      BY <1>1, <1>3, <3>1
    <3>3. Adding(Item(said[n], turn, step)) \in Ops
      BY <3>2 DEF Adding, Ops
    <3> QED
      BY <2>1, <2>3, <3>3
  <2>5. ops' = [n \in 1..Len(said) |-> ops'[n]]
    BY <2>1, <2>3
  <2>6. ops' \in [1..Len(said) -> Ops]
    BY <2>4, <2>5
  <2>7. ops' \in Seq(Ops)
    BY <2>3, <2>6
  <2>8. /\ place' = "tools"
        /\ UNCHANGED <<items, turn, step, calls, late, route, sent, owed, mixed, folds, faults>>
    BY <1>11 DEF EndStream
  <2> QED
    BY <1>1, <2>7, <2>8 DEF RequestTypeOK
<1>12. calls # <<>> => Head(calls) \in CallIds /\ Tail(calls) \in Seq(CallIds)
  BY <1>1
<1>13. ASSUME Dispatch PROVE RequestTypeOK' /\ Sends
  <2>1. calls # <<>> /\ ops' \in CallOutcomes(Head(calls)) /\ calls' = Tail(calls)
    BY <1>13 DEF Dispatch
  <2>2. ops' \in Seq(Ops)
    BY <1>1, <1>12, <2>1, OutcomeTyped
  <2> QED
    BY <1>1, <1>12, <1>13, <2>1, <2>2 DEF Dispatch, RequestTypeOK
<1>14. \A o \in Ops : o.item \in Items(0)
  BY DEF Ops
<1>15. \A o \in Ops : Write(items, o) \in Seq(Items(folds))
  BY <1>1, WriteTyped
<1>16. ASSUME WriteNext PROVE RequestTypeOK' /\ Sends
  <2>1. Head(ops) \in Ops /\ Tail(ops) \in Seq(Ops)
    BY <1>1, <1>16 DEF WriteNext
  <2>2. items' \in Seq(Items(folds))
    BY <1>15, <1>16, <2>1 DEF WriteNext
  <2>3. owed' \in SUBSET Items(0)
    BY <1>1, <1>14, <1>16, <2>1 DEF WriteNext
  <2>4. mixed' \in BOOLEAN
    BY <1>1, <1>16 DEF WriteNext
  <2> QED
    BY <1>1, <1>16, <2>1, <2>2, <2>3, <2>4 DEF WriteNext, RequestTypeOK
<1>17. ASSUME NextStep PROVE RequestTypeOK' /\ Sends
  <2>1. items' \in Seq(Items(folds))
    BY <1>1, <1>3, <1>4, <1>5, <1>17 DEF NextStep
  <2> QED
    BY <1>1, <1>17, <2>1 DEF NextStep, RequestTypeOK
<1>18. ASSUME Finish PROVE RequestTypeOK' /\ Sends
  <2>1. items' \in Seq(Items(folds))
    BY <1>6, <1>18 DEF Finish
  <2> QED
    BY <1>1, <1>18, <2>1 DEF Finish, RequestTypeOK
<1>19. ASSUME Fail PROVE RequestTypeOK' /\ Sends
  <2>1. /\ place' \in {"idle", "head", "stream", "tools"} /\ calls' \in Seq(CallIds)
        /\ ops' \in Seq(Ops) /\ faults' \in Nat
    BY <1>19, StopTyped DEF Fail
  <2> DEFINE closed == Finalized(items, turn)
             error == Item("error", turn, step)
  <2>2. items' \in {closed, Put(closed, error)}
    BY <1>19 DEF Fail
  <2>3. closed \in Seq(Items(folds)) /\ error \in Items(folds)
    BY <1>1, <1>3, <1>5, <1>6
  <2> HIDE DEF closed, error
  <2>4. items' \in Seq(Items(folds))
    BY <1>4, <2>2, <2>3
  <2>5. UNCHANGED <<turn, step, late, route, sent, owed, mixed, folds>>
    BY <1>19 DEF Fail
  <2> QED
    BY <1>1, <2>1, <2>4, <2>5 DEF RequestTypeOK
<1>20. ASSUME NEW discard \in BOOLEAN, Interrupt(discard) PROVE RequestTypeOK' /\ Sends
  <2>1. /\ place' \in {"idle", "head", "stream", "tools"} /\ calls' \in Seq(CallIds)
        /\ ops' \in Seq(Ops) /\ faults' \in Nat
    BY <1>20, StopTyped DEF Interrupt
  <2> DEFINE others == {n \in DOMAIN items : items[n].turn # turn \/ items[n].kind = "user"}
  <2>2. items' \in {At(items, others), Finalized(items, turn)}
    BY <1>20 DEF Interrupt
  <2>3. others \in SUBSET (DOMAIN items)
    OBVIOUS
  <2> HIDE DEF others
  <2>4. At(items, others) \in Seq(Items(folds))
    BY <1>1, <2>3, AtTyped
  <2>5. items' \in Seq(Items(folds))
    BY <1>6, <2>2, <2>4
  <2>6. owed' \in SUBSET Items(0)
    BY <1>1, <1>20 DEF Interrupt
  <2>7. late' \in [turn : Nat, ops : Seq(Ops)]
    <3>1. PICK left \in Leftovers : late' = [turn |-> turn, ops |-> left]
      BY <1>20 DEF Interrupt
    <3>2. left \in Seq(Ops)
      BY <1>12, LeftoversTyped
    <3> QED
      BY <1>1, <3>1, <3>2
  <2>8. UNCHANGED <<turn, step, route, sent, mixed, folds>>
    BY <1>20 DEF Interrupt
  <2> QED
    BY <1>1, <2>1, <2>5, <2>6, <2>7, <2>8 DEF RequestTypeOK
<1>21. ASSUME WriteLate PROVE RequestTypeOK' /\ Sends
  <2>1. late.ops \in Seq(Ops) /\ late.ops # <<>>
    BY <1>1, <1>21 DEF WriteLate
  <2>2. Head(late.ops) \in Ops /\ Tail(late.ops) \in Seq(Ops)
    BY <2>1
  <2> DEFINE written == Write(items, Head(late.ops))
  <2>3. written \in Seq(Items(folds))
    BY <1>15, <2>2
  <2>4. items' \in {written, Finalized(written, late.turn)}
    BY <1>21 DEF WriteLate
  <2> HIDE DEF written
  <2>5. items' \in Seq(Items(folds))
    BY <1>1, <2>3, <2>4, FinalizedTyped
  <2>6. owed' \in SUBSET Items(0)
    BY <1>1, <1>21 DEF WriteLate
  <2>7. late' \in [turn : Nat, ops : Seq(Ops)]
    BY <1>1, <1>21, <2>2 DEF WriteLate
  <2>8. mixed' \in BOOLEAN
    BY <1>1, <1>21 DEF WriteLate
  <2>9. UNCHANGED <<place, turn, step, calls, ops, route, sent, folds, faults>>
    BY <1>21 DEF WriteLate, loopVars
  <2> QED
    BY <1>1, <2>5, <2>6, <2>7, <2>8, <2>9 DEF RequestTypeOK
<1>22. ASSUME Crash PROVE RequestTypeOK' /\ Sends
  <2>1. /\ place' \in {"idle", "head", "stream", "tools"} /\ calls' \in Seq(CallIds)
        /\ ops' \in Seq(Ops) /\ faults' \in Nat
    BY <1>22, StopTyped DEF Crash
  <2>2. late' \in [turn : Nat, ops : Seq(Ops)] /\ route' \in [items : Seq(Items(folds)), open : BOOLEAN]
    <3> DEFINE O == Seq(Ops)  I == Seq(Items(folds))
    <3>1. <<>> \in O /\ <<>> \in I /\ late \in [turn : Nat, ops : O]
      BY <1>1
    <3>2. late' = [late EXCEPT !.ops = <<>>] /\ route' = NoRoute
      BY <1>22 DEF Crash
    <3> HIDE DEF O, I
    <3>3. late' \in [turn : Nat, ops : O]
      BY <3>1, <3>2
    <3>4. route' \in [items : I, open : BOOLEAN]
      BY <3>1, <3>2 DEF NoRoute
    <3> QED
      BY <3>3, <3>4 DEF O, I
  <2>3. UNCHANGED <<items, turn, step, sent, owed, mixed, folds>>
    BY <1>22 DEF Crash
  <2> QED
    BY <1>1, <2>1, <2>2, <2>3 DEF RequestTypeOK
<1>23. ASSUME LoadCompact PROVE RequestTypeOK' /\ Sends
  <2> DEFINE read == {n \in DOMAIN items : items[n].kind \notin {"summary", "error"}}
  <2>1. read \in SUBSET (DOMAIN items) /\ route' = [items |-> At(items, read), open |-> TRUE]
    BY <1>23 DEF LoadCompact
  <2> HIDE DEF read
  <2>2. route' \in [items : Seq(Items(folds)), open : BOOLEAN]
    BY <1>1, <2>1, AtTyped
  <2>3. UNCHANGED <<items, place, turn, step, calls, ops, late, sent, owed, mixed, folds, faults>>
    BY <1>23 DEF LoadCompact, loopVars
  <2> QED
    BY <1>1, <2>2, <2>3 DEF RequestTypeOK
<1>24. ASSUME AppendCompact PROVE RequestTypeOK' /\ Sends
  <2> DEFINE summary == Summary(Trimmed(route.items), 4, turn)
  <2>1. route.items \in Seq(Items(folds))
    BY <1>1
  <2>2. Trimmed(route.items) \in Seq(Items(folds))
    BY <2>1, EffectiveTyped
  <2>3. summary \in Items(folds + 1)
    BY <1>1, <2>2, SummaryTyped
  <2>4. items' \in {Put(items, summary), items} /\ folds' = folds + 1
    BY <1>24 DEF AppendCompact
  <2> HIDE DEF summary
  <2>5. items \in Seq(Items(folds + 1))
    BY <1>1, ItemsGrow, SeqGrows
  <2>6. items' \in Seq(Items(folds'))
    BY <2>3, <2>4, <2>5, PutTyped
  <2>7. route' \in [items : Seq(Items(folds')), open : BOOLEAN] /\ folds' \in Nat
    BY <1>1, <1>24, <2>4 DEF AppendCompact, NoRoute
  <2>8. mixed' \in BOOLEAN
    BY <1>1, <1>24 DEF AppendCompact
  <2>9. UNCHANGED <<place, turn, step, calls, ops, late, sent, owed, faults>>
    BY <1>24 DEF AppendCompact, loopVars
  <2> QED
    BY <1>1, <2>6, <2>7, <2>8, <2>9 DEF RequestTypeOK
<1> QED
  BY <1>7, <1>8, <1>9, <1>10, <1>11, <1>13, <1>16, <1>17, <1>18, <1>19, <1>20, <1>21, <1>22, <1>23, <1>24
     DEF RequestNext

\* What is written, kept and sent has its type; the id of a summary is new.
THEOREM RequestTypeCorrect == RequestSpec => []RequestTypeOK
<1>1. RequestTypeOK /\ [RequestNext]_requestVars => RequestTypeOK'
  <2> SUFFICES ASSUME RequestTypeOK, [RequestNext]_requestVars PROVE RequestTypeOK'
    OBVIOUS
  <2>1. CASE RequestNext
    BY <2>1, RequestHistoryAssumption, RequestStep
  <2>2. CASE UNCHANGED requestVars
    BY <2>2 DEF requestVars, loopVars, RequestTypeOK
  <2> QED
    BY <2>1, <2>2
<1> QED
  BY <1>1, RequestInitTyped, PTL DEF RequestSpec

\* Each request finds, and leaves, a file in which every block of tool calls has one
\* result for each of its calls, and sends such messages: repairModelHistoryItems and
\* healToolMessagePairs see to it for any history at all.
THEOREM RequestsArePaired == RequestSpec => CallsArePaired
<1>1. RequestTypeOK /\ [RequestNext]_requestVars
        => [step' # step => (Paired(items) /\ Valid(sent))']_requestVars
  <2> SUFFICES ASSUME RequestTypeOK, RequestNext
               PROVE  step' # step => (Paired(items) /\ Valid(sent))'
    OBVIOUS
  <2> QED
    BY RequestHistoryAssumption, RequestStep
<1> QED
  BY <1>1, RequestTypeCorrect, PTL DEF RequestSpec, CallsArePaired
=============================================================================
