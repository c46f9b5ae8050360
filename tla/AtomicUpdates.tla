--------------------------- MODULE AtomicUpdates ---------------------------
(***************************************************************************)
(* What TurnService.upsertThread promises its callers: each update of the  *)
(* thread record takes effect once and in one step, on the record as the   *)
(* last update left it, or fails and leaves it alone.                      *)
(***************************************************************************)
EXTENDS Sequences

CONSTANT Updates
VARIABLE record   \* the updates the stored record holds, in their order

Init == record = <<>>

Holds(u) == \E i \in DOMAIN record : record[i] = u

Apply(u) ==
  /\ ~Holds(u)
  /\ record' = Append(record, u)

Next == \E u \in Updates : Apply(u)
Spec == Init /\ [][Next]_record
=============================================================================
