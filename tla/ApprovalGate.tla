--------------------------- MODULE ApprovalGate ---------------------------
(***************************************************************************)
(* Approvals: tool calls wait at the InMemoryApprovalGate for a decision,  *)
(* and clients post decisions to POST /v1/approvals/{id}, where the        *)
(* PermissionRequest hooks are asked between the look-up and the decision. *)
(*                                                                         *)
(* The gate knows a call by the id appr_<callId>; the call id comes from   *)
(* the model, or is call_<n> where the model gives none.                   *)
(***************************************************************************)
EXTENDS Naturals, Sequences, FiniteSets

CONSTANTS Calls,     \* the tool calls that need an approval
          IdOf,      \* their approval ids, of whatever threads
          Posts,     \* the requests of the clients
          None       \* undefined

ASSUME GateAssumption ==
  /\ DOMAIN IdOf = Calls
  /\ None \notin Calls /\ None \notin Posts

Ids == {IdOf[c] : c \in Calls}
Decisions == {"allow", "deny"}
StatusOf(d) == IF d = "allow" THEN "allowed" ELSE "denied"

VARIABLES
  call,       \* where each tool call is, and the decision it was given
  approvals,  \* the gate's records: the status by id
  resolvers,  \* the call whose promise the id resolves
  post,       \* where each post is
  about,      \* the call whose approval_requested it answers
  decision,   \* its decision
  answer,     \* the status it was answered with
  giver       \* history: the post that resolved each call

postVars == <<post, about, decision, answer>>
vars == <<call, approvals, resolvers, postVars, giver>>

Init ==
  /\ call = [c \in Calls |-> "idle"]
  /\ approvals = [i \in Ids |-> "none"]
  /\ resolvers = [i \in Ids |-> None]
  /\ post = [p \in Posts |-> "off"]
  /\ about = [p \in Posts |-> None]
  /\ decision = [p \in Posts |-> "none"]
  /\ answer = [p \in Posts |-> "none"]
  /\ giver = [c \in Calls |-> None]

-----------------------------------------------------------------------------
(* awaitApproval *)

\* approval_requested is recorded: the clients know the call and its id.  A call
\* whose record fails after that goes no further.
Announce(c) ==
  /\ call[c] = "idle"
  /\ call' = [call EXCEPT ![c] = "announced"]
  /\ UNCHANGED <<approvals, resolvers, postVars, giver>>

\* request: the record and the resolver of the id are set, whoever had them.
Request(c) ==
  /\ call[c] = "announced"
  /\ call' = [call EXCEPT ![c] = "waiting"]
  /\ approvals' = [approvals EXCEPT ![IdOf[c]] = "pending"]
  /\ resolvers' = [resolvers EXCEPT ![IdOf[c]] = c]
  /\ UNCHANGED <<postVars, giver>>

\* decide: the record takes the decision, whatever it was before; the waiting
\* call, if there still is one, is given it.
Resolve(p) ==
  LET i == IdOf[about[p]]
      c == resolvers[IdOf[about[p]]]
  IN  /\ approvals' = [approvals EXCEPT ![i] = StatusOf(decision[p])]
      /\ resolvers' = [resolvers EXCEPT ![i] = None]
      /\ call' = [d \in Calls |-> IF d = c THEN decision[p] ELSE call[d]]
      /\ giver' = [d \in Calls |-> IF d = c THEN p ELSE giver[d]]

-----------------------------------------------------------------------------
(* decideApproval *)

Go(p, to) == post' = [post EXCEPT ![p] = to] /\ UNCHANGED answer

\* The client gets its answer; "error" is a 500.
Finish(p, status) ==
  /\ post' = [post EXCEPT ![p] = "done"]
  /\ answer' = [answer EXCEPT ![p] = status]

\* A client answers the approval of c.  Without a record it is told so.
Post(p, c, d) ==
  /\ post[p] = "off"
  /\ call[c] # "idle"
  /\ about' = [about EXCEPT ![p] = c]
  /\ decision' = [decision EXCEPT ![p] = d]
  /\ IF approvals[IdOf[c]] = "none"
       THEN Finish(p, "missing")
       ELSE Go(p, "hooks")
  /\ UNCHANGED <<call, approvals, resolvers, giver>>

\* Mutant: the veto is recorded and the gate still told the decision.
HookVetoRecorded(p) ==
  /\ post[p] = "hooks"
  /\ Resolve(p)
  /\ Go(p, "vetoed")
  /\ UNCHANGED <<about, decision>>

\* A hook denies: the gate is told nothing.
HookVeto(p) ==
  /\ post[p] = "hooks"
  /\ Go(p, "vetoed")
  /\ UNCHANGED <<call, approvals, resolvers, about, decision, giver>>

\* Mutant: the resolver is not called.
DecideMarked(p) ==
  /\ post[p] = "hooks"
  /\ approvals' = [approvals EXCEPT ![IdOf[about[p]]] = StatusOf(decision[p])]
  /\ Go(p, "decided")
  /\ UNCHANGED <<call, resolvers, about, decision, giver>>

\* decide, without an await since the hooks were asked.
Decide(p) ==
  /\ post[p] = "hooks"
  /\ Resolve(p)
  /\ Go(p, "decided")
  /\ UNCHANGED <<about, decision>>

\* approval_resolved is recorded and the client told the decision or the veto; or the
\* record fails, or the hooks did, and the client is told of an error.
Answer(p) ==
  /\ \/ post[p] = "decided" /\ Finish(p, StatusOf(decision[p]))
     \/ post[p] = "vetoed" /\ Finish(p, "denied")
     \/ post[p] \in {"hooks", "decided", "vetoed"} /\ Finish(p, "error")
  /\ UNCHANGED <<call, approvals, resolvers, about, decision, giver>>

Next ==
  \/ \E c \in Calls : Announce(c) \/ Request(c)
  \/ \E p \in Posts : HookVeto(p) \/ Decide(p) \/ Answer(p) \/ \E c \in Calls, d \in Decisions : Post(p, c, d)

Spec == Init /\ [][Next]_vars

-----------------------------------------------------------------------------
(* Properties *)

\* Every variable stays in the range the code gives it.
TypeOK ==
  /\ call \in [Calls -> {"idle", "announced", "waiting"} \union Decisions]
  /\ approvals \in [Ids -> {"none", "pending", "allowed", "denied"}]
  /\ resolvers \in [Ids -> Calls \union {None}]
  /\ post \in [Posts -> {"off", "hooks", "vetoed", "decided", "done"}]
  /\ about \in [Posts -> Calls \union {None}]
  /\ decision \in [Posts -> Decisions \union {"none"}]
  /\ answer \in [Posts -> {"none", "missing", "allowed", "denied", "error"}]
  /\ giver \in [Calls -> Posts \union {None}]

\* A call goes on only by a post for its id that allowed it and that no hook vetoed.
\* It does so before the client is told; the client is then told that the call was
\* allowed or that there was an error, never that it was denied or is not there.
\* Whatever the other posts about the same id, and the other calls that share it, do.
AllowedByPost ==
  \A c \in Calls : call[c] = "allow" =>
    /\ giver[c] # None /\ about[giver[c]] # None /\ IdOf[about[giver[c]]] = IdOf[c]
    /\ decision[giver[c]] = "allow"
    /\ post[giver[c]] = "decided" \/ answer[giver[c]] \in {"allowed", "error"}

\* The list of pending approvals is the list of the ids somebody waits for: no
\* decision, veto or repeated request leaves one without the other.
PendingIsWaitedFor ==
  \A i \in Ids : approvals[i] = "pending" <=> (\E c \in Calls : resolvers[i] = c /\ call[c] = "waiting")
=============================================================================
