--------------------------- MODULE UserInputGate ---------------------------
(***************************************************************************)
(* Questions to the user: a user_input tool waits at the                   *)
(* InMemoryUserInputGate, tied to the abort signal of its turn, and        *)
(* clients post answers or cancellations to POST /v1/user-inputs/{id},     *)
(* where the UserPromptSubmit hooks run between the look-up and the        *)
(* resolution of an answer.  Each question has an id of its own.           *)
(***************************************************************************)
EXTENDS FiniteSets

CONSTANTS Inputs,  \* the questions
          Posts,   \* the requests of the clients
          None     \* neither a question nor a post

ASSUME InputAssumption == None \notin Inputs \union Posts

Kinds == {"submitted", "cancelled"}

VARIABLES
  wait,      \* where the call of awaitUserInput of each question is
  aborted,   \* the questions whose turn has been aborted
  requests,  \* the questions the gate knows
  outcome,   \* the post that resolved each question
  item,      \* the status of its item
  post,      \* where each post is
  about,     \* its question
  kind,      \* what it asks for
  said       \* what it was told

loopVars == <<wait, aborted, item>>
postVars == <<post, about, kind, said>>
vars == <<loopVars, requests, outcome, postVars>>

Init ==
  /\ wait = [i \in Inputs |-> "idle"]
  /\ aborted = {}
  /\ requests = {}
  /\ outcome = [i \in Inputs |-> None]
  /\ item = [i \in Inputs |-> "none"]
  /\ post = [p \in Posts |-> "off"]
  /\ about = [p \in Posts |-> None]
  /\ kind = [p \in Posts |-> "submitted"]
  /\ said = [p \in Posts |-> "nothing"]

-----------------------------------------------------------------------------
(* awaitUserInput *)

\* The item is stored, and user_input_requested goes to the clients.
Announce(i) ==
  /\ wait[i] = "idle"
  /\ wait' = [wait EXCEPT ![i] = "announced"]
  /\ item' = [item EXCEPT ![i] = "pending"]
  /\ UNCHANGED <<aborted, requests, outcome, postVars>>

\* Mutant: the signal is not looked at before its listener is added.
RequestUnchecked(i) ==
  /\ wait[i] = "announced"
  /\ wait' = [wait EXCEPT ![i] = "waiting"]
  /\ requests' = requests \union {i}
  /\ UNCHANGED <<aborted, item, outcome, postVars>>

\* The gate gets the question, or the turn is over and it is withdrawn at once.
Request(i) ==
  /\ wait[i] = "announced"
  /\ IF i \in aborted
       THEN /\ wait' = [wait EXCEPT ![i] = "thrown"]
            /\ UNCHANGED requests
       ELSE /\ wait' = [wait EXCEPT ![i] = "waiting"]
            /\ requests' = requests \union {i}
  /\ UNCHANGED <<aborted, item, outcome, postVars>>

\* The turn is interrupted.  A question that waits is withdrawn, and its call throws.
Abort(i) ==
  /\ i \notin aborted
  /\ wait[i] # "idle"
  /\ aborted' = aborted \union {i}
  /\ requests' = requests \ {i}
  /\ wait' = [wait EXCEPT ![i] = IF @ = "waiting" THEN "thrown" ELSE @]
  /\ UNCHANGED <<item, outcome, postVars>>

\* The item takes the status of the resolution, and user_input_resolved is recorded.
Update(i) ==
  /\ wait[i] = "given"
  /\ wait' = [wait EXCEPT ![i] = "done"]
  /\ item' = [item EXCEPT ![i] = kind[outcome[i]]]
  /\ UNCHANGED <<aborted, requests, outcome, postVars>>

-----------------------------------------------------------------------------
(* resolveUserInput *)

Tell(p, what) ==
  /\ post' = [post EXCEPT ![p] = "done"]
  /\ said' = [said EXCEPT ![p] = what]

\* gate.resolve: the question is no longer known, and its call goes on.
Give(p, i) ==
  /\ requests' = requests \ {i}
  /\ outcome' = [outcome EXCEPT ![i] = p]
  /\ wait' = [wait EXCEPT ![i] = "given"]
  /\ Tell(p, "ok")

\* A client answers or cancels question i.  A cancellation takes effect at once.
Post(p, i, k) ==
  /\ post[p] = "off"
  /\ wait[i] # "idle"
  /\ about' = [about EXCEPT ![p] = i]
  /\ kind' = [kind EXCEPT ![p] = k]
  /\ \/ /\ i \notin requests
        /\ Tell(p, "missing")
        /\ UNCHANGED <<wait, requests, outcome>>
     \/ /\ i \in requests /\ k = "cancelled"
        /\ Give(p, i)
     \/ /\ i \in requests /\ k = "submitted"
        /\ post' = [post EXCEPT ![p] = "hooks"]
        /\ UNCHANGED <<wait, requests, outcome, said>>
  /\ UNCHANGED <<aborted, item>>

\* Mutants: the gate keeps the question; it resolves what it does not know.
ResolveKept(p) ==
  /\ post[p] = "hooks"
  /\ IF about[p] \in requests
       THEN /\ wait' = [wait EXCEPT ![about[p]] = "given"]
            /\ outcome' = [outcome EXCEPT ![about[p]] = p]
            /\ Tell(p, "ok")
       ELSE Tell(p, "conflict") /\ UNCHANGED <<wait, outcome>>
  /\ UNCHANGED <<aborted, requests, item, about, kind>>
ResolveUnknown(p) ==
  /\ post[p] = "hooks"
  /\ IF about[p] \in requests
       THEN Give(p, about[p])
       ELSE Tell(p, "ok") /\ UNCHANGED <<wait, requests, outcome>>
  /\ UNCHANGED <<aborted, item, about, kind>>

\* The hooks have run, whatever they say: the answer is given, or the question has
\* gone in the meantime.
Resolve(p) ==
  /\ post[p] = "hooks"
  /\ IF about[p] \in requests
       THEN Give(p, about[p])
       ELSE Tell(p, "conflict") /\ UNCHANGED <<wait, requests, outcome>>
  /\ UNCHANGED <<aborted, item, about, kind>>

Wait(i) == Announce(i) \/ Request(i) \/ Abort(i) \/ Update(i)

Next ==
  \/ \E i \in Inputs : Wait(i)
  \/ \E p \in Posts : Resolve(p) \/ \E i \in Inputs, k \in Kinds : Post(p, i, k)

Spec == Init /\ [][Next]_vars

\* The stores and the event log answer.
Fairness == \A i \in Inputs : WF_vars(Request(i)) /\ WF_vars(Update(i))
FairSpec == Spec /\ Fairness

-----------------------------------------------------------------------------
(* Properties *)

\* Every variable stays in the range the code gives it.
TypeOK ==
  /\ wait \in [Inputs -> {"idle", "announced", "waiting", "given", "done", "thrown"}]
  /\ aborted \subseteq Inputs
  /\ requests \subseteq Inputs
  /\ outcome \in [Inputs -> Posts \union {None}]
  /\ item \in [Inputs -> {"none", "pending"} \union Kinds]
  /\ post \in [Posts -> {"off", "hooks", "done"}]
  /\ about \in [Posts -> Inputs \union {None}]
  /\ kind \in [Posts -> Kinds]
  /\ said \in [Posts -> {"nothing", "ok", "missing", "conflict"}]

\* The gate knows exactly the questions that wait: no answer, cancellation or
\* abort leaves one without the other.
PendingIsWaitedFor == requests = {i \in Inputs : wait[i] = "waiting"}

\* A client that was told "ok" gave the answer the tool goes on with, however the
\* posts, the hooks and the abort race: at most one client of a question is.
AnswerStands ==
  \A p \in Posts : said[p] = "ok" =>
    /\ outcome[about[p]] = p
    /\ wait[about[p]] \in {"given", "done"}
    /\ wait[about[p]] = "done" => item[about[p]] = kind[p]

\* A question of an aborted turn does not wait on.
AbortReleases ==
  \A i \in Inputs : i \in aborted ~> wait[i] \in {"done", "thrown"}
=============================================================================
