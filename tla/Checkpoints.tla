----------------------------- MODULE Checkpoints -----------------------------
(***************************************************************************)
(* CheckpointService (services/checkpoint-service.ts): what a checkpoint    *)
(* keeps of a git workspace, and what a restore or a fork into a worktree   *)
(* makes of it, while a user, or a tool of another turn, may work there.    *)
(*                                                                          *)
(* A step is one git, tar or rm command. Contents are opaque: a patch fits  *)
(* a file that has the content the patch starts from. Ignored files are     *)
(* left out, by the code as well.                                           *)
(***************************************************************************)
EXTENDS Naturals, FiniteSets

CONSTANTS Paths,       \* the files of the workspace
          Contents,    \* what a file may hold
          Absent,      \* what is in the place of a file that is not there
          Checkpoints, \* the checkpoints taken
          Jobs,        \* the restores and forks
          MaxEdits     \* bound of the steps of the user

\* The workspace has a place of its own.
ASSUME CheckpointsAssumption == Absent \notin Contents /\ "main" \notin Jobs /\ MaxEdits \in Nat

VARIABLES head,      \* the files of the commit
          places,    \* index and working tree of the workspace, and of the worktrees of forks
          captures, snap, \* where each checkpoint is, and its snapshot
          given,     \* history: the workspace a checkpoint is of; Absent: it changed meanwhile
          job,       \* where each restore or fork is, its kind and checkpoint; history: FitsTree
          fair,      \* history: the jobs that nothing got in the way of
          edits

rewindVars == <<head, places, captures, snap, given, job, fair, edits>>

Files == [Paths -> Contents \cup {Absent}]
ws    == places["main"]

\* git diff, over some of the files.
Diff(from, to, over) ==
  [p \in {q \in over : from[q] # to[q]} |-> [from |-> from[p], to |-> to[p]]]
Fits(patch, files)  == \A p \in DOMAIN patch : files[p] = patch[p].from
Patch(patch, files) == [p \in Paths |-> IF p \in DOMAIN patch THEN patch[p].to ELSE files[p]]

\* What git status tells of a workspace.
StagedDiff(h, w) == Diff(h, w.index, Paths)
UnstagedDiff(w)  == Diff(w.index, w.work, {p \in Paths : w.index[p] # Absent})
Untracked(w)     == {p \in Paths : w.index[p] = Absent /\ w.work[p] # Absent}
NoPatch          == [p \in {} |-> Absent]

RewindInit ==
  /\ head \in {h \in Files : \E p \in Paths : h[p] # Absent}
  /\ places \in [{"main"} -> [index : Files, work : Files]]
  /\ captures = [c \in Checkpoints |-> "none"] /\ snap = [c \in Checkpoints |-> Absent]
  /\ given = [c \in Checkpoints |-> Absent]
  /\ job = [j \in Jobs |-> [at |-> "none", kind |-> "none", of |-> Absent, fits |-> FALSE]]
  /\ fair = {} /\ edits = 0

-----------------------------------------------------------------------------
(* create                                                                   *)

Capturing == {"status", "bundle", "staged", "unstaged"}

\* git rev-parse HEAD^{tree} and HEAD
BeginCreate(c) ==
  /\ captures[c] = "none" /\ captures' = [captures EXCEPT ![c] = "status"]
  /\ snap' = [snap EXCEPT ![c] = [tree |-> head, untracked |-> NoPatch, staged |-> NoPatch,
                                  unstaged |-> NoPatch, hasStaged |-> FALSE, hasUnstaged |-> FALSE]]
  /\ given' = [given EXCEPT ![c] = ws]
  /\ UNCHANGED <<head, places, job, fair, edits>>

\* git status; the untracked files are known, their contents are not.
Status(c) ==
  /\ captures[c] = "status" /\ captures' = [captures EXCEPT ![c] = "bundle"]
  /\ snap' = [snap EXCEPT ![c].untracked = [p \in Untracked(ws) |-> Absent],
                          ![c].hasStaged = DOMAIN StagedDiff(head, ws) # {},
                          ![c].hasUnstaged = DOMAIN UnstagedDiff(ws) # {}]
  /\ UNCHANGED <<head, places, given, job, fair, edits>>

\* tar: a file that is gone by now fails the checkpoint.
Bundle(c) ==
  /\ captures[c] = "bundle"
  /\ LET files == DOMAIN snap[c].untracked
     IN  IF \E p \in files : ws.work[p] = Absent
         THEN captures' = [captures EXCEPT ![c] = "failed"] /\ UNCHANGED snap
         ELSE /\ captures' = [captures EXCEPT ![c] = "staged"]
              /\ snap' = [snap EXCEPT ![c].untracked = [p \in files |-> ws.work[p]]]
  /\ UNCHANGED <<head, places, given, job, fair, edits>>

\* git diff --cached
CaptureStaged(c) ==
  /\ captures[c] = "staged" /\ captures' = [captures EXCEPT ![c] = "unstaged"]
  /\ snap' = [snap EXCEPT ![c].staged = IF snap[c].hasStaged THEN StagedDiff(head, ws) ELSE NoPatch]
  /\ UNCHANGED <<head, places, given, job, fair, edits>>

\* git diff; then the record is saved.
CaptureUnstaged(c) ==
  /\ captures[c] = "unstaged" /\ captures' = [captures EXCEPT ![c] = "kept"]
  /\ snap' = [snap EXCEPT ![c].unstaged = IF snap[c].hasUnstaged THEN UnstagedDiff(ws) ELSE NoPatch]
  /\ UNCHANGED <<head, places, given, job, fair, edits>>

\* delete, also for retention: first the artifacts, then the record.
Delete(c) ==
  /\ \/ captures[c] = "kept" /\ captures' = [captures EXCEPT ![c] = "stripped"]
     \/ captures[c] = "stripped" /\ captures' = [captures EXCEPT ![c] = "deleted"]
  /\ fair' = {j \in fair : job[j].of # c \/ job[j].at = "done"}
  /\ UNCHANGED <<head, places, snap, given, job, edits>>

-----------------------------------------------------------------------------
(* restore (code) and fork (with a worktree)                                *)

Place(j) == IF job[j].kind = "fork" THEN j ELSE "main"
Of(j)    == snap[job[j].of]
\* The patches and the bundle are files beside the record.
There(j) == captures[job[j].of] = "kept"

Step(j, at) == job' = [job EXCEPT ![j].at = at]

\* Outside the tree of the checkpoint, no file is in the index, or was in it.
FitsTree(c) == given[c] # Absent /\
  \A p \in Paths : snap[c].tree[p] = Absent => ws.index[p] = Absent /\ given[c].index[p] = Absent

\* A restore looks for staged changes that the snapshot cannot bring back; a user may
\* confirm that they go.
BeginRestore(j, c, confirmed) ==
  /\ job[j].at = "none" /\ captures[c] \in {"kept", "stripped"}
  /\ LET blocked == ~confirmed /\ DOMAIN StagedDiff(head, ws) # {} /\ ~snap[c].hasStaged
     IN  /\ job' = [job EXCEPT ![j] = [at |-> IF blocked THEN "refused" ELSE "base",
                                       kind |-> "restore", of |-> c, fits |-> FitsTree(c)]]
         /\ fair' = IF captures[c] = "kept" /\ given[c] # Absent /\ ~blocked THEN fair \cup {j} ELSE fair
  /\ UNCHANGED <<head, places, captures, snap, given, edits>>

\* Whoever writes the workspace gets in the way of the others that are at work there.
Disturb(js) ==
  /\ fair' = {k \in fair : k \in js \/ Place(k) # "main" \/ job[k].at = "done"}
  /\ given' = [c \in Checkpoints |-> IF captures[c] \in Capturing THEN Absent ELSE given[c]]

Write(j, w) ==
  /\ places' = [places EXCEPT ![Place(j)] = w]
  /\ IF Place(j) = "main" /\ w # ws THEN Disturb({j}) ELSE UNCHANGED <<fair, given>>
  /\ UNCHANGED <<head, captures, snap, edits>>

\* git checkout <tree> -- . leaves what the tree does not have, and fails on an empty one.
Checkout(j) ==
  /\ job[j].at = "base"
  /\ LET tree == Of(j).tree
         Over(files) == [p \in Paths |-> IF tree[p] = Absent THEN files[p] ELSE tree[p]]
     IN  /\ Step(j, IF \A p \in Paths : tree[p] = Absent THEN "failed" ELSE "staged")
         /\ Write(j, [index |-> Over(ws.index), work |-> Over(ws.work)])

\* git worktree add, at the commit.
BeginFork(j, c) ==
  /\ job[j].at = "none" /\ captures[c] \in {"kept", "stripped"}
  /\ job' = [job EXCEPT ![j] = [at |-> "staged", kind |-> "fork", of |-> c, fits |-> TRUE]]
  /\ places' = [q \in DOMAIN places \cup {j} |->
                  IF q = j THEN [index |-> snap[c].tree, work |-> snap[c].tree] ELSE places[q]]
  /\ fair' = IF captures[c] = "kept" /\ given[c] # Absent THEN fair \cup {j} ELSE fair
  /\ UNCHANGED <<head, captures, snap, given, edits>>

\* Mutant: no --index.
ToWorkOnly(patch, w) == IF Fits(patch, w.work) THEN [w EXCEPT !.work = Patch(patch, @)] ELSE w

\* git apply --index, else git apply, else nothing: all of a patch or none of it.
ToIndexAndWork(patch, w) ==
  IF Fits(patch, w.index) /\ Fits(patch, w.work)
  THEN [index |-> Patch(patch, w.index), work |-> Patch(patch, w.work)]
  ELSE IF Fits(patch, w.work) THEN [w EXCEPT !.work = Patch(patch, @)] ELSE w

ApplyStaged(j) ==
  /\ job[j].at = "staged" /\ Step(j, "unstaged")
  /\ LET w == places[Place(j)] IN Write(j, IF There(j) THEN ToIndexAndWork(Of(j).staged, w) ELSE w)

ApplyUnstaged(j) ==
  /\ job[j].at = "unstaged" /\ Step(j, IF job[j].kind = "fork" THEN "extract" ELSE "clean")
  /\ LET w     == places[Place(j)]
         patch == Of(j).unstaged
     IN  Write(j, IF There(j) /\ Fits(patch, w.work) THEN [w EXCEPT !.work = Patch(patch, @)] ELSE w)

\* Mutant: the files of the bundle alone are taken for new ones.
NewInBundle(j, w) == Untracked(w) \cap DOMAIN Of(j).untracked

\* The untracked files that were not there at the checkpoint.
NewFiles(j, w) == Untracked(w) \ DOMAIN Of(j).untracked

Clean(j) ==
  /\ job[j].at = "clean" /\ Step(j, "extract")
  /\ Write(j, [ws EXCEPT !.work = [p \in Paths |-> IF p \in NewFiles(j, ws) THEN Absent ELSE @[p]]])

\* tar, and the job is done.
Extract(j) ==
  /\ job[j].at = "extract" /\ Step(j, "done")
  /\ LET w      == places[Place(j)]
         bundle == Of(j).untracked
     IN  Write(j, IF There(j) THEN [w EXCEPT !.work = [p \in Paths |-> IF p \in DOMAIN bundle
                                                                      THEN bundle[p] ELSE @[p]]]
                  ELSE w)

-----------------------------------------------------------------------------
(* The workspace in use                                                     *)

\* A file is written or removed, added to the index or taken from it; the index is committed.
Use(h, w) ==
  /\ edits < MaxEdits /\ edits' = edits + 1
  /\ <<h, w>> # <<head, ws>>
  /\ head' = h /\ places' = [places EXCEPT !["main"] = w]
  /\ Disturb({})
  /\ UNCHANGED <<captures, snap, job>>

Edit(p, content) == Use(head, [ws EXCEPT !.work[p] = content])
Add(p)           == Use(head, [ws EXCEPT !.index[p] = ws.work[p]])
Unstage(p)       == Use(head, [ws EXCEPT !.index[p] = head[p]])
Commit           == Use(ws.index, ws)

RewindNext ==
        \/ \E c \in Checkpoints : \/ BeginCreate(c) \/ Status(c) \/ Bundle(c) \/ CaptureStaged(c)
                                  \/ CaptureUnstaged(c) \/ Delete(c)
        \/ \E j \in Jobs : \/ \E c \in Checkpoints : \/ BeginFork(j, c)
                                                     \/ \E b \in BOOLEAN : BeginRestore(j, c, b)
                           \/ Checkout(j) \/ ApplyStaged(j) \/ ApplyUnstaged(j) \/ Clean(j) \/ Extract(j)
        \/ \E p \in Paths : Add(p) \/ Unstage(p) \/ \E v \in Contents \cup {Absent} : Edit(p, v)
        \/ Commit

RewindSpec == RewindInit /\ [][RewindNext]_rewindVars

-----------------------------------------------------------------------------
Exact(j) == places'[Place(j)] = given[job[j].of]
Ends(j)  == job[j].at = "extract" /\ job'[j].at = "done" /\ j \in fair

\* A restore or fork that nothing got in the way of, neither at the checkpoint nor now,
\* ends with the index and the files of the checkpoint, whatever was done in between -
\* unless a file outside the commit of the checkpoint is or was in the index.
ReconstructsInTree == [][\A j \in Jobs : Ends(j) /\ job[j].fits => Exact(j)]_rewindVars
=============================================================================
