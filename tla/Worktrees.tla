------------------------------ MODULE Worktrees ------------------------------
(* The worktree manager of src/builders: one git worktree and one state file *)
(* per builder run.  A run id is fresh on every spawn, so a worktree belongs *)
(* to one builder of one orchestration.  A tree is the set of paths in which *)
(* it differs from the base commit: those committed on the builder's branch, *)
(* and those changed on disk since.  Writes of the state file do not fail;   *)
(* git commands do.                                                          *)
EXTENDS FiniteSets

CONSTANTS
  Builders,     \* the builders of one swarm
  Paths,        \* repository paths a model or a command can touch
  Tracked       \* those of the base commit; the others would be new files

ASSUME PathsAssumption == Tracked \subseteq Paths

VARIABLES
  onDisk,       \* builders whose worktree directory exists
  head,         \* head[b]: paths the branch of b changes over its base commit
  dirty,        \* dirty[b]: paths of the worktree that differ from its HEAD
  record        \* record[b]: the state file of b

treeVars == <<onDisk, head, dirty, record>>

RunStatus == {"none", "spawned", "collected", "failed", "cleaned"}
Records == [status : RunStatus, patch : SUBSET Paths]
NoRecord == [status |-> "none", patch |-> {}]

TreesTypeOK ==
  /\ onDisk \subseteq Builders
  /\ head \in [Builders -> SUBSET Paths]
  /\ dirty \in [Builders -> SUBSET Paths]
  /\ record \in [Builders -> Records]

TreesInit ==
  /\ onDisk = {}
  /\ head = [b \in Builders |-> {}]
  /\ dirty = [b \in Builders |-> {}]
  /\ record = [b \in Builders |-> NoRecord]

\* git worktree add: the directory and the branch exist, the state file does not.
WorktreeAdd(b) ==
  /\ onDisk' = onDisk \cup {b}
  /\ UNCHANGED <<head, dirty, record>>

\* spawn ends by persisting the run.
PersistSpawned(b) ==
  /\ record' = [record EXCEPT ![b] = [status |-> "spawned", patch |-> {}]]
  /\ UNCHANGED <<onDisk, head, dirty>>

\* `git diff` without arguments: new files are untracked and do not show.
GitDiff(b) == dirty[b] \cap Tracked

Write(b, files) ==
  /\ dirty' = [dirty EXCEPT ![b] = @ \cup files]
  /\ UNCHANGED <<onDisk, head, record>>

\* git add -A, then git commit: every changed path, the untracked ones too.
CommitAll(b) ==
  /\ dirty[b] # {}
  /\ head' = [head EXCEPT ![b] = @ \cup dirty[b]]
  /\ dirty' = [dirty EXCEPT ![b] = {}]
  /\ UNCHANGED <<onDisk, record>>

(* MUTANT: git reset --hard without a revision, which keeps the commit. *)
ResetOnly(b, left) ==
  /\ dirty' = [dirty EXCEPT ![b] = (@ \cup left) \ Tracked]
  /\ UNCHANGED <<onDisk, head, record>>

\* git reset --hard HEAD~1: the commit and changes of tracked files go, the
\* untracked files `left` by a command stay.
ResetHard(b, left) ==
  /\ head' = [head EXCEPT ![b] = {}]
  /\ dirty' = [dirty EXCEPT ![b] = (@ \cup left) \ Tracked]
  /\ UNCHANGED <<onDisk, record>>

\* collect: the diff of baseCommit..HEAD is kept in the state file.
CollectRun(b) ==
  /\ record' = [record EXCEPT ![b] = [status |-> "collected", patch |-> head[b]]]
  /\ UNCHANGED <<onDisk, head, dirty>>

\* One of the git calls of diffPatch fails: the run is marked, collect throws.
CollectFails(b) ==
  /\ record' = [record EXCEPT ![b].status = "failed"]
  /\ UNCHANGED <<onDisk, head, dirty>>

\* remove --force: the worktree and the branch go, the state file stays.
RemoveRun(b) ==
  /\ onDisk' = onDisk \ {b}
  /\ head' = [head EXCEPT ![b] = {}]
  /\ dirty' = [dirty EXCEPT ![b] = {}]
  /\ record' = [record EXCEPT ![b].status = "cleaned"]

\* git worktree remove fails: the run is marked, remove throws.
RemoveFails(b) ==
  /\ b \in onDisk
  /\ record' = [record EXCEPT ![b].status = "failed"]
  /\ UNCHANGED <<onDisk, head, dirty>>

=============================================================================
