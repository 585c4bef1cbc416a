--------------------------- MODULE WorktreeStaging ---------------------------
(* Transactional worktrees (config/worktree-staging.mjs): a task works in a    *)
(* worktree of its own, on a branch off HEAD, may have it tested, and is        *)
(* merged by fast-forward only; whatever fails, the worktree and its branch go. *)
(* A tree is the sequence of the tasks whose work is in it.                     *)
EXTENDS Naturals, Sequences
CONSTANTS Tasks, User,   \* User commits to the base repository by hand
          NoTask,
          MaxHead        \* length of HEAD up to which the user goes on committing

ASSUME WorktreeAssumption == MaxHead \in Nat /\ {User, NoTask} \cap Tasks = {} /\ User # NoTask

VARIABLES
  head,        \* the tree of the base repository's HEAD
  stage,       \* task -> the tree in its worktree, while there is one
  at,          \* task -> where withTransactionalWorktree is
  result,      \* task -> what it answered: "none", "merged" or "rolled back"
  tested,      \* the trees a test command has passed (history)
  name,        \* task -> its branch; two of the same id and millisecond share a name
  branches     \* branches of the base repository, each with the task that has it checked out

worktreeVars == <<head, stage, at, result, tested, name, branches>>
Trees == Seq(Tasks \cup {User})
Steps == {"new", "work", "test", "commit", "merge", "cleanup", "failed", "end"}

WorktreeTypeOK ==
  /\ head \in Trees /\ tested \subseteq Trees /\ stage \in [Tasks -> Trees]
  /\ at \in [Tasks -> Steps]
  /\ result \in [Tasks -> {"none", "merged", "rolled back"}]
  /\ name \in [Tasks -> Tasks \cup {NoTask}] /\ branches \subseteq Tasks \X (Tasks \cup {NoTask})

WorktreeInit ==
  /\ head = <<>> /\ stage = [t \in Tasks |-> <<>>] /\ at = [t \in Tasks |-> "new"]
  /\ result = [t \in Tasks |-> "none"] /\ tested = {<<>>}
  /\ name = [t \in Tasks |-> NoTask] /\ branches = {}

Reach(t, step) == at' = [at EXCEPT ![t] = step]
Holds(t) == \E b \in branches : b = <<name[t], t>>

\* begin: git worktree add -b refuses a name that is taken; cleanup then asks for the
\* branch to be deleted all the same.
begin(t) ==
  /\ at[t] = "new"
  /\ \E n \in Tasks :
       /\ name' = [name EXCEPT ![t] = n]
       /\ IF \E b \in branches : b[1] = n
            THEN Reach(t, "failed") /\ UNCHANGED <<stage, branches>>
            ELSE /\ branches' = branches \cup {<<n, t>>} /\ Reach(t, "work")
                 /\ stage' = [stage EXCEPT ![t] = head]
  /\ UNCHANGED <<head, result, tested>>

\* workFn: it changes the worktree, or nothing, or throws.
Work(t) ==
  /\ at[t] = "work"
  /\ \/ stage' = [stage EXCEPT ![t] = Append(@, t)] /\ Reach(t, "test")
     \/ UNCHANGED stage /\ at' \in {[at EXCEPT ![t] = "test"], [at EXCEPT ![t] = "cleanup"]}
  /\ UNCHANGED <<head, result, tested, name, branches>>
\* The test command, where there is one.
Test(t) ==
  /\ at[t] = "test"
  /\ \/ tested' = tested \cup {stage[t]} /\ Reach(t, "commit")
     \/ UNCHANGED tested /\ Reach(t, "cleanup")
  /\ UNCHANGED <<head, stage, result, name, branches>>
\* git add, status and commit, which a hook may refuse.
CommitStage(t) ==
  /\ at[t] = "commit" /\ at' \in {[at EXCEPT ![t] = "merge"], [at EXCEPT ![t] = "cleanup"]}
  /\ UNCHANGED <<head, stage, result, tested, name, branches>>

\* Mutant: a merge commit where the base has moved.
MergedAnyhow(t) == head \o SelectSeq(stage[t], LAMBDA x : x = t)
Ancestor(a, b) == Len(a) <= Len(b) /\ SubSeq(b, 1, Len(a)) = a
\* What git merge --ff-only leaves as HEAD.
Merged(t) == IF Ancestor(head, stage[t]) THEN stage[t] ELSE head

\* The merge; it also fails where the base's own working tree has changes in the way.
Merge(t) ==
  /\ at[t] = "merge" /\ Reach(t, "cleanup")
  /\ \/ /\ head' = Merged(t)
        /\ result' = IF Ancestor(stage[t], head') THEN [result EXCEPT ![t] = "merged"] ELSE result
     \/ UNCHANGED <<head, result>>
  /\ UNCHANGED <<stage, tested, name, branches>>

\* Mutant: the branch goes by its name alone.
ForcedDelete(t) == {b \in branches : b[1] # name[t]}
\* git refuses to delete a branch that is checked out in some worktree.
DeleteBranch(t) == {b \in branches : b[1] # name[t] \/ b[2] \notin {t, NoTask}}

\* cleanup, from commit's finally or from rollback: each of its commands may fail, and
\* what is left then stays behind; stagePath is forgotten, so it is not tried again.
cleanup(t) ==
  /\ at[t] \in {"cleanup", "failed"} /\ Reach(t, "end")
  /\ stage' = [stage EXCEPT ![t] = <<>>]
  /\ \/ branches' = DeleteBranch(t)
     \/ branches' = {IF b[2] = t THEN <<b[1], NoTask>> ELSE b : b \in branches}
     \/ UNCHANGED branches
  /\ result' = IF result[t] = "none" THEN [result EXCEPT ![t] = "rolled back"] ELSE result
  /\ UNCHANGED <<head, tested, name>>

CommitByHand ==
  /\ Len(head) < MaxHead /\ head' = Append(head, User) /\ tested' = tested \cup {head'}
  /\ UNCHANGED <<stage, at, result, name, branches>>

WorktreeNext ==
  \/ \E t \in Tasks : begin(t) \/ Work(t) \/ Test(t) \/ CommitStage(t) \/ Merge(t) \/ cleanup(t)
  \/ CommitByHand
WorktreeSpec == WorktreeInit /\ [][WorktreeNext]_worktreeVars

Includes(tree, t) == \E i \in DOMAIN tree : tree[i] = t
\* Zero-diff rollback under concurrency: the base never holds a tree that was not
\* tested (or made by hand) as it stands; work of a task that answered a rollback is
\* not in it, and one that answered a merge is.
BaseOnlyTested ==
  /\ head \in tested
  /\ \A t \in Tasks : result[t] = "rolled back" => ~Includes(head, t)
\* A task at work keeps its branch, whatever other tasks clean up.
BranchKept == \A t \in Tasks : at[t] \in {"work", "test", "commit", "merge"} => Holds(t)

\* The base repository receives tested trees only, and no task loses its branch to
\* the cleanup of another.
StagingIsolated == BaseOnlyTested /\ BranchKept

=============================================================================
