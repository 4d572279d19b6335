------------------------------ MODULE Workspace ------------------------------
(***************************************************************************)
(* The clone an attempt works in (repository/workspace.py), as far as the  *)
(* patch that is read out of it (EditorTool.diff, tools/editor.py) and the *)
(* verdict that is passed on it depend on git: the working tree, and the   *)
(* index that git diff compares it with.                                   *)
(*                                                                         *)
(* Three files stand for all: one the repository has, one it does not      *)
(* have, and the one that the tests of the task are in.  A content is      *)
(* named after who wrote it.                                               *)
(***************************************************************************)
CONSTANTS
    Ignorable,      \* the files that .gitignore may match
    Foreign         \* the contents whose text is not UTF-8

Files == {"code", "note", "test"}
Contents == {"absent", "base", "initial", "recovery", "official", "artifact"}

ASSUME WorkspaceAssumption ==
    Ignorable \subseteq Files /\ Foreign \subseteq Contents \ {"absent"}

\* How a task is tested: by a command of its own, or by an official script
\* whose patch edits a test file of the repository or adds one to it.
Suites == {"local", "edits", "adds"}

\* The base commit.
Base(suite) == [f \in Files |->
    IF f = "note" \/ (f = "test" /\ suite = "adds") THEN "absent" ELSE "base"]

\* An entry of the index is a content, or "intent" (git add --intent-to-add).
Entries == Contents \cup {"intent"}
Clones == [tree : [Files -> Contents], index : [Files -> Entries]]

\* WorkspaceManager.create: cloned, checked out at the base commit, and clean.
Clone(suite) == [tree |-> Base(suite), index |-> Base(suite)]

\* write, replace and patch, and what commands of the shell do to files.
Edit(clone, f, content) == [clone EXCEPT !.tree[f] = content]

\* git add, or a commit, by a command of the shell: nothing forbids it.
Stage(clone, f) == [clone EXCEPT !.index[f] = clone.tree[f]]

\* What a command has staged: all that differs from the base commit in the
\* index, but for files that are there as new ones by intent.
Staged(clone, suite) ==
    {f \in Files :
        /\ clone.index[f] # Base(suite)[f]
        /\ ~(clone.index[f] = "intent" /\ Base(suite)[f] = "absent")}

-----------------------------------------------------------------------------
(* EditorTool.diff.                                                        *)

\* Mutant: files that git does not know are left out.
BugTracked(clone, ignored) == clone

\* The files that git does not know; it lists them unless they are ignored.
Untracked(clone) ==
    {f \in Files : clone.index[f] = "absent" /\ clone.tree[f] # "absent"}

\* Those that are listed are added to the index, to be in the diff.
Tracked(clone, ignored) == [clone EXCEPT !.index = [f \in Files |->
    IF f \in Untracked(clone) \ ignored THEN "intent" ELSE @[f]]]

\* What git diff takes for the old content.  An intent to add is a new file
\* while there is one, and else the deletion of an empty file.
Old(clone, f) ==
    IF clone.index[f] # "intent" THEN clone.index[f]
    ELSE IF clone.tree[f] = "absent" THEN "empty" ELSE "absent"

\* The output of git is decoded as UTF-8; bytes that are not are replaced.
Decoded(content) == IF content \in Foreign THEN "garbled" ELSE content

\* What a patch says of a file.
Change(f, old, new) == <<f, Decoded(old), Decoded(new)>>

\* git diff: the files in the index that the working tree has otherwise.
Diff(clone) ==
    {Change(f, Old(clone, f), clone.tree[f]) :
        f \in {g \in Files : clone.index[g] \notin {"absent", clone.tree[g]}}}

Texts == Contents \cup {"empty", "garbled"}
Patches == SUBSET (Files \X Texts \X Texts)

\* git apply takes a patch as a whole or not at all.
Applies(patch, tree) == \A change \in patch : tree[change[1]] = change[2]

-----------------------------------------------------------------------------
(* The official script, run over the clone, which is mounted in the        *)
(* container: git checkout <base commit> <tests>, git apply of the tests,  *)
(* the tests, and the same checkout once more.                             *)

\* A checkout that names a path the commit does not have does nothing.
Restored(clone, suite) ==
    IF suite = "adds" THEN clone
    ELSE [clone EXCEPT !.tree["test"] = "base", !.index["test"] = "base"]

\* git apply does nothing where it meets another content.
WithTests(clone, suite) ==
    IF clone.tree["test"] = Base(suite)["test"] THEN Edit(clone, "test", "official")
    ELSE clone

\* The tests may leave a file of theirs behind where there was none.
Littered(clone) ==
    {clone} \cup {Edit(clone, f, "artifact") :
                      f \in {g \in {"note"} : clone.tree[g] = "absent"}}

\* What an evaluation may come to: the clone it leaves, the tree that was
\* tested, whether it was cut off (by a timeout, or with the container), and
\* the verdict.  No command stops the script when it fails, and the verdict is
\* the status of the tests alone: it counts even if the cleanup is cut off.
Evaluations(clone, suite) ==
    LET restored == Restored(clone, suite)
        ready == WithTests(restored, suite)
        Outcome(after, tested, cut, success) ==
            [after |-> after, tested |-> tested, cut |-> cut, success |-> success]
    IN  IF suite = "local"
        THEN {Outcome(c, clone.tree, FALSE, s) : c \in Littered(clone), s \in BOOLEAN}
        ELSE {Outcome(Restored(c, suite), ready.tree, FALSE, s) :
                  c \in Littered(ready), s \in BOOLEAN}
             \cup {Outcome(c, ready.tree, TRUE, s) :
                       c \in Littered(ready), s \in BOOLEAN}
             \cup {Outcome(c, c.tree, TRUE, FALSE) : c \in {clone, restored}}
=============================================================================
