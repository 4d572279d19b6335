# A TLA+ model of ContextRepair

ContextRepair (`src/contextrepair`) repairs bugs of a repository with a language
model.  A *benchmark* takes a locked subset of tasks; each task is run in one of
three conditions: `single` (one coding attempt), `retry` (a second attempt in a
fresh clone), `contextrepair` (a failure analysis, a planned re-exploration and a
second attempt in the same workspace).  All calls of the model are paid for, so
the program counts calls, tokens and money, writes a journal of its spending
ahead of its counters, and can be interrupted and run again.

This directory holds TLA+ modules for the parts of the program that keep state,
TLC configurations that check them on small instances, and TLAPS proofs.
Section 1 is the inventory, section 2 the correspondence with the code,
section 3 the runs and bounds, section 4 fairness, section 5 the proofs,
section 6 what the checks found, section 7 what is left out, section 8 the plan.
`PROJECT.json` lists runs, theorems, hazards, and for each definition the lines
of code it stands for.

To check a run: `tlc -config MCTaskRun.cfg MCTaskRun`; to check proofs:
`tlapm BenchmarkProofs.tla`, and likewise `SpendingProofs`, `SharedRootProofs`,
`TaskRunProofs`, `ContextDeltaProofs`, `AgentLoopProofs`, `ModelClientProofs` and
`DockerShellProofs`.

## 1. Inventory

| Component | State | Operations | Talks to |
| --- | --- | --- | --- |
| Benchmark command, `cli.py` | position in the subset, index of the attempt; nothing survives the process but the disk | skip, archive, admit, attempt, retry, interrupt, finish | run state, controller (call, exceptions), other commands (files) |
| Run state, `run_state.py` | `<results>/<task>/<condition>/`, `<condition>.interrupted-*`, `run_ledger.json` | load result, archive, consumed cost (a scan of the root), write ledger; atomic replacement of a file | everything, through files |
| Controller, `agent/controller.py` | outcome, name of the final attempt, recovery error, two workspaces, two shells | initial attempt, recovery, files, close, result | coding agent, recovery, shells, model client |
| Workspace, `repository/workspace.py`, `tools/editor.py` | a clone: working tree and index of git | clone, write, replace, patch, diff | git, the official script |
| Coding agent, `agent/base.py` | step, messages, budget of the attempt, duplicate counter, exploration lock, edit flags | one reply of the model a step, repair of its JSON, dispatch to a tool, official test, diff | model client, tools |
| Model client, `agent/model_client.py` and `budget.py` | call log, usage journal, counters of calls, tokens and cost | generate, post with retries, flush, record | provider (HTTP), run state |
| Recovery, `recovery/` | analysis, history, context delta | two planning calls, evidence under caps, second attempt | model client, coding agent, trajectory |
| History, `repository/history.py`, `logging/trajectory.py` | the events of the initial attempt | log a read, build the history | recovery |
| Docker shell, `tools/docker_shell.py` | seed and task container, staged evaluation script | seed, create, run, evaluate, close | docker |
| Local shell, file and search tools | none | one call each | file system |
| Evaluation, subsets, configuration, types | none | arithmetic and parsing over finished files | file system |

What is hard about them, and what makes each correct:

* **Crashes and restarts.**  The process can die between any two writes.  What is
  on disk must account for what was paid; a final result must never be lost, and
  never be paid for twice; a half-written directory must not stop the next run.
* **Several commands over one root.**  One command per condition is natural, and
  their only common ground is the directory tree, read by a scan without a lock.
* **Exceptions half way.**  Nearly every step can raise: the provider, docker,
  git, the file system.  Some exceptions are caught at once, some by the recovery,
  some by the benchmark loop, some by nobody.  State left behind (a container, a
  script, a changed file, an outcome already assigned) is where errors hide.
* **What was tested and what is reported.**  The verdict comes from a script that
  rewrites test files in the agent's own clone, the patch from a later `git diff`
  against an index that earlier diffs, the script and the agent have moved.
* **Budgets.**  A cap on money across runs, a token budget per task, another per
  attempt, caps on the evidence; each is tested before a cost is known.
* **Long sequences of actions.**  The coding agent reacts to arbitrary actions of
  a model with flags that several branches set and clear.
* **Timeouts.**  A request that timed out may have been charged; a docker command
  that timed out may have had its effect; an evaluation may be cut off anywhere.

`PROJECT.json` lists 40 such hazards with their lines and the properties on watch.

## 2. Modules and code

**SpendingBooks** is the abstract specification of money on disk.  Every directory
a task has had is a book: what was charged, what a scan shows, how many calls the
disk is behind.  Only the last book of a task is written, only by paying (at most
`Lag` calls ahead of the disk) and by catching up; a book turned over and a
settled task are final.

**Benchmark** models `benchmark_command`, `run_state.py` and, of the controller,
its effects on the results root.  `live[t]` is the directory of a task (absent,
empty or with files; the total of its journal; its final result), `archived[t]`
the renamed ones, `ledger` the run ledger; these survive `Crash`.  `pc`, `task`,
`attempt` are the command's loop, `phase`, `calls`, `spent`, `inflight` the
running controller and its budget.  `billed` is a ghost, what the provider
charged.  Money is counted in tokens at the highest price, so the reserve of a
task (`worst_case_task_cost_usd`) is its token budget.  Faults are `RunRaises`
(an exception in any step of the controller), `Interrupt` (Control-C, which
passes `except Exception`) and `Crash`.  `KeepsTheBooks` says that all of this
implements `SpendingBooks` (refinement mapping `BooksOf`, `Lag` 1).

**SharedRoot** has several commands, each with tasks of its own, over one root.
The controller is reduced to what a scan can meet; the scan is the code's, look
by look: the final results, then for each task a listing of its directories, then
each journal found and, separately, read.  Between any two looks the others pay,
complete, unlink and rename.

**ModelClient** is `generate` with `BudgetTracker`: the test of the budget, the
limit of the reply, the post with up to four tries, the usage reported or
estimated, the log, the journal, and only then the counters.  The three providers
differ in the wording of their requests and share these actions; the provider
itself is the nondeterminism of `PostAnswers`, `PostRetries` and `PostFails`.
`KeepsTheBook` says that it writes one book of `SpendingBooks`, one call behind
for each failed write and one more.

**AgentLoop** is `CodingAgent.run`, step by step: the test of the budget, the
warning and the lock, the call, the parse and the JSON repair, the dispatch with
its branches (duplicate, correction read, lock, final, edit), the official test.
An action of the model is a model value with a kind; two actions are the same
when their JSON signature is.  A tool works, reports an error, or raises what the
loop does not catch (`Abort`).  The loop goes by what an edit reports, and so does
the model: nothing here ties the report to the files, because the code does not
(an edit reported as done may have changed nothing, one reported as failed may
have changed the tree; section 6).  A reply whose usage is missing is counted by
an estimate of its characters that `max_tokens` does not bound (`Spend`;
`MaxEstimate` is the largest one explored, the ghost `estimated` notes that there
was one).  The ghosts `executed`, `execs`, `lockedReads`, `looks` and
`failedEdits` say what tools really did.

**Workspace** has no state of its own: it is the operators on a clone, its tree
and its index over three files (one the repository has, one it has not, one the
tests are in).  `Untracked`, `Tracked` and `Diff` are `EditorTool.diff`: the new
files that git lists (it leaves out those of `Ignorable` that an ignore rule
matches), its `git add --intent-to-add`, and the patch, in which contents of
`Foreign`, whose bytes are not UTF-8, come out as other text (`Decoded`).
`Evaluations` is what the official script, run over the clone, may come to, cut
off or not, with a file of the tests' own left behind or not (`Littered`).  git and
the script are external: `Old`, `Applies`, `Restored`, `WithTests`, `Littered` say
what the code relies on.

**TaskRun** is `ExperimentController.run` seen from inside, over two such clones: an
attempt is any edits, stagings and evaluations (`MaxActs` of them in the attempts of
a run together), then the official evaluation and the diff, for which any of the new
files that may be ignored are; the shells, the outcomes, the two planning calls of
the recovery, every file of the task directory in the order it is written.
`RecoveryRaises` is the `except` clause of the recovery, `RunRaises` and `Interrupt`
the two `finally` clauses.  Ghosts in an outcome say which attempt it is of, which
tree was tested, what the agent had staged and what git ignored.

**DockerShell** is `DockerShellTool`: one action per docker command, each of which
works, fails with a status, or raises with its effect done or not.  The verdict is
looked for in all output of the script, the last matching line counts, and the tests
may have printed such a line themselves (`echoed`).  `mishaps` is a ghost that notes
the failures for which the code has no remedy, so that the properties can say "only
then".

**ContextDelta** begins with the reads of the initial attempt, which the trajectory
logs whether or not they showed anything (`seen` is the history, the ghost `asked`
the files they named; what searches and commands showed is in neither, as in the
code), goes on with `ContextDeltaBuilder.build`, and ends with the use the recovery
attempt makes of the regions.  Text is counted in characters, `Width` to a line; a
token is four of them, rounded down for each region and at least one unless the
region was cut (`Estimate`, `Kept`, `Cost`).  A region is a path, a declared range
and `kept`, the characters that were not cut off.  The analysis (search actions
and candidate files) is arbitrary.

How they compose.  `TaskRun` extends `Workspace`.  `Benchmark` and `ModelClient`
both implement `SpendingBooks`, which is what they owe each other: the journal.
Elsewhere one module has another by abstraction, along the calls of the code, and
the link is stated here and read off the code: `Benchmark` has the model client
as `CallModel`, `FlushJournal`, `RecordUsage` and the controller as its writes,
in the order `TaskRun` details; `TaskRun` has `AgentLoop` by what it does to the
clone, `ContextDelta` as the step `Planned`, the shells of `DockerShell` as open
or closed; `AgentLoop` has `Preloaded`, the reads that overlap the regions of
`ContextDelta`; `SharedRoot` has `Benchmark` reduced to what its scan can see.

## 3. Runs

| Run | Question | Bounds |
| --- | --- | --- |
| `benchmark` | Is spending accounted for, are results final, is a complete ledger right, how far is the cap overrun, does rerunning finish, are the books kept? | 2 tasks, 1 retry, 2 calls of cost 1 or 2 a task, cap 4, 2 faults anywhere |
| `benchmark_hard_cap` | Does consumption stay within the cap? (no) | calls of cost 1, so that no other cause is left; 1 fault |
| `shared_root` | What can a scan miss or count twice beside another command, and do both finish? | 2 commands, 1 task each, 1 call a task, cap 2, 1 retry, 1 fault |
| `shared_root_scan` | Is a command admitted under the cap only? (no) | the same, cap 1, no fault |
| `agent_loop` | Overrun, duplicates, lock, correction reads, end | 4 steps (the lock comes at step 2), 7 actions, 1 repair, budget 12 for prompts up to 2 and replies up to 3 (4 where the usage is estimated) |
| `model_client` | Does the journal stay ahead, how far is the budget overdrawn, is the book kept? | 3 calls, budget 5, prompts up to 2, 1 journal failure |
| `docker_shell` | Containers left, script visible, verdict | 4 commands, 3 artifacts |
| `context_delta` | Caps, repetition, novelty, coverage | 4 files, 2 initial reads, 2 actions, 3 matches a search, 2 candidates, lines of 12 characters, caps of 2 files and 5 tokens, for anchors 1 and 4 |
| `context_delta_skip` | Is a skipped read in the evidence? (no) | 2 reads or edits, 1 action |
| `task_run` | Shells, order of files, verdict and patch about the same code, name of the result, end | 3 conditions, 3 kinds of test, 2 acts, staging included; the new file may be ignored, what the first attempt writes is not UTF-8 |
| `task_run_official` | Is resolved always by the official tests? (no) | 2 acts, no staging, nothing ignored, all UTF-8 |
| `task_run_patch` | Does the final patch apply to the base commit? (no) | the same |

What the passing runs show:

* `AccountingSound`: each directory, live or archived, accounts for its spending
  up to one model call, after any two faults.  `ConsumptionNeverDrops`,
  `CompletedIsFinal`: no step of the archive, the commit or a restart makes known
  spending or a result disappear.  `StartsClean`, `CompleteMeansAllDone`: the
  controller never meets an incomplete directory, a complete ledger is right.
  `CommandEnds`, `EventuallyAllDone`: one command ends; rerun, it finishes.
  `CapOvershootBounded` is the guarantee that is left of the cap: the cap, plus
  one task budget per retry, plus the last call of each attempt.
* `KeepsTheBooks`, `KeepsTheBook`: the whole command, and the client in detail,
  implement `SpendingBooks`.
* `NeverOvercounts`, `MissesOnlyWhatMoved`, `EachGetsDone`: a scan beside another
  command counts nothing twice, misses only tasks that completed or were archived
  while it ran, and a scan that dies of what it met is made good by a rerun.
* `OvershootBounded`: an attempt overruns its token budget by less than one
  prompt, repairs included, and by one estimated reply more if a usage was missing.
  `ExecutedOnce`: no tool is called twice for one action.  `CorrectionReadsEarned`:
  no more reads pass the lock than edits failed.  `LockInForce`: once the lock is
  due, the tools give no look at the repository that a failed edit has not earned,
  until an edit is reported as applied, by whatever branches the flags were set and
  cleared.  `AttemptEnds`.
* `JournalAhead`, `OverdrawnByOnePrompt`, `GenerateEnds`: the order log, journal,
  counters holds through failed writes; the prompt of one call is all that passes
  the budget.
* `NothingLeftBehind`, `ScriptHidden`, `VerdictIsTests`: which failures can leave
  a container or the script, all others cannot, and a success is the exit status of
  the tests, unless the tests printed a line of the same form.
* `WithinCaps`, `NewIsUnread`, `EvidenceCovered`: the evidence of a recovery keeps
  its caps but for the rounding of tokens, up to three characters a region; it
  repeats nothing, gives as new no file that a read of the initial attempt had
  named, and forgets nothing the plan reads or names although a read of it had
  failed before.
* `ShellsClosed`, `ResultIsComplete`, `RunEnds`: one task, with an exception or an
  interrupt at any step.  `PatchIsWhatWasTested`: for every file the agent did not
  stage, the patch is the step from the base commit to the tree that was tested,
  after failed recoveries too.  The property names what is left out: a new file
  that is ignored is tested and not in the patch, text that is not UTF-8 is in it as
  other text, a file that tests leave behind or an empty deletion can be in it
  although neither was tested.  Official tests are in it only if they are a new file
  or an evaluation was cut off; nothing of a failed first attempt is in what `retry`
  reports.  `ResultNamesItsAttempt`: the name in a result is that of the attempt
  whose verdict and patch it has, whatever failed between the two assignments, but
  for the retry whose shell does not close.

Why the bounds are enough.  Tasks of the benchmark meet only through the sum of their
costs and the loop's order, so two of them show both; two faults are enough for a
fault while the traces of another are being cleared away, and the proofs below lift
the bound for the properties that matter most.  Two commands show every race of a
scan, since a scan meets one directory at a time and a directory has one owner; one
payment, one completion and one archived directory are all it can meet. In the agent
loop four steps give the lock its two steps before and two after; every flag can be
set and cleared between.  Files of lengths three and one, and a missing one, each
read before or not, give the context delta each of its cases under caps that two
regions exhaust; lines of twelve characters make every estimate lose some to
rounding.  In the client three calls exceed the token budget and reach the call
limit.  Two acts make a file and stage or remove it, in one attempt or in two, or
evaluate and edit after it (with three, 4.5 million states instead of 1.1 million,
the properties hold as well); the three files differ in all that git and the script
distinguish.  Each property is also checked against a plausible bug (`Bug...`
operators beside the definition they change; `PROJECT.json`, "mutants"), and each is
violated there: the bounds let the interesting case happen.

Deadlock is checked where the system goes on for ever (benchmark, shared root, model
client);
an agent attempt, a shell, a context delta and a task come to an end, and their
configurations say `CHECK_DEADLOCK FALSE`.

## 4. Fairness

A process that runs goes on: weak fairness of the union of its own steps, never
of a fault, of the model's kindness or of one particular branch.  In `Benchmark`
there is also weak fairness of `Start`: somebody runs the command again;
`CommandEnds` does not need it, `EventuallyAllDone` does, and that property also
rests on the faults being finitely many.  `SharedRoot` has the same for each
command by itself: its steps (the death of a scan among them, since a scan that
has met a missing file has nothing else to do) and its restart.  `ModelClient` has
fairness of the steps of a request (each has a timeout), none of `Request`.
`AgentLoop` and `TaskRun` have it for the steps of the loop and of the run;
`TaskRun` for `Progress` as a whole, so that no failure is owed and none excluded.
`DockerShell`, `ContextDelta` and `SpendingBooks` state none.  Retries end because
they are counted, not because fairness says so.

## 5. Proofs

Eight modules of theorems, each for every value of the constants that its module's
named assumption allows, and from nothing else.  Every safety property that a
passing run checks, invariant or action property, and both refinements are stated
by one of them.

Amounts that the code adds up over directories, journals, calls or regions are
numbers of tokens in the models: the set of the tokens, each under its directory
or its place in the list, and its cardinality.  A sum is then a fact about finite
sets (disjoint parts add, a part is no more than the whole), which the provers
can use, where a fold would ask for an induction.  One fold is left, the total of
a scan in `SharedRoot`: it decides whether a task is admitted, and the theorems
there hold whatever it says.

**`BenchmarkProofs`** (subset, budgets, retries, cap and number of faults
arbitrary): `Typed`, `Accounting` (`[]AccountingSound`), `ResultIsFinal`
(`CompletedIsFinal`), `NeverRefusesIncomplete` (`[]StartsClean`), `LedgerIsRight`
(`[]CompleteMeansAllDone`).  None is inductive as it stands.  Three invariants
carry them.  `TypeInv` adds to the types that the command is on a task of the
subset whenever it acts on one and that a retry is prepared only while one is
left.  `Books` ties the counters of the running controller to the directory:
before and after each of the three steps of a model call it says exactly which of
`spent`, `inflight`, journal and bill agree; without it `WriteResult`, which
writes `spent`, could not be shown to agree with the bill.  `Progress` says that
every task before the one at hand is completed and what the ledger claims.  Each
is shown to hold initially and to be kept by every action; lemmas shared by
several actions (what `ArchivePartial` does to one directory) come first.

**`SpendingProofs`** proves the refinement, `BooksImplemented`: the initial state
maps to an initial state of `SpendingBooks`, and under `TypeInv` and `Books` each
step maps to a step or a stutter.  `CallModel` is `Charge` and is enabled there
because `Books` says the disk is up to date before a call; `FlushJournal` is
`Show`; `WriteResult` is `Settle`, and needs from `Books` that the result shows
what the journal showed, even after a call whose journal was not written;
`ArchivePartial` is `TurnOver`, or a stutter when the directory was empty.  What
one directory's rewriting does to the sequence of books is shown once
(`RewriteBook`) and cited by every step that writes.

The same module has two theorems about what the scan of the root counts.
`ConsumptionKept` (`ConsumptionNeverDrops`): only archiving and writing touch a
directory; archiving gives the tokens of the live directory the next place among
the archived and keeps their number (`ArchiveKeepsTokens`), and what is written
shows at least what was shown before (`WritingShows`, from `Books`).
`CapOvershoot` (`[]CapOvershootBounded`): the bound says nothing of the overshoot
still to come, so `Admitted` says, of the task at work, that what was counted
before the current attempt (`Earlier`) leaves the reserve of one attempt under
the cap but for the room of each attempt already made, and that the directory at
hand holds at most the room of one attempt.  `ConsumptionNeverDrops` carries the
bound over from what was consumed when the task was admitted.

**`SharedRootProofs`** (any number of commands, tasks of each, tokens, retries and
faults): `SharedTyped`, `CountsNothingTwice` (`[]NeverOvercounts`),
`MissesNothingElse` (`[]MissesOnlyWhatMoved`).  The argument is about one scan and
one directory, given as values.  The invariant says of them where the scan is
(`Position`), that what it has counted of the directory is no more than was there
to see (`Upper`), and, unless the directory is noted as moved, no less
(`Lower`).  The proof has two halves: a look of the scan keeps the three
(`ResultCounted`, `TaskListed`, `ArchivedCounted`, `JournalFound`,
`JournalRead`), and so does whatever another command may do to a directory
(`Moves`: a payment, a result, a removed journal, a renaming; `MovesKeepScan`).
Each action of a command is then shown to be one of these and to leave every other
directory alone, which holds because a directory has one owner (`Owners`,
`Untouched`).  `AtWork` says what the owner knows of its own directory at each
place of its loop.

**`AgentLoopProofs`** (any set of actions, any number of steps and repairs, any
budget): `AttemptTyped`, `AttemptOvershoot`, `AttemptOnce`, `AttemptReads`,
`AttemptLocked`.  `InStep` keeps what was tested at the head of a step true until
the call is made, which is what bounds the overrun.  `Guarded` says that the lock
is in force in every part of a step and not only at its head; from it,
`LooksAreReads`: each look taken while the lock is due was a correction read.
`Once` says that whatever was carried out has been counted, `Owed` that an unused
grant is still covered by a failed edit; `LooksAreReads` and `Owed` together give
`AttemptLocked`.

**`ModelClientProofs`** (any limits, tries and failed writes): `ClientTyped`,
`JournalStaysAhead`, `BudgetHeld`, `BookImplemented` (`KeepsTheBook`).  `Ahead`
says how far log, journal and count are apart at each place of `generate`; `Held`
that a request leaves room for its reply until the budget has counted it.  For the
refinement `Kept` adds that a call costs at least one token and at most the most
a prompt and a reply can cost, and that the log is ahead of the journal by the
writes that failed and, before its own write, by the call at hand; then `LogCall`
is `Charge`, `Flush` is `Show`, and every other step a stutter.

**`DockerShellProofs`** (any number of artifacts and commands): `ShellTyped`,
`ShellCleansUp`, `ShellHidesScript`, `ShellVerdict`.  `Owned` says where in its
life a shell may have a container without a mishap, `Hidden` the same of the
script.  The verdict is inductive as it stands: only the three ends of an
evaluation lead to the removal of the script, and the code each brings is 0 only
by the script's report or by a line of the tests (`NextVerdict`).

**`TaskRunProofs`** (any number of acts, with or without staging, every condition and
kind of test, any files that may be ignored and any contents that are not UTF-8):
`RunTyped`, `RunClosesShells` (`[]ShellsClosed`), `ResultComesLast`
(`[]ResultIsComplete`), `PatchWasTested` (`[]PatchIsWhatWasTested`), `ResultNamed`
(`[]ResultNamesItsAttempt`).  `Provided` says from where on a clone and an outcome
exist; `ShellInv` that a shell is open only where a `finally` clause is still ahead;
`FilesInv` which files are on disk at each place and that they hold the outcomes that
the result will speak of.  The theorem about patch and test rests on a lemma about
one clone: whatever its tree and its index, `git diff` shows a file that was not
staged as the step from the base commit to the tree, decoded; as nothing, if it is
new and ignored; or, if the tree has the file as the base has it, as nothing or the
deletion of an empty new file (`DiffIsTheStep`).  `LitteredFacts` says what tests
leave behind at most.  `Agrees` is what this makes of an outcome when an attempt ends
(`AttemptAgrees`), and it is kept by the final outcome through a recovery that
fails.  `ClonesInv` says where the official tests and the work of a first attempt can
be found at all, which is what keeps both out of the patch of a retry.  `NameInv`
says, from the end of each attempt to the result, which of outcome, name and error
have been assigned.

**`ContextDeltaProofs`** (any files and lengths, caps, plans, with and without
history, lines of nine characters and more): `DeltaTyped`, `CapsKept`
(`[]WithinCaps`), `NewWasUnread` (`[]NewIsUnread`), `PlanIsCovered`
(`[]EvidenceCovered`).  `WithinCaps` speaks of the characters handed over, the code
tests a counter of tokens: `Tally` says for both lists that the characters held are
at most four for each token counted and three for each region, that the counter is
within the cap, and that no region is in the list twice.  `CapsInv` keeps the number
of files, through the inner loop over the matches of a search as well; `SeenInv`
separates the files of the two lists; `CoverInv` follows the build loop by loop:
whatever a loop has passed is given, noted as an anchor or refreshed, unless a cap
was full, and a cap once full stays so.

Only checked by TLC: the liveness properties (`CommandEnds`, `EventuallyAllDone`,
`EachGetsDone`, `AttemptEnds`, `GenerateEnds`, `RunEnds`), which rest on fairness
and so on ENABLED, beyond the provers; and, of course, the five properties that
the code does not have (section 6).

## 6. Where code and documentation disagree

* **The cost cap is not hard.**  It is tested once per task, before the loop over
  the retries (`benchmark_hard_cap`).
* **The cap is not shared.**  A task that another command completes between the two
  passes of a scan is counted in neither, and a command is admitted over the cap
  (`shared_root_scan`).
* **Resolved by the agent's own test.**  When the official tests add a file at a
  path where the agent made one, `git apply` refuses them and the agent's file is
  what passes (`task_run_official`); the committed results of django-16877 in
  `results/benchmark-fresh15-v1` have the refusal in their test logs.
* **A final patch that does not apply.**  A new file of the first attempt, entered
  in the index by its diff and removed by the recovery, leaves the deletion of a
  file the base commit does not have (`task_run_patch`).
* **"This exact current region is already present"** is said of reads that only
  overlap a declared range, cut off or edited since (`context_delta_skip`).

The models show a few more consequences that no document forbids:

* A final action that was rejected for want of an edit has been counted, so the
  same action after the edit is blocked as an exact duplicate (`base.py:268`).
* An exception after `final_result.json` makes each retry refuse the finished
  directory, and a completed task is reported as failed (`controller.py:162`).
* Only the reply is limited to what the budget has left, not the prompt
  (`model_client.py:113`): `OverdrawnByOnePrompt` is as much as holds.
* An evaluation that is cut off leaves the official tests in the clone, and the
  diff that follows takes them for the agent's: `final.patch` of
  `results/benchmark-pilot-v1/sphinx-doc__sphinx-7590/single` and
  `results/benchmark-fresh15-v1/django__django-10097/contextrepair` hold some.
* What an edit reports and what it did come apart both ways.  One that fails can
  have changed the tree, and a final action is then refused although there is a
  change.  One that is reported as done can have changed nothing: `write` compares
  its text after newline translation (`editor.py:15`), so a file with CRLF ends can
  be written as it is, which lifts the lock and lets a final action pass.
* A new file that an ignore rule matches is there when the tests run and not in
  `final.patch` (`--exclude-standard`, `editor.py:76`); a file that the tests leave
  behind and no rule matches is in it; and bytes that are not UTF-8 are replaced in
  it (`editor.py:96-105`): it is not the change that was tested.
* The verdict is the last line of its form in all that an evaluation prints, standard
  error after standard output (`docker_shell.py:299-304`, `398-400`): a test that
  prints such a line decides it.
* A retry whose second shell raises when it is closed has assigned its outcome but
  not its name: the result has the patch and the verdict of the retry, an error,
  and the name of the initial attempt (`controller.py:109`).
* A token of the evidence is four characters rounded down for each region, at least
  one, and symbols, dependencies and test paths are not counted
  (`context_delta.py:174-178`): text can pass a cap by up to three characters a
  region, and the rest has no cap at all.
* "Previously unseen" means that no read named the file: what the initial attempt saw
  through a search or a command is given as new (`context_delta.py:91`,
  `base.py:341`).
* A file whose only read failed counts as seen: what a search of the plan matches
  in it is given neither as new nor as an anchor.

## 7. Not modelled

* The text that tools compute (list, read, search, the arithmetic of a replace),
  regular expressions and command policies, prompts, the wording of requests and
  the parsing of answers: data, not control.  Their outcomes are choices.
* `run` of the command line calls the controller once; `evaluate` and `analyze`
  read finished files (`analyze` expects a result beside every analysis, which a
  run that is still going on need not have).
* Evaluation, cost summaries, configuration, types: arithmetic and parsing over
  finished files and constants.
* `lock_subset`: one file, written once by one operator.
* The temporary files of an atomic write, and the parts of a workspace's life that
  only the file system sees (its root, its removal).
* Different spellings of one path (`./a`, `a`): in the models a path is a name.
* Command policies of the local and the docker shell: what an agent's commands may
  do is over-approximated by `Act` and by arbitrary exit codes.

## 8. Plan

Done, in this order: `Benchmark` with `BenchmarkProofs` (the most important promise,
what is paid and finished survives), `AgentLoop`, `ModelClient`, `DockerShell`,
`ContextDelta`, `TaskRun`; then `SpendingBooks` with both refinements,
`SharedRoot`, `Workspace` under `TaskRun`, the history in `ContextDelta`, and the
proofs of `SpendingProofs`, `AgentLoopProofs`, `ModelClientProofs`,
`DockerShellProofs`; then the proofs of `TaskRunProofs`, `ContextDeltaProofs` and
`SharedRootProofs`, the two theorems on consumption in `SpendingProofs`, and the
refinement of the client.  Left:

1. **Composition**: `TaskRun`'s file order as a refinement of the controller steps
   of `Benchmark`, so far read off the code (section 2).
2. **Consequences of `SpendingBooks`**: what any implementation of the books
   promises (a closed book is final, a scan is behind by at most `Lag` calls),
   as theorems of the abstract specification.
3. **Workspace**: the operators on a clone as lemmas of their own (a second diff
   shows what the first one showed; staging changes no diff of another file).
