------------------------------- MODULE TaskRun -------------------------------
(***************************************************************************)
(* One task from its directory to its final result: the body of            *)
(* ExperimentController.run (agent/controller.py) with the recovery of     *)
(* recovery/recovery_controller.py, its two planning calls                 *)
(* (failure_analyzer.py, reexplorer.py), and the shells both attempts use. *)
(*                                                                         *)
(* A coding attempt (module AgentLoop) appears by what it does to its      *)
(* clone (module Workspace): edits, commands of the shell, evaluations it  *)
(* asks for, and at the end the official evaluation and the diff; or it    *)
(* raises.                                                                 *)
(***************************************************************************)
EXTENDS Naturals, Workspace

CONSTANTS
    NoOutcome,      \* no attempt has come to its end
    NoResult,       \* final_result.json is not there
    NoFile,         \* a patch is not there
    Stages,         \* the commands of the agent include git add and git commit
    MaxActs         \* bound: what the attempts do to their clones before they end

ASSUME TaskRunAssumption ==
    /\ Stages \in BOOLEAN /\ MaxActs \in Nat
    /\ NoFile \notin Clones

VARIABLES
    condition,  \* config.condition; it never changes
    suite,      \* how the task is tested; it never changes
    pc,         \* where the controller stands
    roots,      \* workspace -> the clone in it
    acts,       \* what the attempts have done so far
    cut,        \* ghost: the workspaces in which an evaluation was cut off
    shells,     \* workspace -> "none", "open" or "closed"
    initial,    \* outcome of the initial attempt
    final,      \* outcome that will be reported
    finalAttempt,
    attempted,  \* recovery_attempted
    error,      \* recovery_error is not None
    asks,       \* how often the current planning call may still be made
    patches,    \* file name -> the patch in it
    others,     \* the other files of the task directory
    result      \* final_result.json

report == <<initial, final, finalAttempt, attempted, error>>
files == <<patches, others, result>>
task == <<condition, suite>>
work == <<roots, acts, cut>>
vars == <<task, pc, work, shells, report, asks, files>>

Conditions == {"single", "retry", "contextrepair"}
Workspaces == {"initial", "retry"}
Trees == [Files -> Contents]
Names == {"initial.patch", "recovery.patch", "final.patch"}

\* An outcome, with ghosts: the attempt it is of, the tree that was tested, the
\* files that the agent staged, those that the diff ignored, and whether an
\* evaluation in its workspace was cut off.
Outcomes == [success : BOOLEAN, patch : Patches,
             by : {"initial", "recovery"}, tested : Trees, staged : SUBSET Files,
             ignored : SUBSET Files, cut : BOOLEAN]

Init ==
    /\ condition \in Conditions /\ suite \in Suites
    /\ pc = "workspace"
    /\ roots = [w \in Workspaces |-> NoFile] /\ acts = 0 /\ cut = {}
    /\ shells = [w \in Workspaces |-> "none"]
    /\ initial = NoOutcome /\ final = NoOutcome /\ finalAttempt = "initial"
    /\ attempted = FALSE /\ error = FALSE /\ asks = 0
    /\ patches = [n \in Names |-> NoFile] /\ others = {} /\ result = NoResult

Goto(from, to) == pc = from /\ pc' = to

\* The files of the task directory are each written atomically, but for the two
\* that Planned names, which nobody reads.
Write(name, patch) == patches' = [patches EXCEPT ![name] = patch]

-----------------------------------------------------------------------------
(* The initial attempt.                                                    *)

\* A fresh clone, then metadata.json.
MakeWorkspace ==
    /\ Goto("workspace", "shell")
    /\ roots' = [roots EXCEPT !["initial"] = Clone(suite)]
    /\ others' = others \cup {"metadata.json"}
    /\ UNCHANGED <<task, acts, cut, shells, report, asks, patches, result>>

OpenShell ==
    /\ Goto("shell", "attempt")
    /\ shells' = [shells EXCEPT !["initial"] = "open"]
    /\ UNCHANGED <<task, work, report, asks, files>>

Working == {"attempt", "retry attempt", "recovery attempt"}
Root == IF pc = "retry attempt" THEN "retry" ELSE "initial"
Phase == IF pc = "attempt" THEN "initial" ELSE "recovery"

\* The evaluation of a clone leaves it another one.
Evaluated(w, evaluation, clone) ==
    /\ roots' = [roots EXCEPT ![w] = clone]
    /\ cut' = IF evaluation.cut THEN cut \cup {w} ELSE cut

\* The agent edits or removes a file, has git add or commit one, or asks for
\* the evaluation, whose command it is told.
Act ==
    /\ pc \in Working /\ acts < MaxActs /\ acts' = acts + 1
    /\ \/ /\ \E f \in Files, content \in {Phase, "absent"} :
                 roots' = [roots EXCEPT ![Root] = Edit(@, f, content)]
          /\ UNCHANGED cut
       \/ /\ Stages
          /\ \E f \in Files : roots' = [roots EXCEPT ![Root] = Stage(@, f)]
          /\ UNCHANGED cut
       \/ \E e \in Evaluations(roots[Root], suite) : Evaluated(Root, e, e.after)
    /\ UNCHANGED <<task, pc, shells, report, asks, files>>

\* An attempt ends with the official evaluation and, after it, the diff.
Attempt(w) ==
    \E e \in Evaluations(roots[w], suite) :
    \E ignored \in SUBSET (Ignorable \cap Untracked(e.after)) :
        LET clone == Tracked(e.after, ignored) IN
        /\ Evaluated(w, e, clone) /\ UNCHANGED acts
        /\ final' = [success |-> e.success, patch |-> Diff(clone),
                     by |-> Phase, tested |-> e.tested,
                     staged |-> Staged(clone, suite),
                     ignored |-> ignored, cut |-> w \in cut']

InitialAttempt ==
    /\ Goto("attempt", "initial files")
    /\ Attempt("initial") /\ initial' = final'
    /\ UNCHANGED <<task, shells, finalAttempt, attempted, error, asks, files>>

\* initial.patch and initial_test.log.
WriteInitial ==
    /\ Goto("initial files", "choose")
    /\ Write("initial.patch", initial.patch)
    /\ UNCHANGED <<task, work, shells, report, asks, others, result>>

-----------------------------------------------------------------------------
(* Recovery.                                                               *)

Recovers == ~initial.success /\ condition # "single"

NoRecovery ==
    /\ Goto("choose", "close") /\ ~Recovers
    /\ UNCHANGED <<task, work, shells, report, asks, files>>

\* The condition retry works in a clone of its own ...
BeginRetry ==
    /\ Goto("choose", "retry shell") /\ Recovers /\ condition = "retry"
    /\ attempted' = TRUE
    /\ roots' = [roots EXCEPT !["retry"] = Clone(suite)]
    /\ UNCHANGED <<task, acts, cut, shells, initial, final, finalAttempt, error,
                   asks, files>>

OpenRetryShell ==
    /\ Goto("retry shell", "retry attempt")
    /\ shells' = [shells EXCEPT !["retry"] = "open"]
    /\ UNCHANGED <<task, work, report, asks, files>>

\* Mutant: the retry is handed the workspace of the initial attempt.
BugRetryAttempt ==
    /\ Goto("retry attempt", "retry close")
    /\ Attempt("initial")
    /\ UNCHANGED <<task, shells, initial, finalAttempt, attempted, error,
                   asks, files>>

RetryAttempt ==
    /\ Goto("retry attempt", "retry close")
    /\ Attempt("retry")
    /\ UNCHANGED <<task, shells, initial, finalAttempt, attempted, error,
                   asks, files>>

\* The attempt raised: the shell is closed on the way out.
RetryAttemptRaises ==
    /\ Goto("retry attempt", "retry unwind")
    /\ UNCHANGED <<task, work, shells, report, asks, files>>

CloseRetryShell ==
    /\ pc \in {"retry close", "retry unwind"}
    /\ shells' = [shells EXCEPT !["retry"] = "closed"]
    /\ IF pc = "retry close" THEN pc' = "name" /\ UNCHANGED error
       ELSE pc' = "close" /\ error' = TRUE
    /\ UNCHANGED <<task, work, initial, final, finalAttempt, attempted,
                   asks, files>>

\* docker rm times out: what the attempt returned is already in final.
CloseRetryShellRaises ==
    /\ pc \in {"retry close", "retry unwind"} /\ pc' = "close"
    /\ shells' = [shells EXCEPT !["retry"] = "closed"] /\ error' = TRUE
    /\ UNCHANGED <<task, work, initial, final, finalAttempt, attempted,
                   asks, files>>

\* Mutant: the recovery is named as soon as it begins.
BugBeginRecovery ==
    /\ Goto("choose", "analyze") /\ Recovers /\ condition = "contextrepair"
    /\ attempted' = TRUE /\ asks' = 2 /\ finalAttempt' = "recovery"
    /\ UNCHANGED <<task, work, shells, initial, final, error, files>>

\* ... contextrepair in the workspace and the shell of the initial attempt,
\* after a failure analysis and a plan of the re-exploration.
BeginRecovery ==
    /\ Goto("choose", "analyze") /\ Recovers /\ condition = "contextrepair"
    /\ attempted' = TRUE /\ asks' = 2
    /\ UNCHANGED <<task, work, shells, initial, final, finalAttempt, error,
                   files>>

\* Mutant: the answer is asked for until it parses.
BugPlanningCall ==
    /\ pc \in {"analyze", "plan"}
    /\ asks' = IF asks = 1 THEN 2 ELSE asks - 1
    /\ UNCHANGED <<task, pc, work, shells, report, files>>

\* Mutant: the second answer is no longer the last.
BugPlanningCallAgain ==
    /\ pc \in {"analyze", "plan"}
    /\ asks' = asks - 1
    /\ UNCHANGED <<task, pc, work, shells, report, files>>

\* A planning call whose answer does not parse is made once more.
PlanningCall ==
    /\ pc \in {"analyze", "plan"} /\ asks > 0
    /\ asks' = asks - 1
    /\ UNCHANGED <<task, pc, work, shells, report, files>>

\* The answer of the latest call parses.
Analyzed ==
    /\ Goto("analyze", "plan") /\ asks < 2
    /\ asks' = 2
    /\ UNCHANGED <<task, work, shells, report, files>>

\* recovery_analysis.json, then (module ContextDelta) context_delta.json.
Planned ==
    /\ Goto("plan", "recovery attempt") /\ asks < 2
    /\ others' = others \cup {"recovery_analysis.json", "context_delta.json"}
    /\ UNCHANGED <<task, work, shells, report, asks, patches, result>>

RecoveryAttempt ==
    /\ Goto("recovery attempt", "name")
    /\ Attempt("initial")
    /\ UNCHANGED <<task, shells, initial, finalAttempt, attempted, error,
                   asks, files>>

NameRecovery ==
    /\ Goto("name", "recovery files")
    /\ finalAttempt' = "recovery"
    /\ UNCHANGED <<task, work, shells, initial, final, attempted, error,
                   asks, files>>

\* recovery.patch and recovery_test.log.
WriteRecovery ==
    /\ Goto("recovery files", "close")
    /\ Write("recovery.patch", final.patch)
    /\ UNCHANGED <<task, work, shells, report, asks, others, result>>

InRecovery == {"retry shell", "analyze", "plan", "recovery attempt", "recovery files"}

\* Mutant: what a recovery that failed left in the workspace is reported.
BugRecoveryRaises ==
    /\ pc \in InRecovery /\ pc' = "close" /\ error' = TRUE
    /\ final' = [final EXCEPT !.patch = Diff(Tracked(roots["initial"], {}))]
    /\ UNCHANGED <<task, work, shells, initial, finalAttempt, attempted, asks,
                   files>>

\* except Exception: the error is kept and the run goes on with the outcome it
\* has, whatever an attempt that raised has done to its clone.  One of the two
\* planning files may have been written, and one of the two of the recovery.
RecoveryRaises ==
    /\ pc \in InRecovery /\ pc' = "close" /\ error' = TRUE
    /\ others' \in {others} \cup
                   (IF pc = "plan" THEN {others \cup {"recovery_analysis.json"}} ELSE {})
    /\ patches' \in {patches} \cup
                    (IF pc = "recovery files"
                     THEN {[patches EXCEPT !["recovery.patch"] = final.patch]} ELSE {})
    /\ UNCHANGED <<task, work, shells, initial, final, finalAttempt, attempted,
                   asks, result>>

-----------------------------------------------------------------------------
(* The end.                                                                *)

CloseShell ==
    /\ Goto("close", "final patch")
    /\ shells' = [shells EXCEPT !["initial"] = "closed"]
    /\ UNCHANGED <<task, work, report, asks, files>>

\* Mutant: final_result.json is written before the files it speaks of.
BugWriteFinalPatch ==
    /\ Goto("final patch", "model calls")
    /\ result' = [resolved |-> final.success,
                  initialResolved |-> initial.success,
                  recovered |-> attempted /\ ~initial.success /\ final.success,
                  attempt |-> finalAttempt, error |-> error, patch |-> final.patch]
    /\ Write("final.patch", final.patch)
    /\ UNCHANGED <<task, work, shells, report, asks, others>>

WriteFinalPatch ==
    /\ Goto("final patch", "model calls")
    /\ Write("final.patch", final.patch)
    /\ UNCHANGED <<task, work, shells, report, asks, others, result>>

WriteModelCalls ==
    /\ Goto("model calls", "result")
    /\ others' = others \cup {"model_calls.json"}
    /\ UNCHANGED <<task, work, shells, report, asks, patches, result>>

\* The result counts a recovery only for a task the initial attempt lost.
WriteResult ==
    /\ Goto("result", "done")
    /\ result' = [resolved |-> final.success,
                  initialResolved |-> initial.success,
                  recovered |-> attempted /\ ~initial.success /\ final.success,
                  attempt |-> finalAttempt, error |-> error, patch |-> final.patch]
    /\ UNCHANGED <<task, work, shells, report, asks, patches, others>>

\* Mutant: the shell is closed only on the way to the result.
BugRunRaises ==
    /\ pc \in {"attempt", "initial files"} /\ pc' = "failed"
    /\ UNCHANGED <<task, work, shells, report, asks, files>>

\* An exception once the shell is open closes it (finally); earlier there is
\* nothing to close, later it is closed already.  Nobody reads the workspace of
\* a run that failed.
RunRaises ==
    /\ \/ pc \in {"workspace", "shell", "final patch", "model calls", "result"}
          /\ UNCHANGED shells
       \/ pc \in {"attempt", "initial files", "close"}
          /\ shells' = [shells EXCEPT !["initial"] = "closed"]
    /\ pc' = "failed"
    /\ UNCHANGED <<task, work, report, asks, files>>

\* KeyboardInterrupt in the recovery is no Exception: only the finally
\* clauses see it.
Interrupt ==
    /\ pc \in InRecovery \cup {"retry attempt", "retry close", "retry unwind", "name"}
    /\ pc' = "failed"
    /\ shells' = [w \in Workspaces |->
                     IF shells[w] = "open" THEN "closed" ELSE shells[w]]
    /\ UNCHANGED <<task, work, report, asks, files>>

Progress ==
    \/ MakeWorkspace \/ OpenShell \/ Act \/ InitialAttempt \/ WriteInitial
    \/ NoRecovery \/ BeginRetry \/ OpenRetryShell \/ RetryAttempt
    \/ CloseRetryShell \/ BeginRecovery \/ PlanningCall \/ Analyzed \/ Planned
    \/ RecoveryAttempt \/ NameRecovery \/ WriteRecovery
    \/ CloseShell \/ WriteFinalPatch \/ WriteModelCalls \/ WriteResult

Failure ==
    \/ RetryAttemptRaises \/ CloseRetryShellRaises \/ RecoveryRaises
    \/ RunRaises \/ Interrupt

Next == Progress \/ Failure

\* The run goes on by itself; no failure is owed.
Spec == Init /\ [][Next]_vars /\ WF_vars(Progress)

-----------------------------------------------------------------------------
(* Properties.                                                             *)

Ended == pc \in {"done", "failed"}

\* Type invariant.
TypeOK ==
    /\ condition \in Conditions /\ suite \in Suites
    /\ roots \in [Workspaces -> Clones \cup {NoFile}]
    /\ acts \in 0 .. MaxActs /\ cut \subseteq Workspaces
    /\ shells \in [Workspaces -> {"none", "open", "closed"}]
    /\ initial \in Outcomes \cup {NoOutcome} /\ final \in Outcomes \cup {NoOutcome}
    /\ finalAttempt \in {"initial", "recovery"}
    /\ attempted \in BOOLEAN /\ error \in BOOLEAN
    /\ asks \in 0 .. 2
    /\ patches \in [Names -> Patches \cup {NoFile}]
    /\ others \subseteq {"metadata.json", "recovery_analysis.json",
                         "context_delta.json", "model_calls.json"}
    /\ \/ result = NoResult
       \/ result \in [resolved : BOOLEAN, initialResolved : BOOLEAN,
                      recovered : BOOLEAN, attempt : {"initial", "recovery"},
                      error : BOOLEAN, patch : Patches]

\* However a run ends, each shell that was opened was closed: errors in the
\* attempts, in the recovery, in the other shell's close and interrupts included
\* (the two finally clauses).
ShellsClosed == Ended => \A w \in Workspaces : shells[w] # "open"

\* A directory that has final_result.json has everything the result speaks of,
\* at every moment and so after a crash at any moment: the skip of completed
\* tasks relies on it.  Only a recovery whose files could not be written or
\* whose shell could not be closed, and says so in its error, lacks its patch.
ResultIsComplete ==
    result # NoResult =>
        /\ {"metadata.json", "model_calls.json"} \subseteq others
        /\ patches["final.patch"] = result.patch
        /\ patches["initial.patch"] = initial.patch
        /\ result.recovered /\ ~result.error =>
               result.attempt = "recovery" /\ patches["recovery.patch"] = result.patch

\* The verdict and the patch of a result speak of the same code, whichever
\* attempt they are of and whatever another one, or one that failed half way,
\* did to the clone.  The patch is the step from the base commit to the tree
\* that was tested, for every file the agent did not stage but for what the diff
\* itself cannot say: a new file that is ignored is not in it, and text that is
\* not UTF-8 comes out as other text.  To files that were tested as they were in
\* the base commit it may add what the tests left behind, or a deletion (of a
\* file that was new in one diff and gone in the next).  The official tests are
\* in it only if the script added a file, or was cut off.  The condition retry
\* starts over: nothing its initial attempt wrote is in what is tested, and
\* reported, as recovered.
PatchIsWhatWasTested ==
    result # NoResult =>
        /\ \A f \in {"code", "note"} \ final.staged :
               LET changes == {change \in result.patch : change[1] = f}
                   base == Base(suite)[f]
                   Step(new) == Change(f, base, new) IN
               IF f \in final.ignored THEN changes = {}
               ELSE IF final.tested[f] # base THEN changes = {Step(final.tested[f])}
               ELSE \/ changes \subseteq {<<f, "empty", "absent">>}
                    \/ base = "absent" /\ changes = {Step("artifact")}
        /\ (\E change \in result.patch : change[3] = "official")
               => suite = "adds" \/ final.cut
        /\ condition = "retry" /\ result.recovered =>
               \A f \in Files : final.tested[f] # "initial"

\* A result is named after the attempt whose outcome it reports, whatever failed
\* between the end of that attempt and the name; but a retry whose shell could
\* not be closed is reported, with its error, under the name of the initial
\* attempt.
ResultNamesItsAttempt ==
    result # NoResult =>
        \/ final.by = result.attempt /\ (result.attempt = "initial" => final = initial)
        \/ /\ condition = "retry" /\ result.error
           /\ result.attempt = "initial" /\ final.by = "recovery"

\* A run comes to a result or to an exception: the planning calls, made again
\* when an answer does not parse, and the unwinding of a recovery included.
RunEnds == <>Ended

\* REPORT.md calls the primary endpoint "official Resolved %": a task with
\* official tests counts as resolved only if those were the tests that passed.
ResolvedIsOfficial ==
    result # NoResult /\ result.resolved /\ suite # "local" =>
        final.tested["test"] = "official"

\* README.md has predictions generated from final.patch for the official
\* evaluator, which applies them to the base commit: so they must apply to it.
PatchApplies ==
    result # NoResult => Applies(result.patch, Base(suite))
=============================================================================
