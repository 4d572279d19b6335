------------------------------ MODULE Benchmark ------------------------------
(***************************************************************************)
(* The benchmark command (contextrepair/cli.py, benchmark_command) running *)
(* one task controller after another (agent/controller.py) over a results  *)
(* directory that survives crashes, interruptions and restarts             *)
(* (run_state.py).                                                         *)
(*                                                                         *)
(* A money amount is counted in tokens priced at the configured highest    *)
(* rate, so that the reserve of a task is its token budget                 *)
(* (worst_case_task_cost_usd).  What happens inside an attempt is reduced  *)
(* here to its paid model calls; module AgentLoop models the attempt.      *)
(***************************************************************************)
EXTENDS Integers, Sequences, FiniteSets

CONSTANTS
    N,              \* the locked subset has tasks 1..N, in sorted order
    MaxCalls,       \* budget.max_model_calls of one task
    MaxTokens,      \* budget.max_total_tokens of one task
    MaxCallCost,    \* the most one model call costs
    TaskRetries,    \* --task-retries
    Cap,            \* --max-total-cost-usd, or NoCap
    NoCap,
    NoFile,         \* stands for a file that does not exist
    MayRecover,     \* condition # "single": a second attempt may follow
    MaxFaults       \* bound: crashes, interrupts and exceptions explored

ASSUME BenchmarkAssumption ==
    /\ N \in Nat \ {0} /\ MaxCalls \in Nat \ {0} /\ MaxTokens \in Nat \ {0}
    /\ MaxCallCost \in Nat \ {0}
    /\ TaskRetries \in Nat /\ MaxFaults \in Nat
    /\ Cap \in Nat \cup {NoCap} /\ NoCap \notin Nat /\ NoFile \notin Nat
    /\ MayRecover \in BOOLEAN

Tasks == 1 .. N

VARIABLES
    live,       \* task -> its directory <results>/<task>/<condition>
    archived,   \* task -> the directories renamed to <condition>.interrupted-*
    ledger,     \* run_ledger.json: status and current task
    pc,         \* where the benchmark process stands; "down" when there is none
    task,       \* the task of the loop at hand
    attempt,    \* index of the loop over range(task_retries + 1)
    phase,      \* which coding attempt the controller is in
    calls,      \* BudgetTracker.calls
    spent,      \* BudgetTracker.usage
    inflight,   \* cost of the response received and not yet recorded
    faults      \* faults so far (bounded by MaxFaults)

disk == <<live, archived, ledger>>
controller == <<phase, calls, spent, inflight>>
process == <<pc, task, attempt, controller>>
vars == <<disk, process, faults>>

(***************************************************************************)
(* A directory: whether it is absent, empty, or holds files; the total of  *)
(* model_usage.partial.json; cost_usd of final_result.json.  billed is a   *)
(* ghost: what the provider charged for the calls made while the directory *)
(* was the live one.                                                       *)
(***************************************************************************)
Dir == [content : {"absent", "empty", "files"},
        journal : Nat \cup {NoFile},
        result  : Nat \cup {NoFile},
        billed  : Nat]

Absent == [content |-> "absent", journal |-> NoFile, result |-> NoFile, billed |-> 0]

\* What consumed_cost_usd counts for one directory: a completed result hides
\* the journal beside it.
Counted(d) == IF d.result # NoFile THEN d.result
              ELSE IF d.journal # NoFile THEN d.journal ELSE 0

\* The directories a task has had: the archived ones, then the live one.
Directory(t, i) == IF i <= Len(archived[t]) THEN archived[t][i] ELSE live[t]

\* The tokens the results root shows as paid, by directory and number.
TokensOf(t) == UNION {{i} \X (1 .. Counted(Directory(t, i))) :
                         i \in 1 .. Len(archived[t]) + 1}
Tokens == UNION {{t} \X TokensOf(t) : t \in Tasks}

\* consumed_cost_usd: the scan of the whole results root.
Consumed == Cardinality(Tokens)

Completed(t) == live[t].result # NoFile

\* Mutant: the test for a completed result is missing.
BugArchiveCompleted(t) ==
    IF live[t].content # "files" THEN UNCHANGED <<live, archived>>
    ELSE /\ archived' = [archived EXCEPT ![t] = Append(@, live[t])]
         /\ live' = [live EXCEPT ![t] = Absent]

\* Mutant: the directory is deleted instead of renamed.
BugArchiveDeletes(t) ==
    /\ live' = IF Completed(t) THEN live ELSE [live EXCEPT ![t] = Absent]
    /\ UNCHANGED archived

\* Mutant: only directories that hold a journal are worth archiving.
BugArchiveJournalOnly(t) ==
    IF Completed(t) \/ live[t].journal = NoFile THEN UNCHANGED <<live, archived>>
    ELSE /\ archived' = [archived EXCEPT ![t] = Append(@, live[t])]
         /\ live' = [live EXCEPT ![t] = Absent]

\* archive_partial_task: a completed or missing directory is left alone, an
\* empty one removed, any other renamed with everything in it.
ArchivePartial(t) ==
    \/ /\ live[t].content = "absent" \/ Completed(t)
       /\ UNCHANGED <<live, archived>>
    \/ /\ live[t].content = "empty" /\ ~Completed(t)
       /\ live' = [live EXCEPT ![t] = Absent]
       /\ UNCHANGED archived
    \/ /\ live[t].content = "files" /\ ~Completed(t)
       /\ archived' = [archived EXCEPT ![t] = Append(@, live[t])]
       /\ live' = [live EXCEPT ![t] = Absent]

WriteLedger(status, t) == ledger' = [status |-> status, current |-> t]

\* The states in which ExperimentController.run is on the stack.
RunStates == {"run", "setup", "work", "flush", "record", "close",
              "commit", "unlink", "cleanup"}
States == RunStates \cup {"down", "next", "admit", "attempt", "raised",
                          "rearchive", "interrupted", "returned"}
Statuses == {"none", "running", "retrying", "failed", "interrupted",
             "budget_stopped", "complete"}

Init ==
    /\ live = [t \in Tasks |-> Absent]
    /\ archived = [t \in Tasks |-> <<>>]
    /\ ledger = [status |-> "none", current |-> 0]
    /\ pc = "down" /\ task = 1 /\ attempt = 0
    /\ phase = "initial" /\ calls = 0 /\ spent = 0 /\ inflight = 0
    /\ faults = 0

Goto(from, to) == pc = from /\ pc' = to

-----------------------------------------------------------------------------
(* The loop over the sorted tasks.                                         *)

\* The operator runs the command; nothing is remembered but the disk.
Start ==
    /\ Goto("down", "next")
    /\ task' = 1
    /\ UNCHANGED <<disk, attempt, controller, faults>>

\* Mutant: any directory with files counts as done.
BugSkipStarted ==
    /\ pc = "next" /\ task \in Tasks /\ live[task].content = "files"
    /\ task' = task + 1
    /\ UNCHANGED <<disk, pc, attempt, controller, faults>>

\* A task with a completed result is skipped.
SkipCompleted ==
    /\ pc = "next" /\ task \in Tasks /\ Completed(task)
    /\ task' = task + 1
    /\ UNCHANGED <<disk, pc, attempt, controller, faults>>

\* What an earlier process left unfinished is archived first.
ArchiveEarlier ==
    /\ Goto("next", "admit") /\ task \in Tasks /\ ~Completed(task)
    /\ ArchivePartial(task)
    /\ UNCHANGED <<ledger, task, attempt, controller, faults>>

\* worst_case_task_cost_usd: what a task may cost, were its budget hard.
Reserve == MaxTokens

\* Mutant: the directories of interrupted runs are not counted.
BugOverCap ==
    /\ Cap # NoCap
    /\ Cardinality(UNION {{t} \X (1 .. Counted(live[t])) : t \in Tasks}) + Reserve > Cap

\* What is consumed and the reserve of one more task exceed the cap.
OverCap == Cap # NoCap /\ Consumed + Reserve > Cap

\* The admission test, made once per task, before its first attempt.
StopAtCap ==
    /\ Goto("admit", "down") /\ OverCap
    /\ WriteLedger("budget_stopped", task)
    /\ UNCHANGED <<live, archived, task, attempt, controller, faults>>

Admit ==
    /\ Goto("admit", "attempt") /\ ~OverCap
    /\ attempt' = 0
    /\ UNCHANGED <<disk, task, controller, faults>>

\* A fresh controller, with a fresh budget, for every attempt.
BeginAttempt ==
    /\ Goto("attempt", "run")
    /\ WriteLedger("running", task)
    /\ phase' = "initial" /\ calls' = 0 /\ spent' = 0 /\ inflight' = 0
    /\ UNCHANGED <<live, archived, task, attempt, faults>>

Finish ==
    /\ Goto("next", "down") /\ task \notin Tasks
    /\ WriteLedger("complete", 0)
    /\ UNCHANGED <<live, archived, task, attempt, controller, faults>>

\* The result is appended to the list, the summary and the ledger rewritten.
AcceptResult ==
    /\ Goto("returned", "next")
    /\ task' = task + 1
    /\ WriteLedger("running", 0)
    /\ UNCHANGED <<live, archived, attempt, controller, faults>>

\* Mutant: off by one in the test for the last attempt.
BugRecordFailure ==
    /\ pc = "raised"
    /\ WriteLedger(IF attempt < TaskRetries THEN "retrying" ELSE "failed", task)
    /\ pc' = IF attempt > TaskRetries THEN "down" ELSE "rearchive"
    /\ UNCHANGED <<live, archived, task, attempt, controller, faults>>

\* except Exception: the ledger, then either give up or archive and go on.
RecordFailure ==
    /\ pc = "raised"
    /\ WriteLedger(IF attempt < TaskRetries THEN "retrying" ELSE "failed", task)
    /\ pc' = IF attempt >= TaskRetries THEN "down" ELSE "rearchive"
    /\ UNCHANGED <<live, archived, task, attempt, controller, faults>>

\* Mutant: the loop over the attempts does not advance.
BugRetryForever ==
    /\ Goto("rearchive", "attempt")
    /\ ArchivePartial(task)
    /\ UNCHANGED <<ledger, task, attempt, controller, faults>>

\* Mutant: retry at once, in the directory the failure left behind.
BugRetryInPlace ==
    /\ Goto("rearchive", "attempt")
    /\ attempt' = attempt + 1
    /\ UNCHANGED <<disk, task, controller, faults>>

\* What the failed attempt left is archived before the next one.
ArchiveAndRetry ==
    /\ Goto("rearchive", "attempt")
    /\ ArchivePartial(task)
    /\ attempt' = attempt + 1
    /\ UNCHANGED <<ledger, task, controller, faults>>

\* except KeyboardInterrupt: the ledger, then the process ends.
RecordInterrupt ==
    /\ Goto("interrupted", "down")
    /\ WriteLedger("interrupted", task)
    /\ UNCHANGED <<live, archived, task, attempt, controller, faults>>

-----------------------------------------------------------------------------
(* ExperimentController.run.                                               *)

\* A directory that is completed or not empty is refused with FileExistsError.
RefuseDirectory ==
    /\ Goto("run", "raised")
    /\ Completed(task) \/ live[task].content = "files"
    /\ UNCHANGED <<disk, task, attempt, controller, faults>>

MakeDirectory ==
    /\ Goto("run", "setup")
    /\ ~Completed(task) /\ live[task].content # "files"
    /\ live' = [live EXCEPT ![task].content = "empty"]
    /\ UNCHANGED <<archived, ledger, task, attempt, controller, faults>>

\* The workspace is cloned outside the directory, then metadata.json written.
WriteMetadata ==
    /\ Goto("setup", "work")
    /\ live' = [live EXCEPT ![task].content = "files"]
    /\ UNCHANGED <<archived, ledger, task, attempt, controller, faults>>

BudgetLeft == calls < MaxCalls /\ spent < MaxTokens

\* ensure_available, then the provider answers and charges.
CallModel ==
    /\ Goto("work", "flush") /\ BudgetLeft
    /\ \E c \in 1 .. MaxCallCost : /\ inflight' = c
                            /\ live' = [live EXCEPT ![task].billed = @ + c]
    /\ UNCHANGED <<archived, ledger, task, attempt, phase, calls, spent, faults>>

\* Mutant: the journal is written before the new call is appended to the log.
BugFlushBefore ==
    /\ Goto("flush", "record")
    /\ live' = [live EXCEPT ![task].journal = spent]
    /\ UNCHANGED <<archived, ledger, task, attempt, controller, faults>>

\* Mutant: the journal is left for the end of the task.
BugFlushSkipped ==
    /\ Goto("flush", "record")
    /\ UNCHANGED <<disk, task, attempt, controller, faults>>

\* The call is logged and the journal rewritten with every call so far ...
FlushJournal ==
    /\ Goto("flush", "record")
    /\ live' = [live EXCEPT ![task].journal = spent + inflight]
    /\ UNCHANGED <<archived, ledger, task, attempt, controller, faults>>

\* ... and only then does the budget count it.
RecordUsage ==
    /\ Goto("record", "work")
    /\ calls' = calls + 1 /\ spent' = spent + inflight /\ inflight' = 0
    /\ UNCHANGED <<disk, task, attempt, phase, faults>>

\* The initial attempt failed its tests: a recovery attempt shares the budget.
BeginRecovery ==
    /\ pc = "work" /\ phase = "initial" /\ MayRecover
    /\ phase' = "recovery"
    /\ UNCHANGED <<disk, pc, task, attempt, calls, spent, inflight, faults>>

EndAttempts ==
    /\ Goto("work", "close")
    /\ UNCHANGED <<disk, task, attempt, controller, faults>>

CloseShell ==
    /\ Goto("close", "commit")
    /\ UNCHANGED <<disk, task, attempt, controller, faults>>

\* final.patch, model_calls.json and last final_result.json.
WriteResult ==
    /\ Goto("commit", "unlink")
    /\ live' = [live EXCEPT ![task].result = spent]
    /\ UNCHANGED <<archived, ledger, task, attempt, controller, faults>>

UnlinkJournal ==
    /\ Goto("unlink", "cleanup")
    /\ live' = [live EXCEPT ![task].journal = NoFile]
    /\ UNCHANGED <<archived, ledger, task, attempt, controller, faults>>

CleanupWorkspace ==
    /\ Goto("cleanup", "returned")
    /\ UNCHANGED <<disk, task, attempt, controller, faults>>

-----------------------------------------------------------------------------
(* Faults.                                                                 *)

Fault == faults < MaxFaults /\ faults' = faults + 1

\* An exception in any step of the controller.  During the recovery attempt
\* it is caught and kept as recovery_error; elsewhere it leaves run().
RunRaises ==
    /\ Fault /\ pc \in RunStates \ {"record"}
    /\ pc' = IF phase = "recovery" /\ pc \in {"work", "flush"} THEN "close"
             ELSE "raised"
    /\ inflight' = 0
    /\ UNCHANGED <<disk, task, attempt, phase, calls, spent>>

\* Control-C while the controller runs is not an Exception: nothing catches
\* it before the benchmark loop does.
Interrupt ==
    /\ Fault /\ pc \in RunStates
    /\ pc' = "interrupted"
    /\ UNCHANGED <<disk, task, attempt, controller>>

\* The process dies: killed, out of power, or by an exception of the loop itself.
Crash ==
    /\ Fault /\ pc # "down"
    /\ pc' = "down"
    /\ UNCHANGED <<disk, task, attempt, controller>>

-----------------------------------------------------------------------------
RunStep ==
    \/ RefuseDirectory \/ MakeDirectory \/ WriteMetadata
    \/ CallModel \/ FlushJournal \/ RecordUsage
    \/ BeginRecovery \/ EndAttempts \/ CloseShell
    \/ WriteResult \/ UnlinkJournal \/ CleanupWorkspace

LoopStep ==
    \/ SkipCompleted \/ ArchiveEarlier \/ StopAtCap \/ Admit \/ BeginAttempt
    \/ Finish \/ AcceptResult \/ RecordFailure \/ ArchiveAndRetry
    \/ RecordInterrupt

Next == Start \/ LoopStep \/ RunStep \/ RunRaises \/ Interrupt \/ Crash

\* The process runs until it ends; the operator runs the command again.
Fairness == WF_vars(LoopStep \/ RunStep) /\ WF_vars(Start)

Spec == Init /\ [][Next]_vars /\ Fairness

-----------------------------------------------------------------------------
(* Properties.                                                             *)

\* Type invariant: the shape of the disk and of the process state.
TypeOK ==
    /\ live \in [Tasks -> Dir]
    /\ archived \in [Tasks -> Seq(Dir)]
    /\ ledger \in [status : Statuses, current : Nat]
    /\ pc \in States /\ task \in 1 .. N + 1 /\ attempt \in 0 .. TaskRetries
    /\ phase \in {"initial", "recovery"}
    /\ calls \in Nat /\ spent \in Nat /\ inflight \in Nat
    /\ faults \in 0 .. MaxFaults

\* What the provider charged and the disk does not show.
Unrecorded(d) == d.billed - Counted(d)

\* Wherever the process is, or was when it died, each directory accounts for
\* its spending up to a single model call, and never for more than was spent
\* (the write-ahead journal of ModelClient.generate, the cost_usd of
\* final_result.json, consumed_cost_usd).
AccountingSound ==
    \A t \in Tasks :
        /\ Unrecorded(live[t]) \in 0 .. MaxCallCost
        /\ \A i \in DOMAIN archived[t] :
               Unrecorded(archived[t][i]) \in 0 .. MaxCallCost

\* Incomplete directories are archived before every attempt: the controller
\* never has to refuse one ("Incomplete result exists", controller.run).
StartsClean ==
    pc = "run" /\ live[task].content = "files" => Completed(task)

\* A ledger that says complete means every task of the subset has its result,
\* whatever crashes and restarts came before (benchmark_command).
CompleteMeansAllDone ==
    ledger.status = "complete" => \A t \in Tasks : Completed(t)

\* A final result, once written, is never changed, removed or charged for
\* again, through retries, archiving and restarts (load_completed_result,
\* archive_partial_task, the test at the head of controller.run).
CompletedIsFinal ==
    [][\A t \in Tasks : Completed(t) =>
          /\ live'[t].result = live[t].result
          /\ live'[t].billed = live[t].billed]_vars

\* No step makes known spending disappear: neither archiving, nor replacing
\* the journal by the final result, nor a restart (consumed_cost_usd).
ConsumptionNeverDrops == [][Consumed' >= Consumed]_vars

\* How far one task can overrun the cap it was admitted under: a whole task
\* budget for every retry, and for every attempt what its last call added
\* beyond the token budget (benchmark_command, BudgetTracker.record).
CapOvershootBounded ==
    Cap # NoCap =>
        Consumed <= Cap + TaskRetries * MaxTokens
                        + (TaskRetries + 1) * (MaxCallCost - 1)

\* cli.py calls --max-total-cost-usd a "shared hard cost cap across completed
\* and interrupted runs": what the results root shows as consumed stays
\* within it (the admission test of benchmark_command).
CapIsHard == Cap # NoCap => Consumed <= Cap

\* Every run of the command ends: the budget bounds the calls of an attempt,
\* range(task_retries + 1) the attempts.
CommandEnds == pc # "down" ~> pc = "down"

\* Once the faults have ceased, an operator who runs the command again and
\* again gets every task completed, unless the cap stops every run: no crash
\* leaves a directory that a rerun cannot get past (ArchivePartial and the
\* test at the head of controller.run).
EventuallyAllDone ==
    \/ <>[](\A t \in Tasks : Completed(t))
    \/ Cap # NoCap /\ []<>(ledger.status = "budget_stopped")

-----------------------------------------------------------------------------
(* The disk as the books of module SpendingBooks: one for every directory  *)
(* a task has had.                                                         *)

BookOf(d) == [charged |-> d.billed, shown |-> Counted(d),
              behind |-> IF d.billed = Counted(d) THEN 0 ELSE 1]

BooksOf(t) == [i \in 1 .. Len(archived[t]) + 1 |->
                  BookOf(Directory(t, i))]

Spending == INSTANCE SpendingBooks
            WITH Lag <- 1,
                 books <- [t \in Tasks |-> BooksOf(t)],
                 settled <- {t \in Tasks : Completed(t)}

\* Through every crash, retry and restart the results root keeps its books:
\* a call is paid for only when all earlier ones of the directory are on disk,
\* old books and those of completed tasks are never touched, and a new book
\* starts from nothing (benchmark_command, ExperimentController.run and
\* run_state.py together implement SpendingBooks).
KeepsTheBooks == Spending!Spec
=============================================================================
