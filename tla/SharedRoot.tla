------------------------------ MODULE SharedRoot ------------------------------
(***************************************************************************)
(* Several benchmark commands at work over one results root, each on task  *)
(* directories of its own (one command per condition).  What they share is *)
(* the scan of the whole root, consumed_cost_usd (run_state.py), on which  *)
(* every admission and every ledger rests.  The scan takes no lock: it     *)
(* looks for final results first and for usage journals afterwards, while  *)
(* the other commands go on paying, completing and archiving.              *)
(*                                                                         *)
(* Module Benchmark has one command in full.  Here its controller is       *)
(* reduced to what a scan can meet: the directory, the journal, the final  *)
(* result, the removal of the journal, and the renaming of the directory.  *)
(* The ledger is written only, never read, and is left out.                *)
(***************************************************************************)
EXTENDS Naturals, Sequences, FiniteSetsExt

CONSTANTS
    Processes,      \* the commands
    Work,           \* command -> the number of its tasks
    MaxTokens,      \* budget.max_total_tokens, also the reserve of a task
    TaskRetries,    \* --task-retries
    Cap,            \* --max-total-cost-usd
    NoFile,         \* stands for a file that does not exist
    MaxFaults       \* bound: exceptions and crashes explored

ASSUME SharedRootAssumption ==
    /\ Work \in [Processes -> Nat \ {0}]
    /\ MaxTokens \in Nat \ {0} /\ TaskRetries \in Nat
    /\ Cap \in Nat /\ MaxFaults \in Nat /\ NoFile \notin Nat

Dirs == UNION {{p} \X (1 .. Work[p]) : p \in Processes}

VARIABLES
    live,       \* directory -> what is in it
    archived,   \* directory -> the journals of its interrupted-* siblings
    pc,         \* command -> where it stands; "down" when it does not run
    task,       \* command -> the task at hand
    attempt,    \* command -> index of the loop over range(task_retries + 1)
    spent,      \* command -> BudgetTracker.usage of the task at hand
    scan,       \* command -> its scan of the root
    faults

disk == <<live, archived>>
loop == <<task, attempt, spent>>
vars == <<disk, pc, loop, scan, faults>>

Files == [there : BOOLEAN, journal : Nat \cup {NoFile}, result : Nat \cup {NoFile}]
Absent == [there |-> FALSE, journal |-> NoFile, result |-> NoFile]

Amount(file) == IF file = NoFile THEN 0 ELSE file
Completed(d) == live[d].result # NoFile

\* The tokens in some of a list of journals, one by one, and their number.
Tokens(journals, S) == UNION {{i} \X (1 .. Amount(journals[i])) : i \in S}
Held(journals, S) == Cardinality(Tokens(journals, S))

\* What the root shows of one task: the result or else the journal of its
\* directory, and the journals of the renamed ones.
Counted(file) == IF file.result # NoFile THEN file.result ELSE Amount(file.journal)
Shown(d) == Counted(live[d]) + Held(archived[d], DOMAIN archived[d])

\* What happened to a task's files beyond the growth of its journal.
Version(d) == <<live[d].result, Len(archived[d])>>

Dir(p) == <<p, task[p]>>
AllDone(p) == \A i \in 1 .. Work[p] : Completed(<<p, i>>)

Goto(p, from, to) == pc[p] = from /\ pc' = [pc EXCEPT ![p] = to]

(***************************************************************************)
(* A scan: what it is for, the directories where it has still to look for  *)
(* a final result, the tasks whose directories it has still to list, the   *)
(* names it has listed ("live", or the number of an archived directory) of *)
(* the task it is in, the directory whose journal it is about to read (in  *)
(* a set), and what it has counted.  before is a ghost: what the root was  *)
(* when the scan began.                                                    *)
(***************************************************************************)
Purposes == {"none", "admit", "stop", "run", "raised", "accept", "complete"}

ScanOf(purpose, todo, before) ==
    [purpose |-> purpose, results |-> todo, tasks |-> todo,
     names |-> {}, at |-> NoFile, reading |-> {},
     counted |-> [d \in Dirs |-> 0], before |-> before]

Root == [d \in Dirs |-> [shown |-> Shown(d), version |-> Version(d)]]
NoScan == ScanOf("none", {}, [d \in Dirs |-> [shown |-> 0, version |-> <<NoFile, 0>>]])

\* A scan begins, on the root as the step leaves it.
Begin(p, purpose) == scan' = [scan EXCEPT ![p] = ScanOf(purpose, Dirs, Root')]

\* A command that ends, however it does: its locals are gone.
GoDown(p) ==
    /\ pc' = [pc EXCEPT ![p] = "down"]
    /\ scan' = [scan EXCEPT ![p] = NoScan]
    /\ task' = [task EXCEPT ![p] = 1]
    /\ attempt' = [attempt EXCEPT ![p] = 0] /\ spent' = [spent EXCEPT ![p] = 0]

Total(s) == MapThenSumSet(LAMBDA d : s.counted[d], Dirs)

Init ==
    /\ live = [d \in Dirs |-> Absent] /\ archived = [d \in Dirs |-> <<>>]
    /\ pc = [p \in Processes |-> "down"] /\ task = [p \in Processes |-> 1]
    /\ attempt = [p \in Processes |-> 0] /\ spent = [p \in Processes |-> 0]
    /\ scan = [p \in Processes |-> NoScan] /\ faults = 0

-----------------------------------------------------------------------------
(* The scan, one look at the disk at a time.                               *)

Add(p, d, amount) == [scan[p].counted EXCEPT ![d] = @ + amount]

\* First pass: the final results.
CountResult(p) ==
    /\ pc[p] = "scan"
    /\ \E d \in scan[p].results :
           scan' = [scan EXCEPT ![p].results = @ \ {d},
                                ![p].counted = Add(p, d, Amount(live[d].result))]
    /\ UNCHANGED <<disk, pc, loop, faults>>

\* Mutant: only the directories of the conditions are looked into.
BugListTask(p) ==
    /\ pc[p] = "scan" /\ scan[p].results = {} /\ scan[p].names = {}
    /\ scan[p].reading = {}
    /\ \E d \in scan[p].tasks :
           scan' = [scan EXCEPT ![p].tasks = @ \ {d}, ![p].at = d,
                        ![p].names = IF live[d].there THEN {0} ELSE {}]
    /\ UNCHANGED <<disk, pc, loop, faults>>

\* Second pass: the names in the directory of a task, as they are now.
ListTask(p) ==
    /\ pc[p] = "scan" /\ scan[p].results = {} /\ scan[p].names = {}
    /\ scan[p].reading = {}
    /\ \E d \in scan[p].tasks :
           scan' = [scan EXCEPT ![p].tasks = @ \ {d}, ![p].at = d,
                        ![p].names = (IF live[d].there THEN {0} ELSE {})
                                     \cup DOMAIN archived[d]]
    /\ UNCHANGED <<disk, pc, loop, faults>>

\* The journal of an archived directory: nothing changes there any more.
CountArchived(p) ==
    LET d == scan[p].at IN
    /\ pc[p] = "scan" /\ scan[p].reading = {}
    /\ \E i \in scan[p].names \ {0} :
           scan' = [scan EXCEPT ![p].names = @ \ {i},
                                ![p].counted = Add(p, d, Amount(archived[d][i]))]
    /\ UNCHANGED <<disk, pc, loop, faults>>

\* Mutant: the journal beside a final result is counted as well.
BugCounts(d) == live[d].journal # NoFile

\* A journal counts while there is no final result beside it.
Counts(d) == live[d].journal # NoFile /\ ~Completed(d)

\* The live directory, under the name that was listed.
FindJournal(p) ==
    LET d == scan[p].at IN
    /\ pc[p] = "scan" /\ 0 \in scan[p].names
    /\ scan' = [scan EXCEPT ![p].names = @ \ {0},
                            ![p].reading = IF Counts(d) THEN {d} ELSE {}]
    /\ UNCHANGED <<disk, pc, loop, faults>>

ReadJournal(p) ==
    LET d == scan[p].at IN
    /\ pc[p] = "scan" /\ d \in scan[p].reading /\ live[d].journal # NoFile
    /\ scan' = [scan EXCEPT ![p].reading = {},
                            ![p].counted = Add(p, d, live[d].journal)]
    /\ UNCHANGED <<disk, pc, loop, faults>>

\* FileNotFoundError: the journal was removed, or its directory renamed, since
\* it was found; or a directory was renamed since it was listed (whether that
\* raises depends on the version of pathlib).  No handler is around: the
\* command dies.
ScanRaises(p) ==
    LET d == scan[p].at IN
    /\ pc[p] = "scan"
    /\ \/ d \in scan[p].reading /\ live[d].journal = NoFile
       \/ 0 \in scan[p].names /\ ~live[d].there
    /\ GoDown(p)
    /\ UNCHANGED <<disk, faults>>

Scanned(p) ==
    /\ pc[p] = "scan" /\ scan[p].results = {} /\ scan[p].tasks = {}
    /\ scan[p].names = {} /\ scan[p].reading = {}

-----------------------------------------------------------------------------
(* The loop of the command (benchmark_command), its ledger writes as scans. *)

\* Mutant: a directory with a journal is taken for a run still at work.
BugArchive(p) ==
    LET d == Dir(p) IN
    IF Completed(d) \/ ~live[d].there \/ live[d].journal # NoFile THEN UNCHANGED disk
    ELSE /\ archived' = [archived EXCEPT ![d] = Append(@, live[d].journal)]
         /\ live' = [live EXCEPT ![d] = Absent]

\* archive_partial_task.
Archive(p) ==
    LET d == Dir(p) IN
    IF Completed(d) \/ ~live[d].there THEN UNCHANGED disk
    ELSE /\ archived' = [archived EXCEPT ![d] = Append(@, live[d].journal)]
         /\ live' = [live EXCEPT ![d] = Absent]

\* The operator runs a command again, also one whose tasks are done.
Start(p) ==
    /\ Goto(p, "down", "next")
    /\ UNCHANGED <<disk, loop, scan, faults>>

SkipCompleted(p) ==
    /\ pc[p] = "next" /\ task[p] <= Work[p] /\ Completed(Dir(p))
    /\ task' = [task EXCEPT ![p] = @ + 1]
    /\ UNCHANGED <<disk, pc, attempt, spent, scan, faults>>

\* What an earlier run left behind is archived before the root is scanned.
Consider(p) ==
    /\ Goto(p, "next", "scan") /\ task[p] <= Work[p] /\ ~Completed(Dir(p))
    /\ Archive(p)
    /\ Begin(p, "admit")
    /\ UNCHANGED <<loop, faults>>

\* The test of the cap: the reserve is that of the command's own next task.
Admit(p) ==
    /\ Scanned(p) /\ scan[p].purpose = "admit"
    /\ attempt' = [attempt EXCEPT ![p] = 0]
    /\ UNCHANGED <<disk, pc, task, spent, faults>>
    /\ Begin(p, IF Total(scan[p]) + MaxTokens > Cap THEN "stop" ELSE "run")

BeginAttempt(p) ==
    /\ Scanned(p) /\ scan[p].purpose = "run"
    /\ pc' = [pc EXCEPT ![p] = "make"]
    /\ scan' = [scan EXCEPT ![p] = NoScan]
    /\ spent' = [spent EXCEPT ![p] = 0]
    /\ UNCHANGED <<disk, task, attempt, faults>>

\* The ledger of a command that ends: stopped at the cap, or complete.
EndCommand(p) ==
    /\ Scanned(p) /\ scan[p].purpose \in {"stop", "complete"}
    /\ GoDown(p)
    /\ UNCHANGED <<disk, faults>>

Complete(p) ==
    /\ Goto(p, "next", "scan") /\ task[p] > Work[p]
    /\ UNCHANGED <<disk, loop, faults>>
    /\ Begin(p, "complete")

\* except Exception, after its ledger: give up, or archive and try again.
RetryOrGiveUp(p) ==
    /\ Scanned(p) /\ scan[p].purpose = "raised"
    /\ \/ /\ attempt[p] >= TaskRetries
          /\ GoDown(p)
          /\ UNCHANGED disk
       \/ /\ attempt[p] < TaskRetries
          /\ Archive(p) /\ Begin(p, "run")
          /\ attempt' = [attempt EXCEPT ![p] = @ + 1]
          /\ UNCHANGED <<pc, task, spent>>
    /\ UNCHANGED faults

AcceptResult(p) ==
    /\ Scanned(p) /\ scan[p].purpose = "accept"
    /\ pc' = [pc EXCEPT ![p] = "next"]
    /\ scan' = [scan EXCEPT ![p] = NoScan]
    /\ task' = [task EXCEPT ![p] = @ + 1]
    /\ attempt' = [attempt EXCEPT ![p] = 0] /\ spent' = [spent EXCEPT ![p] = 0]
    /\ UNCHANGED <<disk, faults>>

-----------------------------------------------------------------------------
(* The controller.                                                         *)

\* A directory that is completed or holds files is refused.
MakeDirectory(p) ==
    LET d == Dir(p) IN
    /\ Goto(p, "make", "work") /\ ~live[d].there
    /\ live' = [live EXCEPT ![d].there = TRUE]
    /\ UNCHANGED <<archived, loop, scan, faults>>

Refuse(p) ==
    /\ Goto(p, "make", "scan") /\ live[Dir(p)].there
    /\ UNCHANGED <<disk, loop, faults>>
    /\ Begin(p, "raised")

\* Mutant: the budget is tested with <= before the charge.
BugPay(p) ==
    /\ pc[p] = "work" /\ spent[p] <= MaxTokens
    /\ spent' = [spent EXCEPT ![p] = @ + 1]
    /\ live' = [live EXCEPT ![Dir(p)].journal = spent[p] + 1]
    /\ UNCHANGED <<archived, pc, task, attempt, scan, faults>>

\* One model call of one token: charged, and written to the journal.
Pay(p) ==
    /\ pc[p] = "work" /\ spent[p] < MaxTokens
    /\ spent' = [spent EXCEPT ![p] = @ + 1]
    /\ live' = [live EXCEPT ![Dir(p)].journal = spent[p] + 1]
    /\ UNCHANGED <<archived, pc, task, attempt, scan, faults>>

WriteResult(p) ==
    /\ Goto(p, "work", "unlink")
    /\ live' = [live EXCEPT ![Dir(p)].result = spent[p]]
    /\ UNCHANGED <<archived, loop, scan, faults>>

UnlinkJournal(p) ==
    /\ Goto(p, "unlink", "scan")
    /\ live' = [live EXCEPT ![Dir(p)].journal = NoFile]
    /\ UNCHANGED <<archived, loop, faults>>
    /\ Begin(p, "accept")

Fault == faults < MaxFaults /\ faults' = faults + 1

\* The controller raises.
RunRaises(p) ==
    /\ Fault /\ pc[p] \in {"work", "unlink"}
    /\ pc' = [pc EXCEPT ![p] = "scan"]
    /\ UNCHANGED <<disk, loop>>
    /\ Begin(p, "raised")

Crash(p) ==
    /\ Fault /\ pc[p] # "down"
    /\ GoDown(p)
    /\ UNCHANGED disk

ScanStep(p) ==
    \/ CountResult(p) \/ ListTask(p) \/ CountArchived(p) \/ FindJournal(p)
    \/ ReadJournal(p)

Step(p) ==
    \/ ScanStep(p) \/ SkipCompleted(p) \/ Consider(p) \/ Admit(p)
    \/ BeginAttempt(p) \/ EndCommand(p) \/ Complete(p) \/ RetryOrGiveUp(p)
    \/ AcceptResult(p) \/ MakeDirectory(p) \/ Refuse(p) \/ Pay(p)
    \/ WriteResult(p) \/ UnlinkJournal(p)

Next == \E p \in Processes :
           Start(p) \/ Step(p) \/ ScanRaises(p) \/ RunRaises(p) \/ Crash(p)

\* Each command runs on by itself, and is run again when it has ended.
Spec == Init /\ [][Next]_vars
        /\ \A p \in Processes : WF_vars(Step(p) \/ ScanRaises(p)) /\ WF_vars(Start(p))

-----------------------------------------------------------------------------
(* Properties.                                                             *)

Scans == [purpose : Purposes, results : SUBSET Dirs, tasks : SUBSET Dirs,
          names : SUBSET Nat, at : Dirs \cup {NoFile}, reading : SUBSET Dirs,
          counted : [Dirs -> Nat],
          before : [Dirs -> [shown : Nat, version : (Nat \cup {NoFile}) \X Nat]]]

\* Type invariant.
TypeOK ==
    /\ live \in [Dirs -> Files]
    /\ archived \in [Dirs -> Seq(Nat \cup {NoFile})]
    /\ pc \in [Processes -> {"down", "next", "scan", "make", "work", "unlink"}]
    /\ task \in [Processes -> Nat \ {0}] /\ attempt \in [Processes -> 0 .. TaskRetries]
    /\ spent \in [Processes -> 0 .. MaxTokens] /\ scan \in [Processes -> Scans]
    /\ \A p \in Processes :
           /\ task[p] <= Work[p] + 1
           /\ (pc[p] = "scan") <=> (scan[p].purpose # "none")
    /\ faults \in 0 .. MaxFaults

\* A scan may look at a task before and after it completes, and at its journal
\* before and after the directory is renamed: still it never counts money
\* twice, and never more than the root shows (consumed_cost_usd).
NeverOvercounts ==
    \A p \in Processes, d \in Dirs : scan[p].counted[d] <= Shown(d)

\* What a scan leaves out of what the root showed when it began belongs to
\* tasks that were completed or archived while it ran: journals that only grow
\* and commands that pay meanwhile cost it nothing.
MissesOnlyWhatMoved ==
    \A p \in Processes : Scanned(p) =>
        \A d \in Dirs : Version(d) = scan[p].before[d].version =>
            scan[p].counted[d] >= scan[p].before[d].shown

\* The commands do not keep each other from their work: a scan that dies of
\* what another command did is followed by a rerun that gets further, until
\* each has its tasks done or is stopped at the cap for ever.
EachGetsDone ==
    \A p \in Processes :
        \/ <>[]AllDone(p)
        \/ []<>(scan[p].purpose = "stop")

\* cli.py calls --max-total-cost-usd a "shared hard cost cap across completed
\* and interrupted runs": a command that is admitted to a task fits it, with
\* its reserve, under the cap above all the root showed when it began to look.
AdmittedUnderCap ==
    [][\A p \in Processes :
          scan[p].purpose = "admit" /\ scan'[p].purpose = "run" =>
              MapThenSumSet(LAMBDA d : scan[p].before[d].shown, Dirs) + MaxTokens
                  <= Cap]_vars
=============================================================================
