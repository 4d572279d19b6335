--------------------------- MODULE BenchmarkProofs ---------------------------
(***************************************************************************)
(* Safety of the benchmark command, for every subset, budget, number of    *)
(* retries and number of faults.                                           *)
(***************************************************************************)
EXTENDS Benchmark, TLAPS

-----------------------------------------------------------------------------
(* Types.  The process is on a task of the subset whenever it acts on one, *)
(* and a retry is only prepared while one is left.                         *)

OnTask == pc \notin {"down", "next"} => task \in Tasks

RetryLeft == pc = "rearchive" => attempt < TaskRetries

TypeInv == TypeOK /\ OnTask /\ RetryLeft

\* A missing directory has the shape of a directory.
LEMMA AbsentIsDir == Absent \in Dir
BY DEF Absent, Dir

\* A directory with one of its fields rewritten is a directory.
LEMMA RewrittenIsDir ==
    ASSUME NEW d \in Dir
    PROVE  /\ \A c \in {"absent", "empty", "files"} : [d EXCEPT !.content = c] \in Dir
           /\ \A n \in Nat \cup {NoFile} : /\ [d EXCEPT !.journal = n] \in Dir
                                          /\ [d EXCEPT !.result = n] \in Dir
           /\ \A n \in Nat : [d EXCEPT !.billed = n] \in Dir
BY DEF Dir

\* Archiving keeps the shape of the disk.
LEMMA ArchiveType ==
    ASSUME NEW t \in Tasks, ArchivePartial(t),
           live \in [Tasks -> Dir], archived \in [Tasks -> Seq(Dir)]
    PROVE  live' \in [Tasks -> Dir] /\ archived' \in [Tasks -> Seq(Dir)]
<1>1. live[t] \in Dir /\ archived[t] \in Seq(Dir)
  OBVIOUS
<1>2. Append(archived[t], live[t]) \in Seq(Dir)
  BY <1>1
<1> QED
  BY <1>1, <1>2, AbsentIsDir DEF ArchivePartial

\* The empty results root is well typed.
LEMMA InitTypeInv == Init => TypeInv
<1> SUFFICES ASSUME Init PROVE TypeInv
  OBVIOUS
<1>1. live \in [Tasks -> Dir]
  BY AbsentIsDir DEF Init
<1>2. archived \in [Tasks -> Seq(Dir)]
  BY DEF Init
<1> QED
  BY <1>1, <1>2, BenchmarkAssumption
  DEF Init, TypeInv, TypeOK, OnTask, RetryLeft, Statuses, States, Tasks

\* The steps of the benchmark loop.
LEMMA LoopKeepsTypes == ASSUME TypeInv, Start \/ LoopStep PROVE TypeInv'
<1> USE BenchmarkAssumption
    DEF TypeInv, TypeOK, OnTask, RetryLeft, Statuses, States, RunStates,
        Tasks, Goto, disk, controller, WriteLedger
<1>1. CASE Start
  BY <1>1 DEF Start
<1>2. CASE SkipCompleted
  BY <1>2 DEF SkipCompleted
<1>3. CASE Finish
  BY <1>3 DEF Finish
<1>4. CASE StopAtCap
  BY <1>4 DEF StopAtCap
<1>5. CASE Admit
  BY <1>5 DEF Admit
<1>6. CASE BeginAttempt
  BY <1>6 DEF BeginAttempt
<1>7. CASE AcceptResult
  BY <1>7 DEF AcceptResult
<1>8. CASE RecordFailure
  BY <1>8 DEF RecordFailure
<1>9. CASE RecordInterrupt
  BY <1>9 DEF RecordInterrupt
<1>10. CASE ArchiveEarlier
  <2>1. live' \in [Tasks -> Dir] /\ archived' \in [Tasks -> Seq(Dir)]
    BY <1>10, ArchiveType DEF ArchiveEarlier
  <2> QED
    BY <1>10, <2>1 DEF ArchiveEarlier
<1>11. CASE ArchiveAndRetry
  <2>1. live' \in [Tasks -> Dir] /\ archived' \in [Tasks -> Seq(Dir)]
    BY <1>11, ArchiveType DEF ArchiveAndRetry
  <2> QED
    BY <1>11, <2>1 DEF ArchiveAndRetry
<1> QED
  BY <1>1, <1>2, <1>3, <1>4, <1>5, <1>6, <1>7, <1>8, <1>9, <1>10, <1>11
  DEF LoopStep

\* What a step of the controller does to the disk.
LEMMA RunKeepsDirs ==
    ASSUME TypeInv, RunStep
    PROVE  live' \in [Tasks -> Dir]
<1>0. task \in Tasks /\ live \in [Tasks -> Dir] /\ live[task] \in Dir
  BY DEF TypeInv, TypeOK, OnTask, RunStep, Goto, RefuseDirectory, MakeDirectory,
         WriteMetadata, CallModel, FlushJournal, RecordUsage, BeginRecovery,
         EndAttempts, CloseShell, WriteResult, UnlinkJournal, CleanupWorkspace
<1>1. CASE UNCHANGED live
  BY <1>0, <1>1
<1>2. CASE MakeDirectory
  BY <1>0, <1>2, RewrittenIsDir DEF MakeDirectory
<1>3. CASE WriteMetadata
  BY <1>0, <1>3, RewrittenIsDir DEF WriteMetadata
<1>4. CASE CallModel
  <2>1. PICK c \in 1 .. MaxCallCost : live' = [live EXCEPT ![task].billed = @ + c]
    BY <1>4 DEF CallModel
  <2>2. live[task].billed + c \in Nat
    BY <1>0, BenchmarkAssumption DEF Dir
  <2> QED
    BY <1>0, <2>1, <2>2, RewrittenIsDir
<1>5. CASE FlushJournal
  <2>1. spent + inflight \in Nat
    BY DEF TypeInv, TypeOK
  <2> QED
    BY <1>0, <1>5, <2>1, RewrittenIsDir DEF FlushJournal
<1>6. CASE WriteResult
  <2>1. spent \in Nat
    BY DEF TypeInv, TypeOK
  <2> QED
    BY <1>0, <1>6, <2>1, RewrittenIsDir DEF WriteResult
<1>7. CASE UnlinkJournal
  BY <1>0, <1>7, RewrittenIsDir DEF UnlinkJournal
<1> QED
  BY <1>1, <1>2, <1>3, <1>4, <1>5, <1>6, <1>7
  DEF RunStep, disk, RefuseDirectory, RecordUsage, BeginRecovery, EndAttempts,
      CloseShell, CleanupWorkspace

\* The steps of the controller.
LEMMA RunKeepsTypes == ASSUME TypeInv, RunStep PROVE TypeInv'
<1>0. live' \in [Tasks -> Dir]
  BY RunKeepsDirs
<1> USE BenchmarkAssumption, <1>0
    DEF TypeInv, TypeOK, OnTask, RetryLeft, States, RunStates, Tasks, Goto,
        disk, controller
<1>1. CASE RefuseDirectory
  BY <1>1 DEF RefuseDirectory
<1>2. CASE EndAttempts
  BY <1>2 DEF EndAttempts
<1>3. CASE CloseShell
  BY <1>3 DEF CloseShell
<1>4. CASE CleanupWorkspace
  BY <1>4 DEF CleanupWorkspace
<1>5. CASE RecordUsage
  BY <1>5 DEF RecordUsage
<1>6. CASE BeginRecovery
  BY <1>6 DEF BeginRecovery
<1>7. CASE MakeDirectory
  BY <1>7 DEF MakeDirectory
<1>8. CASE WriteMetadata
  BY <1>8 DEF WriteMetadata
<1>9. CASE CallModel
  BY <1>9 DEF CallModel
<1>10. CASE FlushJournal
  BY <1>10 DEF FlushJournal
<1>11. CASE WriteResult
  BY <1>11 DEF WriteResult
<1>12. CASE UnlinkJournal
  BY <1>12 DEF UnlinkJournal
<1> QED
  BY <1>1, <1>2, <1>3, <1>4, <1>5, <1>6, <1>7, <1>8, <1>9, <1>10, <1>11, <1>12
  DEF RunStep

\* Exceptions, interrupts and crashes.
LEMMA FaultKeepsTypes ==
    ASSUME TypeInv, RunRaises \/ Interrupt \/ Crash PROVE TypeInv'
<1> USE BenchmarkAssumption
    DEF TypeInv, TypeOK, OnTask, RetryLeft, States, RunStates, Tasks,
        disk, controller, Fault
<1>1. CASE RunRaises
  <2>1. pc \in RunStates /\ pc' \in {"close", "raised"}
    BY <1>1 DEF RunRaises
  <2> QED
    BY <1>1, <2>1 DEF RunRaises
<1>2. CASE Interrupt
  BY <1>2 DEF Interrupt
<1>3. CASE Crash
  BY <1>3 DEF Crash
<1> QED
  BY <1>1, <1>2, <1>3

\* Every step of Next, and stuttering, keeps the types.
LEMMA NextTypeInv == TypeInv /\ [Next]_vars => TypeInv'
<1> SUFFICES ASSUME TypeInv, [Next]_vars PROVE TypeInv'
  OBVIOUS
<1>1. CASE Next
  BY <1>1, LoopKeepsTypes, RunKeepsTypes, FaultKeepsTypes DEF Next
<1>2. CASE UNCHANGED vars
  BY <1>2 DEF TypeInv, TypeOK, OnTask, RetryLeft, vars, disk, process, controller
<1> QED
  BY <1>1, <1>2

\* Type correctness, with what the process state needs to keep it.
THEOREM TypeCorrect == Spec => []TypeInv
BY InitTypeInv, NextTypeInv, PTL DEF Spec

\* The shape of the disk and of the process, in every reachable state.
THEOREM Typed == Spec => []TypeOK
BY TypeCorrect, PTL DEF TypeInv

-----------------------------------------------------------------------------
(* The books.  AccountingSound is not inductive: the next step of the      *)
(* process rewrites the journal or the result from its own counters, so    *)
(* the counters must be tied to the directory at every point of the run,   *)
(* and a directory without files must not have anything to account for.    *)

Plain(d) == d.content # "files" =>
                d.journal = NoFile /\ d.result = NoFile /\ d.billed = 0

AtTask ==
    LET d == live[task] IN
    /\ pc \in {"run", "setup"} => spent = 0 /\ inflight = 0
    /\ pc = "setup" => d.content = "empty"
    /\ pc \in {"work", "flush", "record", "close", "commit"} =>
           d.content = "files" /\ d.result = NoFile
    /\ pc = "work" => inflight = 0 /\ d.billed = spent /\ Counted(d) = spent
    /\ pc = "flush" => /\ inflight \in 1 .. MaxCallCost
                       /\ d.billed = spent + inflight /\ Counted(d) = spent
    /\ pc = "record" => /\ inflight \in 1 .. MaxCallCost
                        /\ d.billed = spent + inflight /\ Counted(d) = d.billed
    /\ pc \in {"close", "commit"} => /\ d.billed - spent \in 0 .. MaxCallCost
                                     /\ Counted(d) = spent
    /\ pc \in {"unlink", "cleanup", "returned"} => Completed(task)

Books == AtTask /\ (\A t \in Tasks : Plain(live[t])) /\ AccountingSound

LooseBooks == (\A t \in Tasks : Plain(live[t])) /\ AccountingSound

\* Plain and sound directories stay so when the disk does not change ...
LEMMA DiskSame ==
    ASSUME LooseBooks, UNCHANGED <<live, archived>>
    PROVE  LooseBooks'
BY DEF LooseBooks, Plain, AccountingSound, Unrecorded, Counted

\* ... when only the directory of the current task is rewritten ...
LEMMA OneRewritten ==
    ASSUME LooseBooks, UNCHANGED archived,
           \A t \in Tasks \ {task} : live'[t] = live[t],
           Plain(live'[task]), Unrecorded(live'[task]) \in 0 .. MaxCallCost
    PROVE  LooseBooks'
BY DEF LooseBooks, Plain, AccountingSound, Unrecorded, Counted

\* ... and when it is archived.
LEMMA ArchivedBooks ==
    ASSUME TypeInv, LooseBooks, task \in Tasks, ArchivePartial(task)
    PROVE  LooseBooks'
<1>0. /\ live \in [Tasks -> Dir] /\ archived \in [Tasks -> Seq(Dir)]
      /\ live[task] \in Dir /\ archived[task] \in Seq(Dir)
  BY DEF TypeInv, TypeOK
<1>1. Plain(Absent) /\ Unrecorded(Absent) \in 0 .. MaxCallCost
  BY BenchmarkAssumption DEF Plain, Unrecorded, Counted, Absent
<1>2. CASE UNCHANGED <<live, archived>>
  BY <1>2, DiskSame
<1>3. CASE live' = [live EXCEPT ![task] = Absent] /\ UNCHANGED archived
  <2>1. live'[task] = Absent /\ \A t \in Tasks \ {task} : live'[t] = live[t]
    BY <1>0, <1>3
  <2> QED
    BY <1>1, <1>3, <2>1, OneRewritten
<1>4. CASE /\ archived' = [archived EXCEPT ![task] = Append(@, live[task])]
           /\ live' = [live EXCEPT ![task] = Absent]
  <2>1. live'[task] = Absent /\ \A t \in Tasks \ {task} : live'[t] = live[t]
    BY <1>0, <1>4
  <2>2. /\ archived'[task] = Append(archived[task], live[task])
        /\ \A t \in Tasks \ {task} : archived'[t] = archived[t]
    BY <1>0, <1>4
  <2>3. ASSUME NEW t \in Tasks
        PROVE  Plain(live'[t]) /\ Unrecorded(live'[t]) \in 0 .. MaxCallCost
    BY <1>1, <2>1 DEF LooseBooks, AccountingSound
  <2>4. ASSUME NEW t \in Tasks, NEW i \in DOMAIN archived'[t]
        PROVE  Unrecorded(archived'[t][i]) \in 0 .. MaxCallCost
    <3>1. CASE t # task
      BY <2>2, <2>4, <3>1 DEF LooseBooks, AccountingSound
    <3>2. CASE t = task
      <4>1. i \in 1 .. Len(archived[task]) + 1
        BY <1>0, <2>2, <2>4, <3>2
      <4>2. \/ i \in DOMAIN archived[task] /\ archived'[task][i] = archived[task][i]
            \/ archived'[task][i] = live[task]
        BY <1>0, <2>2, <4>1
      <4> QED
        BY <3>2, <4>2 DEF LooseBooks, AccountingSound
    <3> QED
      BY <3>1, <3>2
  <2> QED
    BY <2>3, <2>4 DEF LooseBooks, AccountingSound, Plain, Unrecorded, Counted
<1> QED
  BY <1>2, <1>3, <1>4 DEF ArchivePartial

\* The steps of the loop leave the directories alone or archive one, and
\* hand the controller an empty account.
LEMMA LoopKeepsBooks ==
    ASSUME TypeInv, Books, Start \/ LoopStep PROVE Books'
<1>0. LooseBooks
  BY DEF Books, LooseBooks
<1>1. CASE Start \/ SkipCompleted \/ StopAtCap \/ Admit \/ BeginAttempt \/ Finish
           \/ AcceptResult \/ RecordFailure \/ RecordInterrupt
  <2>1. LooseBooks'
    BY <1>0, <1>1, DiskSame
    DEF Start, SkipCompleted, StopAtCap, Admit, BeginAttempt, Finish,
        AcceptResult, RecordFailure, RecordInterrupt, disk
  <2>2. \/ pc' \in {"next", "down", "attempt", "rearchive"}
        \/ pc' = "run" /\ spent' = 0 /\ inflight' = 0
    BY <1>1
    DEF Start, SkipCompleted, StopAtCap, Admit, BeginAttempt, Finish,
        AcceptResult, RecordFailure, RecordInterrupt, Goto
  <2>3. AtTask'
    BY <2>2 DEF AtTask
  <2> QED
    BY <2>1, <2>3 DEF Books, LooseBooks
<1>2. CASE ArchiveEarlier \/ ArchiveAndRetry
  <2>1. task \in Tasks /\ ArchivePartial(task) /\ pc' \in {"admit", "attempt"}
    BY <1>2 DEF ArchiveEarlier, ArchiveAndRetry, Goto, TypeInv, OnTask
  <2>2. LooseBooks'
    BY <1>0, <2>1, ArchivedBooks
  <2>3. AtTask'
    BY <2>1 DEF AtTask
  <2> QED
    BY <2>2, <2>3 DEF Books, LooseBooks
<1> QED
  BY <1>1, <1>2 DEF LoopStep

\* The steps of the controller that leave the disk alone.
LEMMA QuietRunKeepsBooks ==
    ASSUME TypeInv, Books,
           RefuseDirectory \/ RecordUsage \/ BeginRecovery \/ EndAttempts
           \/ CloseShell \/ CleanupWorkspace
    PROVE  Books'
<1>1. LooseBooks'
  BY DiskSame
  DEF Books, LooseBooks, RefuseDirectory, RecordUsage, BeginRecovery,
      EndAttempts, CloseShell, CleanupWorkspace, disk
<1> SUFFICES AtTask'
  BY <1>1 DEF Books, LooseBooks
<1> USE DEF AtTask, Goto, disk, controller, Completed
<1>2. task \in Tasks /\ live[task] \in Dir /\ spent \in Nat /\ inflight \in Nat
  BY DEF TypeInv, TypeOK, OnTask, RefuseDirectory, RecordUsage, BeginRecovery,
         EndAttempts, CloseShell, CleanupWorkspace
<1>3. AtTask /\ live[task].billed \in Nat
  BY <1>2 DEF Books, Dir
<1>4. CASE RefuseDirectory
  BY <1>4 DEF RefuseDirectory
<1>5. CASE RecordUsage
  BY <1>2, <1>3, <1>5 DEF RecordUsage, Counted
<1>6. CASE BeginRecovery
  BY <1>3, <1>6 DEF BeginRecovery, Counted
<1>7. CASE EndAttempts
  BY <1>2, <1>3, <1>7, BenchmarkAssumption DEF EndAttempts, Counted
<1>8. CASE CloseShell
  BY <1>3, <1>8 DEF CloseShell, Counted
<1>9. CASE CleanupWorkspace
  BY <1>3, <1>9 DEF CleanupWorkspace
<1> QED
  BY <1>4, <1>5, <1>6, <1>7, <1>8, <1>9

\* The steps of the controller that write to the directory.
LEMMA WritingRunKeepsBooks ==
    ASSUME TypeInv, Books,
           MakeDirectory \/ WriteMetadata \/ CallModel \/ FlushJournal
           \/ WriteResult \/ UnlinkJournal
    PROVE  Books'
<1> DEFINE d == live[task]
           e == live'[task]
<1>1. /\ task \in Tasks /\ live \in [Tasks -> Dir] /\ d \in Dir
      /\ spent \in Nat /\ inflight \in Nat /\ pc \in RunStates
  BY DEF TypeInv, TypeOK, OnTask, Goto, RunStates, MakeDirectory, WriteMetadata,
         CallModel, FlushJournal, WriteResult, UnlinkJournal
<1>2. AtTask /\ LooseBooks /\ Plain(d) /\ Unrecorded(d) \in 0 .. MaxCallCost
  BY <1>1 DEF Books, LooseBooks, AccountingSound
<1>3. d.billed \in Nat /\ d.content \in {"absent", "empty", "files"}
  BY <1>1 DEF Dir
<1>4. /\ UNCHANGED archived /\ task' = task
      /\ \A t \in Tasks \ {task} : live'[t] = live[t]
  BY <1>1 DEF MakeDirectory, WriteMetadata, CallModel, FlushJournal, WriteResult,
              UnlinkJournal
<1>5. ASSUME Plain(e), Unrecorded(e) \in 0 .. MaxCallCost, AtTask'
      PROVE  Books'
  BY <1>2, <1>4, <1>5, OneRewritten DEF Books, LooseBooks
<1> USE BenchmarkAssumption
    DEF AtTask, Plain, Unrecorded, Counted, Completed, Goto, controller
<1>6. CASE MakeDirectory
  <2>1. e = [d EXCEPT !.content = "empty"]
    BY <1>1, <1>6 DEF MakeDirectory
  <2> QED
    BY <1>1, <1>2, <1>3, <1>4, <1>5, <1>6, <2>1 DEF MakeDirectory, Dir
<1>7. CASE WriteMetadata
  <2>1. e = [d EXCEPT !.content = "files"]
    BY <1>1, <1>7 DEF WriteMetadata
  <2> QED
    BY <1>1, <1>2, <1>3, <1>4, <1>5, <1>7, <2>1 DEF WriteMetadata, Dir
<1>8. CASE CallModel
  <2>1. PICK c \in 1 .. MaxCallCost : /\ inflight' = c
                                      /\ live' = [live EXCEPT ![task].billed = @ + c]
    BY <1>8 DEF CallModel
  <2>2. e = [d EXCEPT !.billed = @ + c]
    BY <1>1, <2>1
  <2> QED
    BY <1>1, <1>2, <1>3, <1>4, <1>5, <1>8, <2>1, <2>2 DEF CallModel, Dir
<1>9. CASE FlushJournal
  <2>1. e = [d EXCEPT !.journal = spent + inflight]
    BY <1>1, <1>9 DEF FlushJournal
  <2> QED
    BY <1>1, <1>2, <1>3, <1>4, <1>5, <1>9, <2>1 DEF FlushJournal, Dir
<1>10. CASE WriteResult
  <2>1. e = [d EXCEPT !.result = spent]
    BY <1>1, <1>10 DEF WriteResult
  <2> QED
    BY <1>1, <1>2, <1>3, <1>4, <1>5, <1>10, <2>1 DEF WriteResult, Dir
<1>11. CASE UnlinkJournal
  <2>1. e = [d EXCEPT !.journal = NoFile]
    BY <1>1, <1>11 DEF UnlinkJournal
  <2> QED
    BY <1>1, <1>2, <1>3, <1>4, <1>5, <1>11, <2>1 DEF UnlinkJournal, Dir
<1> QED
  BY <1>6, <1>7, <1>8, <1>9, <1>10, <1>11

\* A fault leaves the disk as it is: at worst the call in flight is lost.
LEMMA FaultKeepsBooks ==
    ASSUME TypeInv, Books, RunRaises \/ Interrupt \/ Crash PROVE Books'
<1>1. LooseBooks'
  BY DiskSame DEF Books, LooseBooks, RunRaises, Interrupt, Crash, disk
<1>2. CASE Interrupt \/ Crash
  <2>1. AtTask'
    BY <1>2 DEF Interrupt, Crash, AtTask
  <2> QED
    BY <1>1, <2>1 DEF Books, LooseBooks
<1>3. CASE RunRaises /\ pc' = "raised"
  <2>1. AtTask'
    BY <1>3 DEF AtTask
  <2> QED
    BY <1>1, <2>1 DEF Books, LooseBooks
<1>4. CASE RunRaises /\ pc' = "close"
  <2>1. pc \in {"work", "flush"}
    BY <1>4 DEF RunRaises
  <2>2. /\ AtTask /\ live[task] \in Dir /\ live[task].billed \in Nat
        /\ spent \in Nat /\ inflight \in Nat
    BY <2>1 DEF Books, TypeInv, TypeOK, OnTask, Dir
  <2>3. /\ live[task].billed - spent \in 0 .. MaxCallCost
        /\ Counted(live[task]) = spent
    BY <2>1, <2>2, BenchmarkAssumption DEF AtTask
  <2>4. AtTask'
    BY <1>4, <2>1, <2>2, <2>3 DEF RunRaises, AtTask, Counted, disk
  <2> QED
    BY <1>1, <2>4 DEF Books, LooseBooks
<1> QED
  BY <1>2, <1>3, <1>4 DEF RunRaises

\* The empty results root has nothing to account for.
LEMMA InitBooks == Init => Books
BY BenchmarkAssumption
DEF Init, Books, AtTask, Plain, AccountingSound, Unrecorded, Counted, Absent

\* Every step of Next, and stuttering, keeps the books.
LEMMA NextBooks == TypeInv /\ Books /\ [Next]_vars => Books'
<1> SUFFICES ASSUME TypeInv, Books, [Next]_vars PROVE Books'
  OBVIOUS
<1>1. CASE Next
  BY <1>1, LoopKeepsBooks, QuietRunKeepsBooks, WritingRunKeepsBooks,
     FaultKeepsBooks
  DEF Next, RunStep
<1>2. CASE UNCHANGED vars
  BY <1>2
  DEF vars, disk, process, controller, Books, AtTask, Plain, AccountingSound,
      Unrecorded, Counted, Completed
<1> QED
  BY <1>1, <1>2

\* The accounts agree with the bill in every reachable state: of the directories
\* at rest, and of the one being worked on, whose state the controller knows
\* (ModelClient.generate, controller.run, archive_partial_task).
THEOREM BooksKept == Spec => []Books
<1>1. Init /\ [][Next]_vars => []Books
  BY InitTypeInv, NextTypeInv, InitBooks, NextBooks, PTL
<1> QED
  BY <1>1, PTL DEF Spec

\* Every directory accounts for its spending up to one model call, wherever
\* the process is or died (the write-ahead journal, final_result.json).
THEOREM Accounting == Spec => []AccountingSound
BY BooksKept, PTL DEF Books

-----------------------------------------------------------------------------
(* Where the loop stands among the tasks.                                  *)

DoneBefore ==
    /\ pc # "down" => \A t \in 1 .. task - 1 : Completed(t)
    /\ pc \in {"admit", "attempt", "run"} /\ live[task].content = "files" =>
           Completed(task)

Progress == DoneBefore /\ CompleteMeansAllDone

\* Only steps on a directory without a result touch its result or its bill.
LEMMA CompletedStays ==
    ASSUME TypeInv, Books, Next, NEW t \in Tasks, Completed(t)
    PROVE  /\ live'[t].result = live[t].result
           /\ live'[t].billed = live[t].billed
<1>0. live \in [Tasks -> Dir] /\ live[t] \in Dir
  BY DEF TypeInv, TypeOK
<1>1. CASE UNCHANGED live
  BY <1>1
<1>2. CASE ArchiveEarlier \/ ArchiveAndRetry
  <2>1. task \in Tasks /\ ArchivePartial(task)
    BY <1>2 DEF ArchiveEarlier, ArchiveAndRetry, Goto, TypeInv, OnTask
  <2>2. CASE task = t
    BY <2>1, <2>2 DEF ArchivePartial
  <2>3. CASE task # t
    BY <1>0, <2>1, <2>3 DEF ArchivePartial
  <2> QED
    BY <2>2, <2>3
<1>3. CASE MakeDirectory \/ WriteMetadata \/ CallModel \/ FlushJournal
           \/ WriteResult
  <2>1. task \in Tasks /\ \A u \in Tasks \ {task} : live'[u] = live[u]
    BY <1>0, <1>3
    DEF TypeInv, OnTask, Goto, MakeDirectory, WriteMetadata, CallModel,
        FlushJournal, WriteResult
  <2>2. ~Completed(task)
    BY <1>3, <2>1
    DEF Books, AtTask, Plain, Completed, Goto, MakeDirectory, WriteMetadata,
        CallModel, FlushJournal, WriteResult
  <2> QED
    BY <2>1, <2>2
<1>4. CASE UnlinkJournal
  <2>1. live' = [live EXCEPT ![task] = [live[task] EXCEPT !.journal = NoFile]]
        /\ task \in Tasks
    BY <1>4 DEF UnlinkJournal, TypeInv, OnTask, Goto
  <2>2. CASE task = t
    BY <1>0, <2>1, <2>2 DEF Dir
  <2>3. CASE task # t
    BY <1>0, <2>1, <2>3
  <2> QED
    BY <2>2, <2>3
<1> QED
  BY <1>1, <1>2, <1>3, <1>4
  DEF Next, LoopStep, RunStep, disk, Start, SkipCompleted, StopAtCap, Admit,
      BeginAttempt, Finish, AcceptResult, RecordFailure, RecordInterrupt,
      RefuseDirectory, RecordUsage, BeginRecovery, EndAttempts, CloseShell,
      CleanupWorkspace, RunRaises, Interrupt, Crash

\* A final result is never changed, removed or charged for again.
THEOREM ResultIsFinal == Spec => CompletedIsFinal
<1>1. TypeInv /\ Books /\ [Next]_vars =>
          [\A t \in Tasks : Completed(t) =>
              /\ live'[t].result = live[t].result
              /\ live'[t].billed = live[t].billed]_vars
  BY CompletedStays
<1> QED
  BY <1>1, TypeCorrect, BooksKept, PTL DEF Spec, CompletedIsFinal

\* No step forgets that a task is completed.
LEMMA StillCompleted ==
    ASSUME TypeInv, Books, Next, NEW t \in Tasks, Completed(t)
    PROVE  Completed(t)'
BY CompletedStays DEF Completed

\* The tasks before the one at hand stay completed.
LEMMA DoneBeforeStep ==
    ASSUME TypeInv, Books, Progress, Next PROVE DoneBefore'
<1> DEFINE Clean == live[task].content = "files" => Completed(task)
<1>0. /\ task \in 1 .. N + 1 /\ N \in Nat
      /\ \A t \in Tasks : Completed(t) => Completed(t)'
  BY StillCompleted, BenchmarkAssumption DEF TypeInv, TypeOK
<1>1. ASSUME pc' # "down", NEW t \in 1 .. task' - 1
      PROVE  Completed(t)'
  <2>1. CASE Start
    BY <1>1, <2>1 DEF Start
  <2>2. CASE SkipCompleted \/ AcceptResult
    <3>1. task' = task + 1 /\ task \in Tasks /\ Completed(task) /\ pc # "down"
      BY <2>2 DEF SkipCompleted, AcceptResult, Goto, TypeInv, OnTask, Books, AtTask
    <3>2. t \in Tasks /\ (t = task \/ t \in 1 .. task - 1)
      BY <1>0, <1>1, <3>1 DEF Tasks
    <3> QED
      BY <1>0, <3>1, <3>2 DEF Progress, DoneBefore
  <2>3. CASE task' = task /\ pc # "down"
    <3>1. t \in Tasks /\ t \in 1 .. task - 1
      BY <1>0, <1>1, <2>3 DEF Tasks
    <3> QED
      BY <1>0, <2>3, <3>1 DEF Progress, DoneBefore
  <2> QED
    BY <1>1, <2>1, <2>2, <2>3
    DEF Next, LoopStep, RunStep, Goto, RunStates, ArchiveEarlier, StopAtCap,
        Admit, BeginAttempt, Finish, RecordFailure, ArchiveAndRetry,
        RecordInterrupt, RefuseDirectory, MakeDirectory, WriteMetadata,
        CallModel, FlushJournal, RecordUsage, BeginRecovery, EndAttempts,
        CloseShell, WriteResult, UnlinkJournal, CleanupWorkspace, RunRaises,
        Interrupt, Crash
<1>2. ASSUME pc' \in {"admit", "attempt", "run"} PROVE Clean'
  <2>1. CASE ArchiveEarlier \/ ArchiveAndRetry
    <3>1. /\ ArchivePartial(task) /\ task \in Tasks /\ task' = task
          /\ live \in [Tasks -> Dir]
      BY <2>1 DEF ArchiveEarlier, ArchiveAndRetry, Goto, TypeInv, TypeOK, OnTask
    <3> QED
      BY <3>1 DEF ArchivePartial, Absent, Completed
  <2>2. CASE Admit \/ BeginAttempt
    BY <2>2
    DEF Admit, BeginAttempt, Goto, Progress, DoneBefore, disk, Completed
  <2> QED
    BY <1>2, <2>1, <2>2
    DEF Next, LoopStep, RunStep, Goto, RunStates, Start, SkipCompleted,
        StopAtCap, Finish, AcceptResult, RecordFailure, RecordInterrupt,
        RefuseDirectory, MakeDirectory, WriteMetadata, CallModel, FlushJournal,
        RecordUsage, BeginRecovery, EndAttempts, CloseShell, WriteResult,
        UnlinkJournal, CleanupWorkspace, RunRaises, Interrupt, Crash
<1> QED
  BY <1>1, <1>2 DEF DoneBefore

\* Only Finish writes a complete ledger, and nothing undoes what it says.
LEMMA CompleteStep ==
    ASSUME TypeInv, Books, Progress, Next PROVE CompleteMeansAllDone'
<1>0. \A t \in Tasks : Completed(t) => Completed(t)'
  BY StillCompleted
<1>1. CASE Finish
  <2>1. task = N + 1 /\ N \in Nat /\ pc # "down"
    BY <1>1, BenchmarkAssumption DEF Finish, Goto, TypeInv, TypeOK, Tasks
  <2>2. \A t \in Tasks : t \in 1 .. task - 1
    BY <2>1 DEF Tasks
  <2> QED
    BY <1>0, <2>1, <2>2 DEF Progress, DoneBefore, CompleteMeansAllDone
<1>2. CASE ledger'.status = "complete" => ledger' = ledger
  BY <1>0, <1>2 DEF Progress, CompleteMeansAllDone
<1> QED
  BY <1>1, <1>2
  DEF Next, LoopStep, RunStep, WriteLedger, disk, Start, SkipCompleted,
      ArchiveEarlier, StopAtCap, Admit, BeginAttempt, AcceptResult,
      RecordFailure, ArchiveAndRetry, RecordInterrupt, RefuseDirectory,
      MakeDirectory, WriteMetadata, CallModel, FlushJournal, RecordUsage,
      BeginRecovery, EndAttempts, CloseShell, WriteResult, UnlinkJournal,
      CleanupWorkspace, RunRaises, Interrupt, Crash

\* Before the first run there is no task before the first and no ledger.
LEMMA InitProgress == Init => Progress
BY DEF Init, Progress, DoneBefore, CompleteMeansAllDone

\* Every step of Next, and stuttering, keeps the progress invariant.
LEMMA NextProgress == TypeInv /\ Books /\ Progress /\ [Next]_vars => Progress'
<1> SUFFICES ASSUME TypeInv, Books, Progress, [Next]_vars PROVE Progress'
  OBVIOUS
<1>1. CASE Next
  BY <1>1, DoneBeforeStep, CompleteStep DEF Progress
<1>2. CASE UNCHANGED vars
  BY <1>2
  DEF vars, disk, process, Progress, DoneBefore, CompleteMeansAllDone, Completed
<1> QED
  BY <1>1, <1>2

\* The loop of benchmark_command leaves completed tasks behind it: every task
\* before the one at hand has its final result, and a complete ledger is right.
THEOREM ProgressKept == Spec => []Progress
<1>1. Init /\ [][Next]_vars => []Progress
  BY InitTypeInv, NextTypeInv, InitBooks, NextBooks, InitProgress, NextProgress, PTL
<1> QED
  BY <1>1, PTL DEF Spec

\* The controller never meets an incomplete directory.
THEOREM NeverRefusesIncomplete == Spec => []StartsClean
<1>1. Progress => StartsClean
  BY DEF Progress, DoneBefore, StartsClean
<1> QED
  BY <1>1, ProgressKept, PTL

\* A ledger that says complete is right, through any crashes and restarts.
THEOREM LedgerIsRight == Spec => []CompleteMeansAllDone
<1>1. Progress => CompleteMeansAllDone
  BY DEF Progress
<1> QED
  BY <1>1, ProgressKept, PTL
=============================================================================
