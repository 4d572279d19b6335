---------------------------- MODULE SpendingProofs ----------------------------
(***************************************************************************)
(* What the benchmark command makes of the money, for every subset,        *)
(* budget, cap, number of retries and number of faults: it implements      *)
(* SpendingBooks (the initial state maps to an initial state, each step to *)
(* a step or a stutter), and bounds what the scan of the root counts.      *)
(***************************************************************************)
EXTENDS BenchmarkProofs, SequenceTheorems, FiniteSetTheorems

Books1 == [t \in Tasks |-> BooksOf(t)]
Settled1 == {t \in Tasks : Completed(t)}

\* The last book of a task is its live directory.
LEMMA LastIsLive ==
    ASSUME TypeInv, NEW t \in Tasks
    PROVE  /\ Len(Books1[t]) = Len(archived[t]) + 1
           /\ Books1[t][Len(Books1[t])] = BookOf(live[t])
<1>1. archived[t] \in Seq(Dir) /\ Len(archived[t]) \in Nat
  BY DEF TypeInv, TypeOK
<1>2. Books1[t] = BooksOf(t)
  BY DEF Books1
<1>3. Len(BooksOf(t)) = Len(archived[t]) + 1
  BY <1>1 DEF BooksOf, Directory
<1> QED
  BY <1>1, <1>2, <1>3 DEF BooksOf, Directory

\* A step that keeps the disk keeps the books.
LEMMA SameDisk ==
    ASSUME UNCHANGED <<live, archived>>
    PROVE  UNCHANGED <<Books1, Settled1>>
BY DEF Books1, Settled1, BooksOf, Directory, BookOf, Counted, Completed

\* A step that rewrites one live directory rewrites the last book of its task.
LEMMA RewriteBook ==
    ASSUME TypeInv, NEW t \in Tasks, UNCHANGED archived,
           live' \in [Tasks -> Dir], \A u \in Tasks \ {t} : live'[u] = live[u]
    PROVE  Books1' = [Books1 EXCEPT ![t][Len(Books1[t])] = BookOf(live'[t])]
<1>1. archived \in [Tasks -> Seq(Dir)] /\ Len(archived[t]) \in Nat
  BY DEF TypeInv, TypeOK
<1>2. Len(Books1[t]) = Len(archived[t]) + 1
  BY LastIsLive
<1>3. ASSUME NEW u \in Tasks \ {t} PROVE BooksOf(u)' = BooksOf(u)
  BY <1>3 DEF BooksOf, Directory, BookOf, Counted
<1>4. BooksOf(t)' = [BooksOf(t) EXCEPT ![Len(archived[t]) + 1] = BookOf(live'[t])]
  <2> DEFINE n == Len(archived[t])
             past == [i \in 1 .. n |-> BookOf(archived[t][i])]
             old == BookOf(live[t])
             new == BookOf(live'[t])
             oldBooks == [i \in 1 .. n + 1 |-> IF i <= n THEN past[i] ELSE old]
             newBooks == [i \in 1 .. n + 1 |-> IF i <= n THEN past[i] ELSE new]
  <2>1. BooksOf(t)' = newBooks
    BY <1>1 DEF BooksOf, Directory, BookOf, Counted
  <2>2. BooksOf(t) = oldBooks
    BY <1>1 DEF BooksOf, Directory, BookOf
  <2>3. n \in Nat
    BY <1>1
  <2>4. newBooks = [oldBooks EXCEPT ![n + 1] = new]
    <3> HIDE DEF n, past, old, new
    <3>1. \A i \in 1 .. n + 1 : newBooks[i] = IF i = n + 1 THEN new ELSE oldBooks[i]
      BY <2>3
    <3>2. newBooks = [i \in 1 .. n + 1 |-> newBooks[i]]
      OBVIOUS
    <3>3. newBooks = [i \in 1 .. n + 1 |-> IF i = n + 1 THEN new ELSE oldBooks[i]]
      <4> HIDE DEF newBooks, oldBooks
      <4> QED
        BY <3>1, <3>2
    <3>4. DOMAIN oldBooks = 1 .. n + 1
      OBVIOUS
    <3> HIDE DEF newBooks, oldBooks
    <3>5. [oldBooks EXCEPT ![n + 1] = new]
              = [i \in DOMAIN oldBooks |-> IF i = n + 1 THEN new ELSE oldBooks[i]]
      OBVIOUS
    <3> QED
      BY <3>3, <3>4, <3>5
  <2> QED
    BY <2>1, <2>2, <2>4
<1>5. Books1[t] = BooksOf(t)
  BY DEF Books1
<1> DEFINE b == [Books1[t] EXCEPT ![Len(Books1[t])] = BookOf(live'[t])]
<1>6. Books1' = [u \in Tasks |-> BooksOf(u)']
  BY DEF Books1
<1>7. \A u \in Tasks : BooksOf(u)' = IF u = t THEN b ELSE Books1[u]
  BY <1>2, <1>3, <1>4, <1>5 DEF Books1
<1> HIDE DEF b
<1>8. Books1' = [u \in Tasks |-> IF u = t THEN b ELSE Books1[u]]
  BY <1>6, <1>7
<1>9. Books1 = [u \in Tasks |-> Books1[u]]
  BY DEF Books1
<1>10. Books1' = [Books1 EXCEPT ![t] = b]
  BY <1>8, <1>9
<1> QED
  BY <1>10 DEF b

\* Archiving turns over a book, or leaves an empty one in use.
LEMMA ArchiveTurnsOver ==
    ASSUME TypeInv, Books, NEW t \in Tasks, ArchivePartial(t)
    PROVE  /\ UNCHANGED Settled1
           /\ \/ UNCHANGED Books1
              \/ ~Completed(t) /\ Books1' = [Books1 EXCEPT ![t] = Append(@, Spending!Blank)]
<1>1. /\ archived \in [Tasks -> Seq(Dir)] /\ live \in [Tasks -> Dir]
      /\ Len(archived[t]) \in Nat /\ live[t] \in Dir
  BY DEF TypeInv, TypeOK
<1>2. BookOf(Absent) = Spending!Blank /\ Absent.result = NoFile
  BY BenchmarkAssumption DEF BookOf, Absent, Counted, Spending!Blank
<1>3. CASE UNCHANGED <<live, archived>>
  BY <1>3, SameDisk
<1>4. CASE live[t].content = "empty" /\ ~Completed(t)
           /\ live' = [live EXCEPT ![t] = Absent] /\ UNCHANGED archived
  <2>1. BookOf(live[t]) = BookOf(Absent)
    BY <1>2, <1>4 DEF Books, Plain, BookOf, Counted, Spending!Blank
  <2>2. BooksOf(t)' = BooksOf(t)
    BY <1>1, <1>4, <2>1 DEF BooksOf, Directory, BookOf, Counted
  <2>3. \A u \in Tasks \ {t} : live'[u] = live[u] /\ BooksOf(u)' = BooksOf(u)
    BY <1>1, <1>4 DEF BooksOf, Directory, BookOf, Counted
  <2>4. UNCHANGED Books1
    BY <2>2, <2>3 DEF Books1
  <2>5. UNCHANGED Settled1
    BY <1>1, <1>2, <1>4, <2>3 DEF Settled1, Completed
  <2> QED
    BY <2>4, <2>5
<1>5. CASE /\ ~Completed(t)
           /\ archived' = [archived EXCEPT ![t] = Append(@, live[t])]
           /\ live' = [live EXCEPT ![t] = Absent]
  <2>1. /\ archived'[t] = Append(archived[t], live[t]) /\ live'[t] = Absent
        /\ \A u \in Tasks \ {t} : live'[u] = live[u] /\ archived'[u] = archived[u]
    BY <1>1, <1>5
  <2>2. ASSUME NEW u \in Tasks \ {t} PROVE BooksOf(u)' = BooksOf(u)
    BY <2>1 DEF BooksOf, Directory, BookOf, Counted
  <2>3. BooksOf(t)' = Append(BooksOf(t), Spending!Blank)
    <3>1. /\ Len(archived'[t]) = Len(archived[t]) + 1
          /\ \A i \in 1 .. Len(archived[t]) + 1 :
                archived'[t][i] = IF i <= Len(archived[t]) THEN archived[t][i] ELSE live[t]
      BY <1>1, <2>1
    <3>2. BooksOf(t)' = [i \in 1 .. Len(archived[t]) + 2 |->
                            IF i <= Len(archived[t]) + 1 THEN BookOf(archived'[t][i])
                            ELSE BookOf(Absent)]
      BY <1>1, <2>1, <3>1 DEF BooksOf, Directory, BookOf, Counted
    <3>3. BooksOf(t)' = [i \in 1 .. Len(archived[t]) + 2 |->
                            IF i <= Len(archived[t]) + 1 THEN BooksOf(t)[i]
                            ELSE Spending!Blank]
      BY <1>1, <1>2, <3>1, <3>2 DEF BooksOf, Directory
    <3>4. Len(BooksOf(t)) = Len(archived[t]) + 1
      BY <1>1 DEF BooksOf, Directory
    <3>5. BooksOf(t) \in Seq({BookOf(d) : d \in Dir})
      BY <1>1 DEF BooksOf, Directory
    <3> DEFINE S == {BookOf(d) : d \in Dir} \cup {Spending!Blank}
               new == Append(BooksOf(t), Spending!Blank)
    <3>6. /\ new \in Seq(S) /\ Len(new) = Len(archived[t]) + 2
          /\ \A i \in 1 .. Len(archived[t]) + 1 : new[i] = BooksOf(t)[i]
          /\ new[Len(archived[t]) + 2] = Spending!Blank
      <4>1. BooksOf(t) \in Seq(S) /\ Spending!Blank \in S
        BY <3>5
      <4> HIDE DEF S
      <4> QED
        BY <1>1, <3>4, <4>1, AppendProperties
    <3>7. BooksOf(t)' \in Seq(S) /\ Len(BooksOf(t)') = Len(archived[t]) + 2
      BY <1>1, <3>3, <3>4, <3>5
    <3>8. \A i \in 1 .. Len(archived[t]) + 2 : BooksOf(t)'[i] = new[i]
      BY <1>1, <3>3, <3>6
    <3> HIDE DEF S, new
    <3>9. BooksOf(t)' = new
      BY <3>6, <3>7, <3>8, SeqEqual
    <3> QED
      BY <3>9 DEF new
  <2>4. Books1' = [Books1 EXCEPT ![t] = Append(@, Spending!Blank)]
    BY <2>2, <2>3 DEF Books1
  <2>5. UNCHANGED Settled1
    BY <1>1, <1>2, <1>5, <2>1 DEF Settled1, Completed
  <2> QED
    BY <1>5, <2>4, <2>5
<1> QED
  BY <1>3, <1>4, <1>5 DEF ArchivePartial

-----------------------------------------------------------------------------
(* The steps of SpendingBooks, in terms of the disk.                       *)

Charge1(t) ==
    /\ t \notin Settled1 /\ BookOf(live[t]).behind < 1
    /\ \E cost \in 1 .. MaxCallCost :
           BookOf(live'[t]) = [charged |-> BookOf(live[t]).charged + cost,
                               shown |-> BookOf(live[t]).shown,
                               behind |-> BookOf(live[t]).behind + 1]

Show1(t) ==
    /\ t \notin Settled1
    /\ BookOf(live'[t]) = [charged |-> BookOf(live[t]).charged,
                           shown |-> BookOf(live[t]).charged, behind |-> 0]

\* Rewriting a live directory as a charge, or a catching up, of its book is a
\* step of SpendingBooks.
LEMMA RewriteMaps ==
    ASSUME TypeInv, NEW t \in Tasks, UNCHANGED <<archived, Settled1>>,
           live' \in [Tasks -> Dir], \A u \in Tasks \ {t} : live'[u] = live[u],
           Charge1(t) \/ Show1(t)
    PROVE  Spending!Next
<1>1. Books1' = [Books1 EXCEPT ![t][Len(Books1[t])] = BookOf(live'[t])]
  BY RewriteBook
<1>2. Spending!Current(t) = BookOf(live[t])
  BY LastIsLive DEF Spending!Current, Books1
<1>3. \A c, s, b : BookOf(live'[t]) = [charged |-> c, shown |-> s, behind |-> b]
                      => Spending!Rewrite(t, c, s, b)
  BY <1>1 DEF Spending!Rewrite, Books1
<1>4. CASE Charge1(t)
  <2>1. Spending!Charge(t)
    BY <1>2, <1>3, <1>4 DEF Spending!Charge, Charge1, Settled1
  <2> QED
    BY <2>1 DEF Spending!Next
<1>5. CASE Show1(t)
  <2>1. Spending!Show(t)
    BY <1>2, <1>3, <1>5 DEF Spending!Show, Show1, Settled1
  <2> QED
    BY <2>1 DEF Spending!Next
<1> QED
  BY <1>4, <1>5

\* The first books are blank.
LEMMA InitMaps == Init => Spending!Init
<1> SUFFICES ASSUME Init PROVE Spending!Init
  OBVIOUS
<1>1. \A t \in Tasks : BooksOf(t) = <<Spending!Blank>>
  <2> SUFFICES ASSUME NEW t \in Tasks PROVE BooksOf(t) = <<Spending!Blank>>
    OBVIOUS
  <2>1. archived[t] = <<>> /\ live[t] = Absent
    BY DEF Init
  <2>2. BookOf(Absent) = Spending!Blank
    BY BenchmarkAssumption DEF BookOf, Absent, Counted, Spending!Blank
  <2>3. BooksOf(t) = [i \in 1 .. 1 |-> Spending!Blank]
    BY <2>1, <2>2 DEF BooksOf, Directory
  <2> QED
    BY <2>3
<1>2. {t \in Tasks : Completed(t)} = {}
  BY DEF Init, Completed, Absent
<1> QED
  BY <1>1, <1>2 DEF Spending!Init

\* The steps that write money into a directory.
LEMMA PaidStepMaps ==
    ASSUME TypeInv, TypeInv', Books, CallModel \/ FlushJournal
    PROVE  Spending!Next
<1>1. /\ task \in Tasks /\ live \in [Tasks -> Dir] /\ live[task] \in Dir
      /\ live' \in [Tasks -> Dir] /\ spent \in Nat /\ inflight \in Nat
  BY DEF TypeInv, TypeOK, OnTask, Goto, CallModel, FlushJournal
<1>2. AtTask /\ live[task].billed \in Nat
  BY <1>1 DEF Books, Dir
<1>3. /\ UNCHANGED archived /\ \A u \in Tasks \ {task} : live'[u] = live[u]
      /\ live'[task].result = live[task].result
  BY <1>1 DEF CallModel, FlushJournal, Dir
<1>4. UNCHANGED Settled1 /\ task \notin Settled1
  BY <1>1, <1>2, <1>3
  DEF Settled1, Completed, AtTask, Goto, CallModel, FlushJournal
<1>5. CASE CallModel
  <2>1. PICK c \in 1 .. MaxCallCost : live' = [live EXCEPT ![task].billed = @ + c]
    BY <1>5 DEF CallModel
  <2>2. live'[task] = [live[task] EXCEPT !.billed = @ + c]
    BY <1>1, <2>1
  <2>3. live[task].billed = Counted(live[task]) /\ Counted(live[task]) \in Nat
    BY <1>1, <1>2, <1>5 DEF AtTask, CallModel, Goto
  <2>4. /\ live'[task].billed = live[task].billed + c
        /\ Counted(live'[task]) = Counted(live[task])
    BY <1>1, <2>2 DEF Dir, Counted
  <2>5. c \in Nat /\ c > 0
    BY <2>1, BenchmarkAssumption
  <2> DEFINE b == live[task].billed
  <2>6. b \in Nat /\ b + c # b
    BY <1>2, <2>5
  <2>7. BookOf(live[task]) = [charged |-> b, shown |-> b, behind |-> 0]
    BY <2>3 DEF BookOf
  <2>8. BookOf(live'[task]) = [charged |-> b + c, shown |-> b, behind |-> 1]
    <3>1. live'[task].billed = b + c /\ Counted(live'[task]) = b
      BY <2>3, <2>4
    <3> QED
      BY <2>6, <3>1 DEF BookOf
  <2>9. Charge1(task)
    <3> HIDE DEF b
    <3>1. BookOf(live[task]).behind < 1
      BY <2>7
    <3>2. BookOf(live'[task]) = [charged |-> BookOf(live[task]).charged + c,
                                 shown |-> BookOf(live[task]).shown,
                                 behind |-> BookOf(live[task]).behind + 1]
      BY <2>7, <2>8
    <3> QED
      BY <1>4, <2>1, <3>1, <3>2 DEF Charge1
  <2> QED
    BY <1>1, <1>3, <1>4, <2>9, RewriteMaps
<1>6. CASE FlushJournal
  <2>1. live'[task] = [live[task] EXCEPT !.journal = spent + inflight]
    BY <1>1, <1>6 DEF FlushJournal
  <2>2. /\ live'[task].billed = live[task].billed
        /\ Counted(live'[task]) = live[task].billed
    BY <1>1, <1>2, <1>6, <2>1, BenchmarkAssumption
    DEF Dir, Counted, AtTask, FlushJournal, Goto
  <2> DEFINE b == live[task].billed
  <2>3. BookOf(live'[task]) = [charged |-> b, shown |-> b, behind |-> 0]
    BY <2>2 DEF BookOf
  <2>4. BookOf(live[task]).charged = b
    BY DEF BookOf
  <2>5. Show1(task)
    BY <1>4, <2>3, <2>4 DEF Show1
  <2> QED
    BY <1>1, <1>3, <1>4, <2>5, RewriteMaps
<1> QED
  BY <1>5, <1>6

\* The steps that rewrite a directory without changing what it shows.
LEMMA FreeStepMaps ==
    ASSUME TypeInv, TypeInv', Books,
           MakeDirectory \/ WriteMetadata \/ WriteResult \/ UnlinkJournal
    PROVE  Spending!Next \/ UNCHANGED <<Books1, Settled1>>
<1>1. /\ task \in Tasks /\ live \in [Tasks -> Dir] /\ live[task] \in Dir
      /\ live' \in [Tasks -> Dir] /\ spent \in Nat
      /\ archived \in [Tasks -> Seq(Dir)]
  BY DEF TypeInv, TypeOK, OnTask, Goto, MakeDirectory, WriteMetadata, WriteResult,
         UnlinkJournal
<1>2. AtTask
  BY DEF Books
<1>3. UNCHANGED archived /\ \A u \in Tasks \ {task} : live'[u] = live[u]
  BY <1>1 DEF MakeDirectory, WriteMetadata, WriteResult, UnlinkJournal
<1>4. \/ live'[task] = [live[task] EXCEPT !.content = "empty"]
      \/ live'[task] = [live[task] EXCEPT !.content = "files"]
      \/ live'[task] = [live[task] EXCEPT !.result = spent] /\ WriteResult
      \/ live'[task] = [live[task] EXCEPT !.journal = NoFile] /\ UnlinkJournal
  BY <1>1 DEF MakeDirectory, WriteMetadata, WriteResult, UnlinkJournal
<1>5. BookOf(live'[task]) = BookOf(live[task])
  <2>1. live'[task].billed = live[task].billed
    BY <1>1, <1>4 DEF Dir
  <2>2. Counted(live'[task]) = Counted(live[task])
    <3>1. CASE live'[task] = [live[task] EXCEPT !.result = spent] /\ WriteResult
      <4>1. Counted(live[task]) = spent /\ spent # NoFile
        BY <1>1, <1>2, <3>1, BenchmarkAssumption DEF AtTask, WriteResult, Goto
      <4>2. live'[task].result = spent
        BY <1>1, <3>1 DEF Dir
      <4> QED
        BY <4>1, <4>2 DEF Counted
    <3>2. CASE live'[task] = [live[task] EXCEPT !.journal = NoFile] /\ UnlinkJournal
      <4>1. live[task].result # NoFile
        BY <1>2, <3>2 DEF AtTask, Completed, UnlinkJournal, Goto
      <4>2. live'[task].result = live[task].result
        BY <1>1, <3>2 DEF Dir
      <4> QED
        BY <4>1, <4>2 DEF Counted
    <3>3. CASE \/ live'[task] = [live[task] EXCEPT !.content = "empty"]
               \/ live'[task] = [live[task] EXCEPT !.content = "files"]
      BY <1>1, <3>3 DEF Counted, Dir
    <3> QED
      BY <1>4, <3>1, <3>2, <3>3
  <2> QED
    BY <2>1, <2>2 DEF BookOf
<1>6. UNCHANGED Books1
  <2>1. \A u \in Tasks : BookOf(live'[u]) = BookOf(live[u])
    BY <1>3, <1>5
  <2>2. \A u \in Tasks : BooksOf(u)' = BooksOf(u)
    BY <1>3, <2>1 DEF BooksOf, Directory, BookOf, Counted
  <2> QED
    BY <2>2 DEF Books1
<1>7. CASE WriteResult
  <2>1. Settled1' = Settled1 \cup {task} /\ task \notin Settled1
    BY <1>1, <1>2, <1>3, <1>7, BenchmarkAssumption
    DEF Settled1, Completed, WriteResult, AtTask, Goto, Dir
  <2>2. Spending!Settle(task)
    BY <1>6, <2>1 DEF Spending!Settle, Books1, Settled1
  <2> QED
    BY <1>1, <2>2 DEF Spending!Next
<1>8. CASE ~WriteResult
  <2>1. live'[task].result = live[task].result
    BY <1>1, <1>4, <1>8 DEF Dir
  <2>2. UNCHANGED Settled1
    BY <1>3, <2>1 DEF Settled1, Completed
  <2> QED
    BY <1>6, <2>2
<1> QED
  BY <1>7, <1>8

\* Every step of the command is a step of SpendingBooks or changes no book.
LEMMA StepMaps ==
    TypeInv /\ TypeInv' /\ Books /\ [Next]_vars
        => [Spending!Next]_<<Books1, Settled1>>
<1> SUFFICES ASSUME TypeInv, TypeInv', Books, [Next]_vars
             PROVE  Spending!Next \/ UNCHANGED <<Books1, Settled1>>
  OBVIOUS
<1>1. CASE UNCHANGED <<live, archived>>
  BY <1>1, SameDisk
<1>2. CASE CallModel \/ FlushJournal
  BY <1>2, PaidStepMaps
<1>3. CASE MakeDirectory \/ WriteMetadata \/ WriteResult \/ UnlinkJournal
  BY <1>3, FreeStepMaps
<1>4. CASE ArchiveEarlier \/ ArchiveAndRetry
  <2>1. task \in Tasks /\ ArchivePartial(task)
    BY <1>4 DEF ArchiveEarlier, ArchiveAndRetry, Goto, TypeInv, OnTask
  <2>2. CASE UNCHANGED Books1
    BY <2>1, <2>2, ArchiveTurnsOver
  <2>3. CASE ~UNCHANGED Books1
    <3>1. /\ UNCHANGED Settled1 /\ ~Completed(task)
          /\ Books1' = [Books1 EXCEPT ![task] = Append(@, Spending!Blank)]
      BY <2>1, <2>3, ArchiveTurnsOver
    <3>2. Spending!TurnOver(task)
      BY <3>1 DEF Spending!TurnOver, Books1, Settled1
    <3> QED
      BY <2>1, <3>2 DEF Spending!Next
  <2> QED
    BY <2>2, <2>3
<1> QED
  BY <1>1, <1>2, <1>3, <1>4
  DEF Next, LoopStep, RunStep, vars, disk, Start, SkipCompleted, StopAtCap, Admit,
      BeginAttempt, Finish, AcceptResult, RecordFailure, RecordInterrupt,
      RefuseDirectory, RecordUsage, BeginRecovery, EndAttempts, CloseShell,
      CleanupWorkspace, RunRaises, Interrupt, Crash

\* The results root keeps its books through every crash, retry and restart:
\* benchmark_command with the controllers it runs implements SpendingBooks.
THEOREM BooksImplemented == Spec => KeepsTheBooks
<1>1. TypeInv /\ TypeInv' /\ Books /\ [Next]_vars
          => [Spending!Next]_<<[t \in Tasks |-> BooksOf(t)], {t \in Tasks : Completed(t)}>>
  BY StepMaps DEF Books1, Settled1
<1> QED
  BY <1>1, InitMaps, TypeCorrect, BooksKept, PTL DEF Spec, KeepsTheBooks, Spending!Spec

-----------------------------------------------------------------------------
(* What the scan counts.  The live directory of the task at hand has the   *)
(* latest tokens; everything else that is counted was there before it.     *)

Latest == {task} \X ({Len(archived[task]) + 1} \X (1 .. Counted(live[task])))
Earlier == Tokens \ Latest

\* A finite family of finite sets has a finite union.
LEMMA FiniteFamily ==
    ASSUME NEW I, IsFiniteSet(I), NEW f, \A i \in I : IsFiniteSet(f[i])
    PROVE  IsFiniteSet(UNION {f[i] : i \in I})
<1> DEFINE T == {f[i] : i \in I}
           g == [i \in I |-> f[i]]
<1>1. g \in Surjection(I, T)
  BY DEF Surjection
<1>2. IsFiniteSet(T)
  BY <1>1, FS_Surjection
<1> QED
  BY <1>2, FS_UNION

\* A product with a singleton is finite and as large as the other factor.
LEMMA TaggedSet ==
    ASSUME NEW x, NEW S, IsFiniteSet(S)
    PROVE  IsFiniteSet({x} \X S) /\ Cardinality({x} \X S) = Cardinality(S)
<1>1. IsFiniteSet({x}) /\ Cardinality({x}) = 1
  BY FS_Singleton
<1>2. Cardinality({x} \X S) = 1 * Cardinality(S) /\ IsFiniteSet({x} \X S)
  BY <1>1, FS_Product
<1> QED
  BY <1>2, FS_CardinalityType

\* What a directory shows is a number of tokens.
LEMMA CountedIsNat == ASSUME NEW d \in Dir PROVE Counted(d) \in Nat
BY DEF Dir, Counted

\* Every numbered directory of a task is a directory.
LEMMA DirectoryType ==
    ASSUME TypeInv, NEW t \in Tasks, NEW i \in 1 .. Len(archived[t]) + 1
    PROVE  Directory(t, i) \in Dir
<1>1. archived[t] \in Seq(Dir) /\ live[t] \in Dir
  BY DEF TypeInv, TypeOK
<1> QED
  BY <1>1 DEF Directory

\* A scan of the root comes to a number.
LEMMA TokensFinite == ASSUME TypeInv PROVE IsFiniteSet(Tokens)
<1>1. ASSUME NEW t \in Tasks PROVE IsFiniteSet(TokensOf(t))
  <2> DEFINE I == 1 .. Len(archived[t]) + 1
             f == [i \in I |-> {i} \X (1 .. Counted(Directory(t, i)))]
  <2>1. IsFiniteSet(I)
    <3>1. Len(archived[t]) + 1 \in Int
      BY DEF TypeInv, TypeOK
    <3> QED
      BY <3>1, FS_Interval
  <2>2. ASSUME NEW i \in I PROVE IsFiniteSet(f[i])
    <3>1. Counted(Directory(t, i)) \in Nat
      BY DirectoryType, CountedIsNat
    <3>2. IsFiniteSet(1 .. Counted(Directory(t, i)))
      BY <3>1, FS_Interval
    <3> QED
      BY <3>2, TaggedSet
  <2>3. IsFiniteSet(UNION {f[i] : i \in I})
    <3> HIDE DEF f, I
    <3> QED
      BY <2>1, <2>2, FiniteFamily
  <2>4. UNION {f[i] : i \in I} = TokensOf(t)
    BY DEF TokensOf
  <2> QED
    BY <2>3, <2>4
<1> DEFINE f == [t \in Tasks |-> {t} \X TokensOf(t)]
<1>2. IsFiniteSet(Tasks)
  BY BenchmarkAssumption, FS_Interval DEF Tasks
<1>3. \A t \in Tasks : IsFiniteSet(f[t])
  BY <1>1, TaggedSet
<1>4. IsFiniteSet(UNION {f[t] : t \in Tasks})
  <2> HIDE DEF f
  <2> QED
    BY <1>2, <1>3, FiniteFamily
<1>5. UNION {f[t] : t \in Tasks} = Tokens
  BY DEF Tokens
<1> QED
  BY <1>4, <1>5

\* What is counted is what was counted before and what the live directory of
\* the task at hand shows.
LEMMA ConsumedParts ==
    TypeInv /\ task \in Tasks =>
        /\ Cardinality(Earlier) \in Nat /\ Counted(live[task]) \in Nat
        /\ Consumed = Cardinality(Earlier) + Counted(live[task])
<1> SUFFICES ASSUME TypeInv, task \in Tasks
             PROVE  /\ Cardinality(Earlier) \in Nat /\ Counted(live[task]) \in Nat
                    /\ Consumed = Cardinality(Earlier) + Counted(live[task])
  OBVIOUS
<1> DEFINE n == Len(archived[task]) + 1
           c == Counted(live[task])
<1>1. live[task] \in Dir /\ Len(archived[task]) \in Nat /\ c \in Nat
  BY CountedIsNat DEF TypeInv, TypeOK
<1>2. IsFiniteSet(Latest) /\ Cardinality(Latest) = c
  <2>1. IsFiniteSet(1 .. c) /\ Cardinality(1 .. c) = c
    BY <1>1, FS_Interval
  <2>2. IsFiniteSet({n} \X (1 .. c)) /\ Cardinality({n} \X (1 .. c)) = c
    BY <2>1, TaggedSet
  <2> QED
    BY <2>2, TaggedSet DEF Latest
<1>3. Latest \subseteq Tokens
  <2>1. \A k \in 1 .. c : <<task, <<n, k>>>> \in Tokens
    BY <1>1 DEF Tokens, TokensOf, Directory
  <2> QED
    BY <2>1 DEF Latest
<1>4. Tokens \cap Latest = Latest
  BY <1>3
<1>5. Cardinality(Earlier) = Consumed - c /\ IsFiniteSet(Earlier)
  <2>1. /\ IsFiniteSet(Tokens \ Latest)
        /\ Cardinality(Tokens \ Latest)
               = Cardinality(Tokens) - Cardinality(Tokens \cap Latest)
    BY TokensFinite, FS_Difference
  <2> QED
    BY <1>2, <1>4, <2>1 DEF Earlier, Consumed
<1>6. Consumed \in Nat /\ Cardinality(Earlier) \in Nat
  BY <1>5, TokensFinite, FS_CardinalityType DEF Consumed
<1> QED
  BY <1>1, <1>5, <1>6

\* Earlier tokens are those of every other directory.
LEMMA EarlierAre ==
    ASSUME TypeInv, task \in Tasks
    PROVE  \A x : x \in Earlier <=>
               \E t \in Tasks : \E i \in 1 .. Len(archived[t]) + 1 :
                   /\ <<t, i>> # <<task, Len(archived[task]) + 1>>
                   /\ \E k \in 1 .. Counted(Directory(t, i)) : x = <<t, <<i, k>>>>
<1>1. Len(archived[task]) \in Nat
  BY DEF TypeInv, TypeOK
<1>2. Directory(task, Len(archived[task]) + 1) = live[task]
  BY <1>1 DEF Directory
<1> QED
  BY <1>1, <1>2 DEF Earlier, Latest, Tokens, TokensOf

\* A step that only rewrites the live directory of the task at hand leaves what
\* was counted before alone.
LEMMA EarlierSame ==
    ASSUME TypeInv, TypeInv', task \in Tasks, UNCHANGED <<archived, task>>,
           \A u \in Tasks \ {task} : live'[u] = live[u]
    PROVE  Earlier' = Earlier
<1>1. \A t \in Tasks : Len(archived[t]) \in Nat
  BY DEF TypeInv, TypeOK
<1>2. ASSUME NEW t \in Tasks, NEW i \in 1 .. Len(archived[t]) + 1,
             <<t, i>> # <<task, Len(archived[task]) + 1>>
      PROVE  Directory(t, i)' = Directory(t, i)
  BY <1>1, <1>2 DEF Directory
<1>3. \A t \in Tasks : \A i \in 1 .. Len(archived[t]) + 1 :
          <<t, i>> # <<task, Len(archived[task]) + 1>>
              => Counted(Directory(t, i))' = Counted(Directory(t, i))
  BY <1>2 DEF Counted
<1>4. Directory(task, Len(archived[task]) + 1)' = live'[task]
  BY <1>1 DEF Directory
<1>5. \A x : x \in Earlier' <=>
          \E t \in Tasks : \E i \in 1 .. Len(archived[t]) + 1 :
              /\ <<t, i>> # <<task, Len(archived[task]) + 1>>
              /\ \E k \in 1 .. Counted(Directory(t, i))' : x = <<t, <<i, k>>>>
  BY <1>1, <1>4 DEF Earlier, Latest, Tokens, TokensOf
<1> QED
  BY <1>3, <1>5, EarlierAre

\* Archiving renames tokens' directories, but keeps their number and order: the
\* scan counts the same tokens.
LEMMA ArchiveKeepsTokens ==
    ASSUME TypeInv, TypeInv', Books, task \in Tasks, UNCHANGED task,
           ArchivePartial(task)
    PROVE  Tokens' = Tokens
<1>1. /\ archived \in [Tasks -> Seq(Dir)] /\ live \in [Tasks -> Dir]
      /\ live[task] \in Dir /\ Len(archived[task]) \in Nat
  BY DEF TypeInv, TypeOK
<1>2. Counted(Absent) = 0
  BY BenchmarkAssumption DEF Absent, Counted
<1>3. CASE UNCHANGED <<live, archived>>
  BY <1>3 DEF Tokens, TokensOf, Directory, Counted
<1>4. CASE live[task].content = "empty" /\ UNCHANGED archived
           /\ live' = [live EXCEPT ![task] = Absent]
  <2>1. Counted(live[task]) = 0 /\ live'[task] = Absent
    BY <1>1, <1>4 DEF Books, Plain, Counted
  <2>2. \A t \in Tasks : Counted(live[t])' = Counted(live[t])
    BY <1>1, <1>2, <1>4, <2>1 DEF Counted
  <2>3. \A t \in Tasks : \A i \in 1 .. Len(archived[t]) + 1 :
            Counted(Directory(t, i))' = Counted(Directory(t, i))
    BY <1>4, <2>2 DEF Directory, Counted
  <2> QED
    BY <1>4, <2>3 DEF Tokens, TokensOf
<1>5. CASE /\ archived' = [archived EXCEPT ![task] = Append(@, live[task])]
           /\ live' = [live EXCEPT ![task] = Absent]
  <2> DEFINE n == Len(archived[task])
  <2>1. /\ archived'[task] = Append(archived[task], live[task])
        /\ live'[task] = Absent
        /\ \A t \in Tasks \ {task} : live'[t] = live[t] /\ archived'[t] = archived[t]
    BY <1>1, <1>5
  <2>2. /\ Len(archived'[task]) = n + 1
        /\ \A i \in 1 .. n + 1 :
              archived'[task][i] = IF i <= n THEN archived[task][i] ELSE live[task]
    BY <1>1, <2>1
  <2>3. \A i \in 1 .. n + 1 : Directory(task, i)' = Directory(task, i)
    BY <1>1, <2>2 DEF Directory
  <2>4. \A i \in {n + 2} : Directory(task, i)' = Absent
    BY <1>1, <2>1, <2>2 DEF Directory
  <2>5. TokensOf(task)' = TokensOf(task)
    <3>1. /\ \A i \in 1 .. n + 1 : Counted(Directory(task, i))' = Counted(Directory(task, i))
          /\ \A i \in {n + 2} : Counted(Directory(task, i))' = 0
      BY <1>2, <2>3, <2>4 DEF Counted
    <3>2. \A x : x \in TokensOf(task)' <=>
              \E i \in 1 .. n + 2 : x \in {i} \X (1 .. Counted(Directory(task, i))')
      BY <1>1, <2>2 DEF TokensOf
    <3>3. \A x : x \in TokensOf(task) <=>
              \E i \in 1 .. n + 1 : x \in {i} \X (1 .. Counted(Directory(task, i)))
      BY DEF TokensOf
    <3>4. \A i : i \in 1 .. n + 2 <=> i \in 1 .. n + 1 \/ i = n + 2
      BY <1>1
    <3>5. \A i \in {n + 2} : {i} \X (1 .. Counted(Directory(task, i))') = {}
      BY <3>1
    <3>6. \A i \in 1 .. n + 1 : {i} \X (1 .. Counted(Directory(task, i))')
                                  = {i} \X (1 .. Counted(Directory(task, i)))
      BY <3>1
    <3> HIDE DEF n
    <3>7. ASSUME NEW x, x \in TokensOf(task)' PROVE x \in TokensOf(task)
      <4>1. PICK i \in 1 .. n + 2 : x \in {i} \X (1 .. Counted(Directory(task, i))')
        BY <3>2, <3>7
      <4>2. i \in 1 .. n + 1
        BY <3>4, <3>5, <4>1
      <4> QED
        BY <3>3, <3>6, <4>1, <4>2
    <3>8. ASSUME NEW x, x \in TokensOf(task) PROVE x \in TokensOf(task)'
      <4>1. PICK i \in 1 .. n + 1 : x \in {i} \X (1 .. Counted(Directory(task, i)))
        BY <3>3, <3>8
      <4>2. x \in {i} \X (1 .. Counted(Directory(task, i))') /\ i \in 1 .. n + 2
        BY <3>4, <3>6, <4>1
      <4> QED
        BY <3>2, <4>2
    <3> QED
      BY <3>7, <3>8
  <2>6. \A t \in Tasks \ {task} : TokensOf(t)' = TokensOf(t)
    BY <2>1 DEF TokensOf, Directory, Counted
  <2> QED
    BY <2>5, <2>6 DEF Tokens
<1> QED
  BY <1>3, <1>4, <1>5 DEF ArchivePartial

\* What a step that writes into the live directory makes it show: more only
\* when the journal is rewritten.
LEMMA WritingShows ==
    ASSUME TypeInv, TypeInv', Books,
           MakeDirectory \/ WriteMetadata \/ CallModel \/ FlushJournal
           \/ WriteResult \/ UnlinkJournal
    PROVE  /\ task \in Tasks /\ UNCHANGED <<archived, task, attempt>>
           /\ \A u \in Tasks \ {task} : live'[u] = live[u]
           /\ Counted(live[task])' =
                 IF pc = "flush" THEN spent + inflight ELSE Counted(live[task])
           /\ pc = "flush" => Counted(live[task]) = spent
           /\ Completed(task) => Completed(task)'
<1>1. /\ task \in Tasks /\ live \in [Tasks -> Dir] /\ live[task] \in Dir
      /\ spent \in Nat /\ inflight \in Nat /\ AtTask
  BY DEF TypeInv, TypeOK, OnTask, Books, Goto, MakeDirectory, WriteMetadata,
         CallModel, FlushJournal, WriteResult, UnlinkJournal
<1>2. /\ UNCHANGED <<archived, task, attempt>>
      /\ \A u \in Tasks \ {task} : live'[u] = live[u]
  BY <1>1 DEF controller, MakeDirectory, WriteMetadata, CallModel, FlushJournal,
              WriteResult, UnlinkJournal
<1> USE BenchmarkAssumption DEF Counted, Completed, AtTask, Goto, Dir
<1>3. CASE MakeDirectory
  BY <1>1, <1>2, <1>3 DEF MakeDirectory
<1>4. CASE WriteMetadata
  BY <1>1, <1>2, <1>4 DEF WriteMetadata
<1>5. CASE CallModel
  <2>1. PICK c \in 1 .. MaxCallCost : live' = [live EXCEPT ![task].billed = @ + c]
    BY <1>5 DEF CallModel
  <2> QED
    BY <1>1, <1>2, <1>5, <2>1 DEF CallModel
<1>6. CASE FlushJournal
  BY <1>1, <1>2, <1>6 DEF FlushJournal
<1>7. CASE WriteResult
  BY <1>1, <1>2, <1>7 DEF WriteResult
<1>8. CASE UnlinkJournal
  BY <1>1, <1>2, <1>8 DEF UnlinkJournal
<1> QED
  BY <1>3, <1>4, <1>5, <1>6, <1>7, <1>8

\* What a step leaves the scan to count is no less than before.
LEMMA StepKeepsConsumption ==
    ASSUME TypeInv, TypeInv', Books, [Next]_vars
    PROVE  Consumed' >= Consumed
<1>1. Consumed \in Int /\ (Tokens' = Tokens => Consumed' >= Consumed)
  <2>1. Consumed \in Nat
    BY TokensFinite, FS_CardinalityType DEF Consumed
  <2> QED
    BY <2>1 DEF Consumed
<1>2. CASE UNCHANGED <<live, archived>>
  BY <1>1, <1>2 DEF Tokens, TokensOf, Directory, Counted
<1>3. CASE ArchiveEarlier \/ ArchiveAndRetry
  <2>1. task \in Tasks /\ UNCHANGED task /\ ArchivePartial(task)
    BY <1>3 DEF ArchiveEarlier, ArchiveAndRetry, Goto, TypeInv, OnTask
  <2> QED
    BY <1>1, <2>1, ArchiveKeepsTokens
<1>4. CASE MakeDirectory \/ WriteMetadata \/ CallModel \/ FlushJournal
           \/ WriteResult \/ UnlinkJournal
  <2>1. /\ task \in Tasks /\ UNCHANGED <<archived, task>>
        /\ \A u \in Tasks \ {task} : live'[u] = live[u]
        /\ Counted(live[task])' =
              IF pc = "flush" THEN spent + inflight ELSE Counted(live[task])
        /\ pc = "flush" => Counted(live[task]) = spent
        /\ spent \in Nat /\ inflight \in Nat
    BY <1>4, WritingShows DEF TypeInv, TypeOK
  <2>2. Earlier' = Earlier
    BY <2>1, EarlierSame
  <2>3. /\ Cardinality(Earlier) \in Nat /\ Counted(live[task]) \in Nat
        /\ Consumed = Cardinality(Earlier) + Counted(live[task])
    BY <2>1, ConsumedParts
  <2>4. (TypeInv /\ task \in Tasks)' => Consumed' = Cardinality(Earlier)' + Counted(live[task])'
    <3>1. (TypeInv /\ task \in Tasks)' =>
              (/\ Cardinality(Earlier) \in Nat /\ Counted(live[task]) \in Nat
               /\ Consumed = Cardinality(Earlier) + Counted(live[task]))'
      BY ConsumedParts, PTL
    <3> QED
      BY <3>1
  <2>5. Consumed' = Cardinality(Earlier) + Counted(live[task])'
    BY <2>1, <2>2, <2>4 DEF Tasks
  <2>6. Counted(live[task])' >= Counted(live[task]) /\ Counted(live[task])' \in Nat
    BY <2>1, <2>3
  <2> QED
    BY <2>3, <2>5, <2>6
<1> QED
  BY <1>2, <1>3, <1>4
  DEF Next, LoopStep, RunStep, vars, disk, Start, SkipCompleted, StopAtCap, Admit,
      BeginAttempt, Finish, AcceptResult, RecordFailure, RecordInterrupt,
      RefuseDirectory, RecordUsage, BeginRecovery, EndAttempts, CloseShell,
      CleanupWorkspace, RunRaises, Interrupt, Crash

\* Neither archiving, nor replacing the journal by the final result, nor a
\* crash or a rerun makes known spending disappear (consumed_cost_usd).
THEOREM ConsumptionKept == Spec => ConsumptionNeverDrops
<1>1. TypeInv /\ TypeInv' /\ Books /\ [Next]_vars => [Consumed' >= Consumed]_vars
  BY StepKeepsConsumption
<1> QED
  BY <1>1, TypeCorrect, BooksKept, PTL DEF Spec, ConsumptionNeverDrops

-----------------------------------------------------------------------------
(* The cap.  CapOvershootBounded is not inductive: it says nothing of how  *)
(* much of the overshoot is still to come.  While a task is worked on, what *)
(* was counted before the current attempt leaves room for the reserve the  *)
(* task was admitted with and for what is overrun by each earlier attempt. *)

\* The most one attempt can spend: the last call may begin one token short.
Room == MaxTokens + MaxCallCost - 1

Admitted ==
    /\ pc = "admit" => Counted(live[task]) = 0
    /\ pc \notin {"down", "next", "admit"} =>
        /\ Cap # NoCap => Cardinality(Earlier) + MaxTokens <= Cap + attempt * Room
        /\ Counted(live[task]) <= Room
        /\ pc \in {"attempt", "run"} => Completed(task) \/ Counted(live[task]) = 0
        /\ pc = "flush" => spent < MaxTokens

CapInv == Admitted /\ CapOvershootBounded

\* The room of every attempt, and the reserve of the first, fit in the bound.
LEMMA RoomIsEnough ==
    ASSUME NEW cap \in Nat, NEW e \in Nat, NEW c \in Nat, NEW a \in 0 .. TaskRetries,
           e + MaxTokens <= cap + a * Room, c <= Room
    PROVE  e + c <= cap + TaskRetries * MaxTokens + (TaskRetries + 1) * (MaxCallCost - 1)
<1> USE BenchmarkAssumption
<1> DEFINE n == TaskRetries - a
<1>1. Room \in Nat /\ n \in Nat /\ a \in Nat /\ TaskRetries = a + n
  BY DEF Room
<1>2. a * Room <= TaskRetries * Room
  <2>1. TaskRetries * Room = a * Room + n * Room
    BY <1>1
  <2>2. n * Room >= 0 /\ n * Room \in Int /\ a * Room \in Int
    BY <1>1
  <2> HIDE DEF n
  <2> QED
    BY <2>1, <2>2
<1>3. TaskRetries * Room = TaskRetries * MaxTokens + TaskRetries * (MaxCallCost - 1)
  BY DEF Room
<1>4. (TaskRetries + 1) * (MaxCallCost - 1)
          = TaskRetries * (MaxCallCost - 1) + (MaxCallCost - 1)
  OBVIOUS
<1> DEFINE x == TaskRetries * MaxTokens
           y == TaskRetries * (MaxCallCost - 1)
           z == TaskRetries * Room
           w == a * Room
<1>5. x \in Nat /\ y \in Nat /\ z \in Nat /\ w \in Nat
  BY <1>1
<1>6. Room = MaxTokens + (MaxCallCost - 1)
  BY DEF Room
<1>7. e + MaxTokens <= cap + w /\ w <= z /\ z = x + y
  BY <1>2, <1>3
<1> HIDE DEF x, y, z, w
<1>8. e + c <= cap + x + (y + (MaxCallCost - 1))
  BY <1>5, <1>6, <1>7
<1> QED
  BY <1>4, <1>8 DEF x, y

\* While a task is worked on, what is counted keeps within the bound.
LEMMA AdmittedWithinBound ==
    TypeInv /\ Admitted /\ pc \notin {"down", "next", "admit"} => CapOvershootBounded
<1> SUFFICES ASSUME TypeInv, Admitted, pc \notin {"down", "next", "admit"}
             PROVE  CapOvershootBounded
  OBVIOUS
<1>1. task \in Tasks /\ attempt \in 0 .. TaskRetries
  BY DEF TypeInv, TypeOK, OnTask
<1>2. /\ Cardinality(Earlier) \in Nat /\ Counted(live[task]) \in Nat
      /\ Consumed = Cardinality(Earlier) + Counted(live[task])
  BY <1>1, ConsumedParts
<1>3. SUFFICES ASSUME Cap # NoCap
               PROVE  Consumed <= Cap + TaskRetries * MaxTokens
                                      + (TaskRetries + 1) * (MaxCallCost - 1)
  BY DEF CapOvershootBounded
<1>4. Cap \in Nat
  BY <1>3, BenchmarkAssumption
<1>5. /\ Cardinality(Earlier) + MaxTokens <= Cap + attempt * Room
      /\ Counted(live[task]) <= Room
  BY <1>3 DEF Admitted
<1> QED
  BY <1>1, <1>2, <1>4, <1>5, RoomIsEnough

\* A step between tasks, or to the end of the command, counts what was counted.
LEMMA BetweenTasks ==
    ASSUME CapInv, Tokens' = Tokens, pc' \in {"down", "next"}
    PROVE  CapInv'
BY DEF CapInv, Admitted, CapOvershootBounded, Consumed

\* A step at work that leaves the disk, the task and the attempt alone.
LEMMA QuietAtWork ==
    ASSUME TypeInv, TypeInv', CapInv, UNCHANGED <<live, archived, task, attempt>>,
           pc \notin {"down", "next", "admit"},
           pc' \notin {"down", "next", "admit", "flush"},
           pc' \in {"attempt", "run"} => pc = "attempt"
    PROVE  CapInv'
<1>1. Earlier' = Earlier
  BY DEF Earlier, Latest, Tokens, TokensOf, Directory, Counted
<1>2. Admitted'
  BY <1>1 DEF CapInv, Admitted, Counted, Completed
<1>3. (TypeInv /\ Admitted /\ pc \notin {"down", "next", "admit"})' => CapOvershootBounded'
  BY AdmittedWithinBound, PTL
<1> QED
  BY <1>2, <1>3 DEF CapInv

\* Archiving before the admission test, and before a retry, which then has what
\* the failed attempt showed for granted and one more room.
LEMMA ArchivingKeepsCap ==
    ASSUME TypeInv, TypeInv', Books, Books', CapInv, ArchiveEarlier \/ ArchiveAndRetry
    PROVE  CapInv'
<1>1. /\ task \in Tasks /\ UNCHANGED task /\ ArchivePartial(task)
      /\ live \in [Tasks -> Dir] /\ live[task] \in Dir
  BY DEF TypeInv, TypeOK, OnTask, Goto, ArchiveEarlier, ArchiveAndRetry
<1>2. Tokens' = Tokens
  BY <1>1, ArchiveKeepsTokens
<1>3. (Completed(task) /\ UNCHANGED <<live, archived>>) \/ Counted(live[task])' = 0
  <2>1. Counted(Absent) = 0
    BY DEF Counted, Absent
  <2>2. CASE live' = [live EXCEPT ![task] = Absent]
    BY <1>1, <2>1, <2>2 DEF Counted
  <2>3. CASE live[task].content = "absent" /\ UNCHANGED <<live, archived>>
    BY <1>1, <2>3 DEF Books, Plain, Counted
  <2> QED
    BY <1>1, <2>2, <2>3 DEF ArchivePartial
<1>4. CASE ArchiveEarlier
  <2>1. pc' = "admit" /\ ~Completed(task)
    BY <1>4 DEF ArchiveEarlier, Goto
  <2> QED
    BY <1>1, <1>2, <1>3, <2>1 DEF CapInv, Admitted, CapOvershootBounded, Consumed
<1>5. CASE ArchiveAndRetry
  <2>1. /\ pc = "rearchive" /\ pc' = "attempt" /\ attempt' = attempt + 1
        /\ attempt \in Nat
    BY <1>5 DEF ArchiveAndRetry, Goto, TypeInv, TypeOK
  <2>2. Cap # NoCap => Cardinality(Earlier)' + MaxTokens <= Cap + attempt' * Room
    <3>1. SUFFICES ASSUME Cap # NoCap
                   PROVE  Cardinality(Earlier)' + MaxTokens <= Cap + attempt' * Room
      OBVIOUS
    <3>2. /\ Cardinality(Earlier) \in Nat /\ Counted(live[task]) \in Nat
          /\ Consumed = Cardinality(Earlier) + Counted(live[task])
      BY <1>1, ConsumedParts
    <3>3. IsFiniteSet(Tokens) /\ Earlier' \subseteq Tokens
      BY <1>2, TokensFinite DEF Earlier
    <3>4. Cardinality(Earlier') <= Consumed /\ Cardinality(Earlier') \in Nat
      BY <3>3, FS_Subset, FS_CardinalityType DEF Consumed
    <3>5. /\ Cardinality(Earlier) + MaxTokens <= Cap + attempt * Room
          /\ Counted(live[task]) <= Room
      BY <2>1, <3>1 DEF CapInv, Admitted
    <3>6. Room \in Nat /\ Cap \in Nat /\ MaxTokens \in Nat
      BY <3>1, BenchmarkAssumption DEF Room
    <3>7. attempt' * Room = attempt * Room + Room /\ attempt * Room \in Nat
      BY <2>1, <3>6
    <3> QED
      BY <3>2, <3>4, <3>5, <3>6, <3>7
  <2>3. Counted(live[task])' <= Room /\ (Completed(task)' \/ Counted(live[task])' = 0)
    <3>1. Room >= 0
      BY BenchmarkAssumption DEF Room
    <3>2. CASE Completed(task) /\ UNCHANGED <<live, archived>>
      BY <1>1, <2>1, <3>2 DEF CapInv, Admitted, Counted, Completed
    <3>3. CASE Counted(live[task])' = 0
      BY <3>1, <3>3
    <3> QED
      BY <1>3, <3>2, <3>3
  <2>4. Admitted'
    BY <2>1, <2>2, <2>3 DEF Admitted
  <2>5. (TypeInv /\ Admitted /\ pc \notin {"down", "next", "admit"})'
            => CapOvershootBounded'
    BY AdmittedWithinBound, PTL
  <2> QED
    BY <2>1, <2>4, <2>5 DEF CapInv
<1> QED
  BY <1>4, <1>5

\* Writing into the live directory leaves what was counted before alone, and
\* shows no more than a room.
LEMMA WritingKeepsCap ==
    ASSUME TypeInv, TypeInv', Books, CapInv,
           MakeDirectory \/ WriteMetadata \/ CallModel \/ FlushJournal
           \/ WriteResult \/ UnlinkJournal
    PROVE  CapInv'
<1>1. /\ task \in Tasks /\ UNCHANGED <<archived, task, attempt>>
      /\ \A u \in Tasks \ {task} : live'[u] = live[u]
      /\ Counted(live[task])' =
            IF pc = "flush" THEN spent + inflight ELSE Counted(live[task])
      /\ AtTask /\ spent \in Nat /\ inflight \in Nat
  BY WritingShows DEF Books, TypeInv, TypeOK
<1>2. Earlier' = Earlier
  BY <1>1, EarlierSame
<1>3. /\ pc \notin {"down", "next", "admit"}
      /\ pc' \in {"setup", "work", "flush", "record", "unlink", "cleanup"}
      /\ pc' = "flush" => UNCHANGED spent /\ spent < MaxTokens
  BY DEF Goto, BudgetLeft, MakeDirectory, WriteMetadata, CallModel, FlushJournal,
         WriteResult, UnlinkJournal
<1>4. Counted(live[task])' <= Room
  <2>1. CASE pc = "flush"
    BY <1>1, <2>1, BenchmarkAssumption DEF CapInv, Admitted, AtTask, Room
  <2>2. CASE pc # "flush"
    BY <1>1, <1>3, <2>2 DEF CapInv, Admitted
  <2> QED
    BY <2>1, <2>2
<1>5. Admitted'
  BY <1>1, <1>2, <1>3, <1>4 DEF CapInv, Admitted
<1>6. (TypeInv /\ Admitted /\ pc \notin {"down", "next", "admit"})' => CapOvershootBounded'
  BY AdmittedWithinBound, PTL
<1> QED
  BY <1>3, <1>5, <1>6 DEF CapInv

\* The admission test lets a task begin while its reserve is free.
LEMMA AdmitKeepsCap == ASSUME TypeInv, TypeInv', CapInv, Admit PROVE CapInv'
<1>1. /\ pc = "admit" /\ pc' = "attempt" /\ attempt' = 0 /\ task \in Tasks
      /\ UNCHANGED <<live, archived, task>>
  BY DEF Admit, Goto, disk, TypeInv, OnTask
<1>2. Earlier' = Earlier /\ Counted(live[task])' = Counted(live[task])
  BY <1>1 DEF Earlier, Latest, Tokens, TokensOf, Directory, Counted
<1>3. /\ Cardinality(Earlier) \in Nat /\ Counted(live[task]) = 0
      /\ Consumed = Cardinality(Earlier) + Counted(live[task])
  BY <1>1, ConsumedParts DEF CapInv, Admitted
<1>4. Cap # NoCap => Cardinality(Earlier) + MaxTokens <= Cap + 0 * Room
  BY <1>3, BenchmarkAssumption DEF Admit, OverCap, Reserve, Room
<1>5. Room >= 0
  BY BenchmarkAssumption DEF Room
<1>6. Admitted'
  BY <1>1, <1>2, <1>3, <1>4, <1>5 DEF Admitted
<1>7. (TypeInv /\ Admitted /\ pc \notin {"down", "next", "admit"})' => CapOvershootBounded'
  BY AdmittedWithinBound, PTL
<1> QED
  BY <1>1, <1>6, <1>7 DEF CapInv

\* Nothing is counted at first.
LEMMA InitCap == Init => CapInv
<1> SUFFICES ASSUME Init PROVE CapInv
  OBVIOUS
<1>1. Tokens = {}
  <2>1. \A t \in Tasks : \A i \in 1 .. Len(archived[t]) + 1 :
            Counted(Directory(t, i)) = 0
    BY BenchmarkAssumption DEF Init, Directory, Counted, Absent
  <2> QED
    BY <2>1 DEF Tokens, TokensOf
<1>2. Consumed = 0
  BY <1>1, FS_EmptySet DEF Consumed
<1>3. Cap # NoCap => 0 <= Cap + TaskRetries * MaxTokens
                            + (TaskRetries + 1) * (MaxCallCost - 1)
  <2>1. MaxCallCost - 1 \in Nat /\ TaskRetries \in Nat /\ MaxTokens \in Nat
    BY BenchmarkAssumption
  <2>2. /\ TaskRetries * MaxTokens \in Nat
        /\ (TaskRetries + 1) * (MaxCallCost - 1) \in Nat
    BY <2>1
  <2> QED
    BY <2>2, BenchmarkAssumption
<1> QED
  BY <1>2, <1>3 DEF Init, CapInv, Admitted, CapOvershootBounded

\* Every step keeps the bound, and what it rests on.
LEMMA NextCap ==
    TypeInv /\ TypeInv' /\ Books /\ Books' /\ CapInv /\ [Next]_vars => CapInv'
<1> SUFFICES ASSUME TypeInv, TypeInv', Books, Books', CapInv, [Next]_vars
             PROVE  CapInv'
  OBVIOUS
<1>1. UNCHANGED <<live, archived>> => Tokens' = Tokens
  BY DEF Tokens, TokensOf, Directory, Counted
<1>2. CASE UNCHANGED vars
  <2>1. UNCHANGED <<live, archived, pc, task, attempt, spent>>
    BY <1>2 DEF vars, disk, process, controller
  <2>2. Earlier' = Earlier /\ Consumed' = Consumed
    BY <1>1, <2>1 DEF Earlier, Latest, Counted, Consumed
  <2> QED
    BY <2>1, <2>2 DEF CapInv, Admitted, CapOvershootBounded, Counted, Completed
<1>3. CASE \/ Start \/ SkipCompleted \/ StopAtCap \/ Finish \/ AcceptResult
           \/ RecordInterrupt \/ Crash \/ (RecordFailure /\ pc' = "down")
  <2>1. UNCHANGED <<live, archived>> /\ pc' \in {"down", "next"}
    BY <1>3 DEF Start, SkipCompleted, StopAtCap, Finish, AcceptResult,
                RecordInterrupt, Crash, RecordFailure, Goto, disk
  <2> QED
    BY <1>1, <2>1, BetweenTasks
<1>4. CASE \/ BeginAttempt \/ RefuseDirectory \/ RecordUsage \/ BeginRecovery
           \/ EndAttempts \/ CloseShell \/ CleanupWorkspace \/ RunRaises
           \/ Interrupt \/ (RecordFailure /\ pc' = "rearchive")
  <2>1. /\ UNCHANGED <<live, archived, task, attempt>>
        /\ pc \notin {"down", "next", "admit"}
        /\ pc' \notin {"down", "next", "admit", "flush"}
        /\ pc' \in {"attempt", "run"} => pc = "attempt"
    BY <1>4 DEF BeginAttempt, RefuseDirectory, RecordUsage, BeginRecovery,
                EndAttempts, CloseShell, CleanupWorkspace, RunRaises, Interrupt,
                RecordFailure, Goto, disk, RunStates
  <2> QED
    BY <2>1, QuietAtWork
<1>5. CASE ArchiveEarlier \/ ArchiveAndRetry
  BY <1>5, ArchivingKeepsCap
<1>6. CASE Admit
  BY <1>6, AdmitKeepsCap
<1>7. CASE MakeDirectory \/ WriteMetadata \/ CallModel \/ FlushJournal
           \/ WriteResult \/ UnlinkJournal
  BY <1>7, WritingKeepsCap
<1>8. CASE RecordFailure
  <2>1. pc' = "down" \/ pc' = "rearchive"
    BY <1>8 DEF RecordFailure
  <2> QED
    BY <1>3, <1>4, <1>8, <2>1
<1> QED
  <2>1. Next \/ UNCHANGED vars
    OBVIOUS
  <2> QED
    BY <1>2, <1>3, <1>4, <1>5, <1>6, <1>7, <1>8, <2>1 DEF Next, LoopStep, RunStep

\* One task overruns the cap it was admitted under by a token budget for every
\* retry and, for every attempt, by what its last call added, and no crash,
\* retry or rerun adds to that (benchmark_command, BudgetTracker.record).
THEOREM CapOvershoot == Spec => []CapOvershootBounded
<1>1. CapInv => CapOvershootBounded
  BY DEF CapInv
<1> QED
  BY <1>1, InitCap, NextCap, TypeCorrect, BooksKept, PTL DEF Spec
=============================================================================
