-------------------------- MODULE DockerShellProofs --------------------------
(***************************************************************************)
(* Proofs about DockerShell, for every number of artifacts and commands:   *)
(* which failures can leave a container or the evaluation script behind,   *)
(* and that a success is that of the test command unless the tests print   *)
(* a report of their own.                                                  *)
(***************************************************************************)
EXTENDS DockerShell, TLAPS

\* Where in its life a shell may have a container of each kind without a
\* mishap to show for it.
Owned ==
    /\ "seed" \in containers =>
           pc \in {"start seed", "list", "copy", "rm seed"} \/ "rm seed" \in mishaps
    /\ "task" \in containers =>
           \/ pc \in {"start", "open", "agent", "evaluate", "unstage", "close"}
           \/ mishaps \cap {"create", "start", "rm task"} # {}

\* A command may begin beside the script, or be under way, only after a failed
\* removal; before the shell is open there is no script at all.
Hidden ==
    /\ script /\ (pc = "agent" \/ (pc = "open" /\ ~raising))
           => "unstage" \in mishaps
    /\ script => pc \in {"open", "agent", "evaluate", "unstage", "close",
                         "raised", "closed"}

\* The type invariant in the parts that are proved one by one.
PlaceOK == pc \in {"new", "start seed", "list", "copy", "rm seed", "create",
                   "start", "open", "agent", "evaluate", "unstage", "close",
                   "raised", "closed"}
HoldingsOK == containers \subseteq {"seed", "task"} /\ mishaps \subseteq Calls
CountsOK == todo \in 0 .. MaxArtifacts /\ commands \in 0 .. MaxCommands
CodesOK == code \in Codes /\ tests \in Results
FlagsOK == script \in BOOLEAN /\ raising \in BOOLEAN /\ echoed \in BOOLEAN

Types == PlaceOK /\ HoldingsOK /\ CountsOK /\ CodesOK /\ FlagsOK

\* Every step leads to a place of the shell.
LEMMA NextPlace ==
    ASSUME PlaceOK, [Next]_vars
    PROVE  PlaceOK'
  BY DEF PlaceOK, Next, vars, docker, verdict, Open, Run, Close, MayRun, RefuseImage, CreateSeed,
         CreateSeedFails, StartSeed, ListArtifacts, CopyArtifact,
         ArtifactsCopied, SeedingFails, RemoveSeed, RemoveSeedFails, CreateTask,
         CreateTaskFails, StartTask, StartTaskFails, RunOnHost, RunInContainer,
         StageScript, StageScriptFails, CommandReturns, ScriptReturns,
         ScriptTimesOut, ScriptRaises, UnstageScript, UnstageScriptFails,
         BeginClose, CloseTask, CloseTaskFails

\* Every step keeps the containers and the mishaps to their kinds.
LEMMA NextHoldings ==
    ASSUME HoldingsOK, [Next]_vars
    PROVE  HoldingsOK'
  BY DEF HoldingsOK, Calls, Next, vars, docker, verdict, Open, Run, Close, MayRun, RefuseImage, CreateSeed,
         CreateSeedFails, StartSeed, ListArtifacts, CopyArtifact,
         ArtifactsCopied, SeedingFails, RemoveSeed, RemoveSeedFails, CreateTask,
         CreateTaskFails, StartTask, StartTaskFails, RunOnHost, RunInContainer,
         StageScript, StageScriptFails, CommandReturns, ScriptReturns,
         ScriptTimesOut, ScriptRaises, UnstageScript, UnstageScriptFails,
         BeginClose, CloseTask, CloseTaskFails

\* Every step keeps the counters in their bounds.
LEMMA NextCounts ==
    ASSUME CountsOK, [Next]_vars
    PROVE  CountsOK'
  <1> USE DockerShellAssumption DEF CountsOK
  <1>1. CASE ListArtifacts \/ CopyArtifact
    BY <1>1 DEF ListArtifacts, CopyArtifact
  <1>2. CASE RunOnHost \/ RunInContainer \/ StageScript \/ StageScriptFails
    BY <1>2 DEF RunOnHost, RunInContainer, StageScript, StageScriptFails, MayRun
  <1>3. CASE UNCHANGED <<todo, commands>>
    BY <1>3
  <1>4. \/ UNCHANGED <<todo, commands>>
        \/ ListArtifacts \/ CopyArtifact
        \/ RunOnHost \/ RunInContainer \/ StageScript \/ StageScriptFails
    BY DEF Next, vars, Open, Run, Close, RefuseImage, CreateSeed,
           CreateSeedFails, StartSeed, ArtifactsCopied, SeedingFails,
           RemoveSeed, RemoveSeedFails, CreateTask, CreateTaskFails, StartTask,
           StartTaskFails, CommandReturns, ScriptReturns, ScriptTimesOut,
           ScriptRaises, UnstageScript, UnstageScriptFails, BeginClose,
           CloseTask, CloseTaskFails
  <1> QED
    BY <1>1, <1>2, <1>3, <1>4

\* Every step that returns returns one of the codes.
LEMMA NextCodes ==
    ASSUME CodesOK, [Next]_vars
    PROVE  CodesOK'
  <1>1. CASE Run \/ RunOnHost \/ StageScript
    BY <1>1 DEF CodesOK, Codes, NotRun, Results, OfficialExitCode, Run, MayRun, verdict,
        CommandReturns, ScriptReturns, ScriptTimesOut, ScriptRaises,
        UnstageScript, UnstageScriptFails, RunOnHost, StageScript
  <1>2. CASE UNCHANGED <<code, tests>>
    BY <1>2 DEF CodesOK
  <1>3. Run \/ RunOnHost \/ StageScript \/ UNCHANGED <<code, tests>>
    BY DEF Next, vars, verdict, Open, Close, RefuseImage, CreateSeed, CreateSeedFails,
           StartSeed, ListArtifacts, CopyArtifact, ArtifactsCopied,
           SeedingFails, RemoveSeed, RemoveSeedFails, CreateTask,
           CreateTaskFails, StartTask, StartTaskFails, RunInContainer,
           StageScriptFails, BeginClose, CloseTask, CloseTaskFails
  <1> QED
    BY <1>1, <1>2, <1>3

\* Every step keeps the flags flags.
LEMMA NextFlags ==
    ASSUME FlagsOK, [Next]_vars
    PROVE  FlagsOK'
  BY DEF FlagsOK, Next, vars, docker, verdict, Open, Run, Close, MayRun, RefuseImage, CreateSeed,
         CreateSeedFails, StartSeed, ListArtifacts, CopyArtifact,
         ArtifactsCopied, SeedingFails, RemoveSeed, RemoveSeedFails, CreateTask,
         CreateTaskFails, StartTask, StartTaskFails, RunOnHost, RunInContainer,
         StageScript, StageScriptFails, CommandReturns, ScriptReturns,
         ScriptTimesOut, ScriptRaises, UnstageScript, UnstageScriptFails,
         BeginClose, CloseTask, CloseTaskFails

\* No step leaves a container behind without a mishap.
LEMMA NextOwned ==
    ASSUME Owned, [Next]_vars
    PROVE  Owned'
  BY DEF Owned, Next, vars, docker, verdict, Open, Run, Close, MayRun, RefuseImage, CreateSeed,
         CreateSeedFails, StartSeed, ListArtifacts, CopyArtifact,
         ArtifactsCopied, SeedingFails, RemoveSeed, RemoveSeedFails, CreateTask,
         CreateTaskFails, StartTask, StartTaskFails, RunOnHost, RunInContainer,
         StageScript, StageScriptFails, CommandReturns, ScriptReturns,
         ScriptTimesOut, ScriptRaises, UnstageScript, UnstageScriptFails,
         BeginClose, CloseTask, CloseTaskFails

\* No step lets a command of the agent begin beside the script.
LEMMA NextHidden ==
    ASSUME Hidden, [Next]_vars
    PROVE  Hidden'
  <1> USE DEF Hidden
  <1>1. CASE Open
    <2>1. pc \in {"new", "start seed", "list", "copy", "rm seed", "create",
                 "start"}
      BY <1>1 DEF Open, RefuseImage, CreateSeed, CreateSeedFails, StartSeed,
          ListArtifacts, CopyArtifact, ArtifactsCopied, SeedingFails,
          RemoveSeed, RemoveSeedFails, CreateTask, CreateTaskFails, StartTask,
          StartTaskFails
    <2>2. script' = script
      BY <1>1 DEF Open, RefuseImage, CreateSeed, CreateSeedFails, StartSeed,
          ListArtifacts, CopyArtifact, ArtifactsCopied, SeedingFails,
          RemoveSeed, RemoveSeedFails, CreateTask, CreateTaskFails, StartTask,
          StartTaskFails, docker
    <2>3. ~script
      BY <2>1
    <2> QED
      BY <2>2, <2>3
  <1>2. CASE RunOnHost \/ RunInContainer \/ StageScript \/ StageScriptFails
    BY <1>2 DEF RunOnHost, RunInContainer, StageScript, StageScriptFails,
        MayRun, docker
  <1>3. CASE Run
    BY <1>3 DEF Run, CommandReturns, ScriptReturns, ScriptTimesOut,
        ScriptRaises, UnstageScript, UnstageScriptFails, docker
  <1>4. CASE Close
    BY <1>4 DEF Close, BeginClose, CloseTask, CloseTaskFails, docker
  <1>5. CASE UNCHANGED vars
    BY <1>5 DEF vars, docker, verdict
  <1> QED
    BY <1>1, <1>2, <1>3, <1>4, <1>5 DEF Next

\* Only the three ends of an evaluation lead to the removal of the script, and
\* each brings an exit code that is no better than the tests, or the report of
\* the tests themselves.
LEMMA NextVerdict ==
    ASSUME VerdictIsTests, [Next]_vars
    PROVE  VerdictIsTests'
  <1> USE DEF VerdictIsTests, NotRun, Results, verdict
  <1>1. CASE ScriptReturns
    <2>1. PICK result, before, marker, after \in Results, status \in {0, 1} :
              /\ marker \in {result, NotRun}
              /\ tests' = result
              /\ echoed' = (before # NotRun \/ after # NotRun)
              /\ code' = OfficialExitCode(before, marker, after, status)
      BY <1>1 DEF ScriptReturns
    <2>2. CASE before # NotRun \/ after # NotRun
      BY <2>1, <2>2
    <2>3. CASE before = NotRun /\ after = NotRun
      <3>1. code' = 0 => marker = 0
        BY <2>1, <2>3 DEF OfficialExitCode
      <3> QED
        BY <2>1, <3>1
    <2> QED
      BY <2>2, <2>3
  <1>4. CASE ScriptTimesOut \/ ScriptRaises
    BY <1>4 DEF ScriptTimesOut, ScriptRaises
  <1>2. CASE UNCHANGED vars
    BY <1>2 DEF vars
  <1>3. CASE Next /\ ~(ScriptReturns \/ ScriptTimesOut \/ ScriptRaises)
    <2>1. pc' # "unstage"
      BY <1>3 DEF Next, Open, Run, Close, RefuseImage, CreateSeed,
          CreateSeedFails, StartSeed, ListArtifacts, CopyArtifact,
          ArtifactsCopied, SeedingFails, RemoveSeed, RemoveSeedFails,
          CreateTask, CreateTaskFails, StartTask, StartTaskFails, RunOnHost,
          RunInContainer, StageScript, StageScriptFails, MayRun,
          CommandReturns, UnstageScript, UnstageScriptFails, BeginClose,
          CloseTask, CloseTaskFails
    <2> QED
      BY <2>1
  <1> QED
    BY <1>1, <1>2, <1>3, <1>4

\* What the theorems rest on.
Inv == Types /\ Owned /\ Hidden /\ VerdictIsTests

\* All of it holds at first.
LEMMA InitInv == Init => Inv
  <1> SUFFICES ASSUME Init PROVE Inv
    OBVIOUS
  <1>1. PlaceOK /\ HoldingsOK /\ CountsOK /\ CodesOK
    BY DockerShellAssumption
       DEF Init, PlaceOK, HoldingsOK, CountsOK, CodesOK, Codes, NotRun, Results
  <1>2. FlagsOK
    BY DEF Init, FlagsOK
  <1>3. Owned /\ Hidden /\ VerdictIsTests
    BY DEF Init, Owned, Hidden, VerdictIsTests
  <1> QED
    BY <1>1, <1>2, <1>3 DEF Inv, Types

\* And for ever.
LEMMA AlwaysInv == Spec => []Inv
  <1>1. Inv /\ [Next]_vars => Inv'
    BY NextPlace, NextHoldings, NextCounts, NextCodes, NextFlags, NextOwned,
       NextHidden, NextVerdict DEF Inv, Types
  <1> QED
    BY InitInv, <1>1, PTL DEF Spec

\* A shell is always in a state of its types.
THEOREM ShellTyped == Spec => []TypeOK
  <1>1. Inv => TypeOK
    BY Zenon DEF Inv, Types, PlaceOK, HoldingsOK, CountsOK, CodesOK, FlagsOK,
                 TypeOK
  <1> QED
    BY <1>1, AlwaysInv, PTL

\* A shell that has ended leaves a container only after the failures that the
\* code has no remedy for; no failure while seeding is one of them.
THEOREM ShellCleansUp == Spec => []NothingLeftBehind
  <1>1. Inv => NothingLeftBehind
    BY DEF Inv, Owned, NothingLeftBehind, Ended
  <1> QED
    BY <1>1, AlwaysInv, PTL

\* The agent never works beside the evaluation script unless its removal failed.
THEOREM ShellHidesScript == Spec => []ScriptHidden
  <1>1. Inv => ScriptHidden
    BY Zenon DEF Inv, Hidden, ScriptHidden
  <1> QED
    BY <1>1, AlwaysInv, PTL

\* An evaluation that succeeds has tests that came to an end and passed, or that
\* printed a report of their own.
THEOREM ShellVerdict == Spec => []VerdictIsTests
  <1>1. Inv => VerdictIsTests
    BY DEF Inv
  <1> QED
    BY <1>1, AlwaysInv, PTL

=============================================================================
