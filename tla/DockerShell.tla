----------------------------- MODULE DockerShell -----------------------------
(***************************************************************************)
(* DockerShellTool (tools/docker_shell.py): the containers one shell of a  *)
(* task makes and removes, and the official evaluation script it stages in *)
(* the container for the time of one evaluation.                           *)
(*                                                                         *)
(* Every step is one call of the docker command line.  A call works; or it *)
(* fails with a nonzero exit status and without effect; or it raises       *)
(* (TimeoutExpired, OSError, Control-C), its effect done or not.  The      *)
(* docker daemon itself is external.                                       *)
(***************************************************************************)
EXTENDS Naturals

CONSTANTS
    MaxArtifacts,   \* 256 in the code: the most artifacts that are copied
    MaxCommands     \* bound: commands run in one shell

ASSUME DockerShellAssumption == MaxArtifacts \in Nat /\ MaxCommands \in Nat

VARIABLES
    pc,         \* where the shell stands; "open" between commands
    containers, \* the containers of this shell that exist
    script,     \* the evaluation script is in the task container
    raising,    \* an exception passes through a finally clause
    todo,       \* artifacts still to be copied
    code,       \* exit code to return, or returned last
    tests,      \* ghost: exit status of the test command of this evaluation
    echoed,     \* ghost: the tests printed a line like the script's own report
    commands,   \* commands run so far
    mishaps     \* ghost: calls that failed where nothing makes up for it

docker == <<containers, script>>
verdict == <<tests, echoed>>
vars == <<pc, docker, raising, todo, code, verdict, commands, mishaps>>

Calls == {"create", "start", "rm seed", "rm task", "stage", "unstage"}
Codes == {0, 1, 2, 124}
NotRun == 255       \* the test command has not come to an end; no such line
Results == {0, 1, NotRun}

Init ==
    /\ pc = "new" /\ containers = {} /\ script = FALSE
    /\ raising = FALSE /\ todo = 0 /\ code = 2
    /\ tests = NotRun /\ echoed = FALSE
    /\ commands = 0 /\ mishaps = {}

-----------------------------------------------------------------------------
(* The constructor: _seed_image_artifacts, then _start.                    *)

\* An image from another namespace is refused before anything is made.
RefuseImage ==
    /\ pc = "new" /\ pc' = "raised"
    /\ UNCHANGED <<docker, raising, todo, code, verdict, commands, mishaps>>

CreateSeed ==
    /\ pc = "new" /\ pc' = "start seed"
    /\ containers' = containers \cup {"seed"}
    /\ UNCHANGED <<script, raising, todo, code, verdict, commands, mishaps>>

\* Whatever goes wrong with the seed container leads to the finally clause.
CreateSeedFails ==
    /\ pc = "new" /\ pc' = "rm seed" /\ raising' = TRUE
    /\ containers' \in {containers, containers \cup {"seed"}}
    /\ UNCHANGED <<script, todo, code, verdict, commands, mishaps>>

StartSeed ==
    /\ pc = "start seed" /\ pc' = "list"
    /\ UNCHANGED <<docker, raising, todo, code, verdict, commands, mishaps>>

\* Mutant: the number of artifacts is not looked at.
BugListArtifacts ==
    /\ pc = "list" /\ pc' = "copy"
    /\ todo' \in 0 .. MaxArtifacts + 1
    /\ UNCHANGED <<docker, raising, code, verdict, commands, mishaps>>

\* The list of ignored files, with the reproducible ones dropped; more than
\* the limit are refused.
ListArtifacts ==
    /\ pc = "list" /\ pc' = "copy"
    /\ todo' \in 0 .. MaxArtifacts
    /\ UNCHANGED <<docker, raising, code, verdict, commands, mishaps>>

\* One artifact is copied, or exists already and is passed over.
CopyArtifact ==
    /\ pc = "copy" /\ todo > 0
    /\ todo' = todo - 1
    /\ UNCHANGED <<pc, docker, raising, code, verdict, commands, mishaps>>

ArtifactsCopied ==
    /\ pc = "copy" /\ todo = 0 /\ pc' = "rm seed"
    /\ UNCHANGED <<docker, raising, todo, code, verdict, commands, mishaps>>

\* Mutant: a failure leaves without the finally clause.
BugSeedingFails ==
    /\ pc \in {"start seed", "list", "copy"} /\ pc' = "raised"
    /\ UNCHANGED <<docker, raising, todo, code, verdict, commands, mishaps>>

SeedingFails ==
    /\ pc \in {"start seed", "list", "copy"} /\ pc' = "rm seed"
    /\ raising' = TRUE
    /\ UNCHANGED <<docker, todo, code, verdict, commands, mishaps>>

RemoveSeed ==
    /\ pc = "rm seed"
    /\ pc' = IF raising THEN "raised" ELSE "create"
    /\ containers' = containers \ {"seed"}
    /\ UNCHANGED <<script, raising, todo, code, verdict, commands, mishaps>>

\* The exit status of docker rm is not looked at; an exception leaves.
RemoveSeedFails ==
    /\ pc = "rm seed"
    /\ \/ /\ pc' = IF raising THEN "raised" ELSE "create"
          /\ UNCHANGED containers
       \/ /\ pc' = "raised"
          /\ containers' \in {containers, containers \ {"seed"}}
    /\ mishaps' = mishaps \cup {"rm seed"}
    /\ UNCHANGED <<script, raising, todo, code, verdict, commands>>

CreateTask ==
    /\ pc = "create" /\ pc' = "start"
    /\ containers' = containers \cup {"task"}
    /\ UNCHANGED <<script, raising, todo, code, verdict, commands, mishaps>>

\* ToolError when docker fails; after an exception nothing removes the
\* container, if there is one.
CreateTaskFails ==
    /\ pc = "create" /\ pc' = "raised"
    /\ \/ UNCHANGED <<containers, mishaps>>
       \/ /\ containers' \in {containers, containers \cup {"task"}}
          /\ mishaps' = mishaps \cup {"create"}
    /\ UNCHANGED <<script, raising, todo, code, verdict, commands>>

StartTask ==
    /\ pc = "start" /\ pc' = "open"
    /\ UNCHANGED <<docker, raising, todo, code, verdict, commands, mishaps>>

\* When docker fails the container is closed; after an exception it is not.
StartTaskFails ==
    /\ pc = "start"
    /\ \/ pc' = "close" /\ raising' = TRUE /\ UNCHANGED mishaps
       \/ /\ pc' = "raised" /\ mishaps' = mishaps \cup {"start"}
          /\ UNCHANGED raising
    /\ UNCHANGED <<docker, todo, code, verdict, commands>>

-----------------------------------------------------------------------------
(* run.                                                                    *)

MayRun == pc = "open" /\ ~raising /\ commands < MaxCommands

\* An empty or forbidden command, or one of git that only reads: the task
\* container is not involved.
RunOnHost ==
    /\ MayRun /\ commands' = commands + 1
    /\ code' \in Codes /\ raising' \in BOOLEAN
    /\ UNCHANGED <<pc, docker, todo, verdict, mishaps>>

\* A command of the agent in the container; 124 when it times out.  Docker
\* itself may be missing, which raises, here as on the host.
RunInContainer ==
    /\ MayRun /\ commands' = commands + 1
    /\ pc' = "agent"
    /\ UNCHANGED <<docker, raising, todo, code, verdict, mishaps>>

CommandReturns ==
    /\ pc = "agent" /\ pc' = "open"
    /\ code' \in Codes /\ raising' \in BOOLEAN
    /\ UNCHANGED <<docker, todo, verdict, commands, mishaps>>

\* The evaluation script is copied into the container.
StageScript ==
    /\ MayRun /\ commands' = commands + 1
    /\ pc' = "evaluate" /\ script' = TRUE
    /\ tests' = NotRun /\ echoed' = FALSE
    /\ UNCHANGED <<containers, raising, todo, code, mishaps>>

\* ToolError when docker fails, and the caller may go on; after an exception,
\* which is not a ToolError, it closes the shell, script or no script.
StageScriptFails ==
    /\ MayRun /\ commands' = commands + 1
    /\ \/ UNCHANGED <<script, raising, mishaps>>
       \/ /\ script' \in BOOLEAN /\ raising' = TRUE
          /\ mishaps' = mishaps \cup {"stage"}
    /\ UNCHANGED <<pc, containers, todo, code, verdict>>

\* Mutant: the exit status of the whole script is returned.
BugOfficialExitCode(before, marker, after, status) == status

\* _official_exit_code: the last status reported in what the script printed, its
\* error output put after the rest, or 2.  The report of the script itself is
\* only one of the lines that are looked through.
OfficialExitCode(before, marker, after, status) ==
    IF after # NotRun THEN after
    ELSE IF marker # NotRun THEN marker
    ELSE IF before # NotRun THEN before
    ELSE 2

\* The script runs the tests, prints their exit status (if it has the line
\* after which to print it) and goes on to its cleanup, whose status is that
\* of the whole.  It may be killed, or docker fail, at any point of this.  The
\* tests may print a line of the same form, before it or as error output.
ScriptReturns ==
    /\ pc = "evaluate" /\ pc' = "unstage"
    /\ \E result, before, marker, after \in Results, status \in {0, 1} :
           /\ marker \in {result, NotRun}
           /\ tests' = result
           /\ echoed' = (before # NotRun \/ after # NotRun)
           /\ code' = OfficialExitCode(before, marker, after, status)
    /\ UNCHANGED <<docker, raising, todo, commands, mishaps>>

\* Mutant: the return on a timeout does not pass through finally.
BugScriptTimesOut ==
    /\ pc = "evaluate" /\ pc' = "open"
    /\ tests' \in Results /\ code' = 124
    /\ UNCHANGED <<docker, echoed, raising, todo, commands, mishaps>>

\* The exec, or the git commands before it, time out.
ScriptTimesOut ==
    /\ pc = "evaluate" /\ pc' = "unstage"
    /\ tests' \in Results /\ code' = 124
    /\ UNCHANGED <<docker, echoed, raising, todo, commands, mishaps>>

\* Anything else raised there leaves through the finally clause.
ScriptRaises ==
    /\ pc = "evaluate" /\ pc' = "unstage" /\ raising' = TRUE
    /\ UNCHANGED <<docker, todo, code, verdict, commands, mishaps>>

UnstageScript ==
    /\ pc = "unstage" /\ pc' = "open" /\ script' = FALSE
    /\ UNCHANGED <<containers, raising, todo, code, verdict, commands, mishaps>>

\* The exit status of the removal is not looked at; an exception replaces
\* what run was about to return.
UnstageScriptFails ==
    /\ pc = "unstage" /\ pc' = "open"
    /\ \/ UNCHANGED <<script, raising>>
       \/ script' \in BOOLEAN /\ raising' = TRUE
    /\ mishaps' = mishaps \cup {"unstage"}
    /\ UNCHANGED <<containers, todo, code, verdict, commands>>

-----------------------------------------------------------------------------
(* close.                                                                  *)

\* The caller closes the shell when it is done, and after an exception.
BeginClose ==
    /\ pc = "open" /\ pc' = "close"
    /\ UNCHANGED <<docker, raising, todo, code, verdict, commands, mishaps>>

CloseTask ==
    /\ pc = "close"
    /\ pc' = IF raising THEN "raised" ELSE "closed"
    /\ containers' = containers \ {"task"} /\ script' = FALSE
    /\ UNCHANGED <<raising, todo, code, verdict, commands, mishaps>>

CloseTaskFails ==
    /\ pc = "close"
    /\ \/ /\ pc' = IF raising THEN "raised" ELSE "closed"
          /\ UNCHANGED containers
       \/ /\ pc' = "raised"
          /\ containers' \in {containers, containers \ {"task"}}
    /\ mishaps' = mishaps \cup {"rm task"}
    /\ UNCHANGED <<script, raising, todo, code, verdict, commands>>

-----------------------------------------------------------------------------
Open ==
    \/ RefuseImage \/ CreateSeed \/ CreateSeedFails \/ StartSeed
    \/ ListArtifacts \/ CopyArtifact \/ ArtifactsCopied \/ SeedingFails
    \/ RemoveSeed \/ RemoveSeedFails
    \/ CreateTask \/ CreateTaskFails \/ StartTask \/ StartTaskFails

Run ==
    \/ CommandReturns \/ ScriptReturns \/ ScriptTimesOut \/ ScriptRaises
    \/ UnstageScript \/ UnstageScriptFails

Close == BeginClose \/ CloseTask \/ CloseTaskFails

Next ==
    \/ Open \/ RunOnHost \/ RunInContainer \/ StageScript \/ StageScriptFails
    \/ Run \/ Close

Spec == Init /\ [][Next]_vars

-----------------------------------------------------------------------------
(* Properties.                                                             *)

Ended == pc \in {"raised", "closed"}

\* Type invariant.
TypeOK ==
    /\ pc \in {"new", "start seed", "list", "copy", "rm seed", "create",
               "start", "open", "agent", "evaluate", "unstage", "close",
               "raised", "closed"}
    /\ containers \subseteq {"seed", "task"}
    /\ script \in BOOLEAN /\ raising \in BOOLEAN
    /\ todo \in 0 .. MaxArtifacts
    /\ code \in Codes /\ tests \in Results /\ echoed \in BOOLEAN
    /\ commands \in 0 .. MaxCommands /\ mishaps \subseteq Calls

\* A shell leaves a container behind only when its own removal failed, or
\* when an exception cut off the creation or the start of the task container;
\* no failure of the seeding does it.
NothingLeftBehind ==
    Ended =>
        /\ "seed" \in containers => "rm seed" \in mishaps
        /\ "task" \in containers => mishaps \cap {"create", "start", "rm task"} # {}

\* The agent never works beside the evaluation script, even after evaluations
\* that timed out or raised, unless its removal failed (the finally of run).
ScriptHidden ==
    pc = "agent" /\ script => "unstage" \in mishaps

\* An evaluation is a success only if the test command itself came to an end
\* with status 0, whatever the cleanup after it did, and whenever it was killed,
\* unless the tests themselves printed a line of the form of the script's
\* report (_record_test_exit_code, _official_exit_code).
VerdictIsTests ==
    pc = "unstage" /\ ~raising /\ code = 0 => tests = 0 \/ echoed

=============================================================================
