------------------------------ MODULE AgentLoop ------------------------------
(***************************************************************************)
(* One coding attempt: CodingAgent.run of contextrepair/agent/base.py.     *)
(* The model answers with one action a step; the loop counts tokens,       *)
(* blocks repeated actions, locks exploration late in the attempt, and     *)
(* refuses to finish while no edit it tried has been reported as applied.  *)
(*                                                                         *)
(* An action of the model is a model value with a kind; two actions are    *)
(* the same exactly when their JSON signature is.  A tool either works,    *)
(* fails with an error the loop reports to the model, or raises what the   *)
(* loop does not catch (OSError, TimeoutExpired) and aborts the attempt.   *)
(***************************************************************************)
EXTENDS Integers, FiniteSets

CONSTANTS
    Reads, Searches, Edits, Finals, Unknowns,   \* the actions, by kind
    Preloaded,      \* reads that overlap a region given as recovery evidence
    MaxSteps,       \* agent.max_steps
    MaxRepairs,     \* agent.max_json_repairs
    AttemptBudget,  \* attempt_token_budget
    MaxCompletion,  \* model.max_tokens
    MaxPrompt,      \* bound: largest prompt explored
    MaxEstimate,    \* bound: largest estimate of a reply without usage
    Margin,         \* 64 in the code: tokens kept aside for the prompt's growth
    MinCompletion,  \* 128 in the code: the smallest reply worth asking for
    NoAction        \* the empty dict before a reply is parsed

Actions == Reads \cup Searches \cup Edits \cup Finals \cup Unknowns

ASSUME AgentLoopAssumption ==
    /\ MaxSteps \in Nat \ {0} /\ MaxRepairs \in Nat
    /\ AttemptBudget \in Nat \ {0} /\ MaxCompletion \in Nat \ {0}
    /\ MaxPrompt \in Nat \ {0} /\ Margin \in Nat
    /\ MaxEstimate \in Nat \ {0}
    /\ MinCompletion \in Nat \ {0}
    /\ Preloaded \subseteq Reads /\ NoAction \notin Actions
    /\ Edits \cap (Reads \cup Searches \cup Finals \cup Unknowns) = {}
    /\ Finals \cap (Reads \cup Searches \cup Unknowns) = {}
    /\ Reads \cap (Searches \cup Unknowns) = {}
    /\ Searches \cap Unknowns = {}

\* max(1, int(max_steps * 0.72))
LockStep == IF (72 * MaxSteps) \div 100 > 1 THEN (72 * MaxSteps) \div 100 ELSE 1

VARIABLES
    pc,             \* where the loop stands
    step,           \* step_index
    used,           \* tokens spent by this attempt
    lastInput,      \* input tokens of the latest call in the log
    warned,         \* budget_warning_sent
    locked,         \* exploration_locked
    editApplied,    \* edit_applied
    editAttempted,  \* edit_attempted
    correction,     \* correction_read_available
    repairs,        \* json_repairs_remaining
    seen,           \* the keys of action_counts
    action,         \* the parsed action of this step
    done,           \* a final action was accepted
    calls,          \* ghost: calls of the model
    estimated,      \* ghost: a call came back without usage
    executed,       \* ghost: the actions a tool really carried out
    execs,          \* ghost: how many times a tool was called
    lockedReads,    \* ghost: correction reads carried out
    looks,          \* ghost: looks at the repository when the lock is due
    failedEdits     \* ghost: edits that failed

flags == <<locked, editApplied, editAttempted, correction>>
tokens == <<used, lastInput, warned, calls, estimated>>
ghosts == <<executed, execs, lockedReads, looks, failedEdits>>
vars == <<pc, step, tokens, flags, repairs, seen, action, done, ghosts>>

\* Before the first call the log may end with a call of an earlier phase.
Init ==
    /\ pc = "check" /\ step = 0
    /\ used = 0 /\ lastInput \in 0 .. MaxPrompt /\ warned = FALSE
    /\ calls = 0 /\ estimated = FALSE
    /\ locked = FALSE /\ editApplied = FALSE
    /\ editAttempted = FALSE /\ correction = FALSE
    /\ repairs = MaxRepairs /\ seen = {} /\ action = NoAction /\ done = FALSE
    /\ executed = {} /\ execs = 0 /\ lockedReads = 0 /\ looks = 0
    /\ failedEdits = 0

Least(a, b) == IF a < b THEN a ELSE b

\* Mutant: the limit ignores what the attempt has left.
BugCompletionLimit == MaxCompletion

\* completion_limit: a tenth more than the last prompt, and a margin, are kept
\* for the next prompt.
CompletionLimit ==
    Least(MaxCompletion,
          (AttemptBudget - used) - (11 * lastInput) \div 10 - Margin)

\* repair_limit: no allowance for the prompt.
RepairLimit == Least(MaxCompletion, (AttemptBudget - used) - Margin)

-----------------------------------------------------------------------------
(* The head of the loop.                                                   *)

Stop ==
    /\ pc = "check" /\ (step = MaxSteps \/ used >= AttemptBudget)
    /\ pc' = "test"
    /\ UNCHANGED <<step, tokens, flags, repairs, seen, action, done, ghosts>>

\* Mutant: the lock is set only in the very last step.
BugLocks == step = MaxSteps - 1 /\ ~editApplied

\* The lock is due once the attempt is in its last quarter without an edit.
Locks == step >= LockStep /\ ~editApplied

\* The warning, the lock, and a last look at what the budget still allows.
BeginStep ==
    /\ pc = "check" /\ step < MaxSteps /\ used < AttemptBudget
    /\ warned' = (warned \/ used >= (3 * AttemptBudget) \div 4)
    /\ locked' = (locked \/ Locks)
    /\ action' = NoAction
    /\ pc' = IF CompletionLimit < MinCompletion THEN "test" ELSE "call"
    /\ UNCHANGED <<step, used, lastInput, calls, estimated, editApplied,
                   editAttempted, correction, repairs, seen, done, ghosts>>

-----------------------------------------------------------------------------
(* The model.                                                              *)

\* The prompt only grows within an attempt; an estimate of it may be anything.
Prompts == (IF calls = 0 \/ estimated THEN 1 ELSE lastInput) .. MaxPrompt

\* A reply whose usage is reported keeps to the limit it was asked with; without
\* usage a quarter of the characters is counted, which no limit bounds.  The
\* shortest and the longest reply are explored.
Spend(limit) ==
    /\ calls' = calls + 1
    /\ \/ /\ \E p \in Prompts, o \in {1, limit} :
                 used' = used + p + o /\ lastInput' = p
          /\ UNCHANGED estimated
       \/ /\ \E p \in 1 .. MaxPrompt, o \in {1, MaxEstimate} :
                 used' = used + p + o /\ lastInput' = p
          /\ estimated' = TRUE

Generate ==
    /\ pc = "call" /\ pc' = "parse"
    /\ Spend(CompletionLimit)
    /\ UNCHANGED <<step, warned, flags, repairs, seen, action, done, ghosts>>

\* Mutant: the loop tries again instead of leaving.
BugGenerateRetries ==
    /\ pc = "call" /\ pc' = "check"
    /\ UNCHANGED <<step, tokens, flags, repairs, seen, action, done, ghosts>>

\* BudgetExceeded or ModelError ends the loop, before or after the usage of
\* the call was recorded.
GenerateStops ==
    /\ pc = "call" /\ pc' = "test"
    /\ \/ UNCHANGED <<used, lastInput, calls, estimated>>
       \/ Spend(CompletionLimit)
    /\ UNCHANGED <<step, warned, flags, repairs, seen, action, done, ghosts>>

\* The end of a step: the observation is recorded, the next step begins.
NextStep == pc' = "check" /\ step' = step + 1

Parse ==
    /\ pc \in {"parse", "reparse"} /\ pc' = "dispatch"
    /\ \E a \in Actions : action' = a
    /\ UNCHANGED <<step, tokens, flags, repairs, seen, done, ghosts>>

\* No valid JSON, and no repair: an action error is all the model hears.
ParseFails ==
    /\ \/ pc = "parse" /\ repairs = 0
       \/ pc = "reparse"
    /\ NextStep
    /\ UNCHANGED <<tokens, flags, repairs, seen, action, done, ghosts>>

\* Mutant: repairs are asked for without end.
BugAskRepairAlways ==
    /\ pc = "parse" /\ repairs' = repairs - 1
    /\ IF RepairLimit < MinCompletion THEN NextStep
       ELSE pc' = "repair" /\ UNCHANGED step
    /\ UNCHANGED <<tokens, flags, seen, action, done, ghosts>>

\* One repair fewer, then the call if the attempt can pay for it.
AskRepair ==
    /\ pc = "parse" /\ repairs > 0
    /\ repairs' = repairs - 1
    /\ IF RepairLimit < MinCompletion THEN NextStep
       ELSE pc' = "repair" /\ UNCHANGED step
    /\ UNCHANGED <<tokens, flags, seen, action, done, ghosts>>

Repair ==
    /\ pc = "repair" /\ pc' = "reparse"
    /\ Spend(RepairLimit)
    /\ UNCHANGED <<step, warned, flags, repairs, seen, action, done, ghosts>>

\* In a repair the same exceptions are only reported to the model.
RepairStops ==
    /\ pc = "repair" /\ NextStep
    /\ \/ UNCHANGED <<used, lastInput, calls, estimated>>
       \/ Spend(RepairLimit)
    /\ UNCHANGED <<warned, flags, repairs, seen, action, done, ghosts>>

-----------------------------------------------------------------------------
(* The dispatch of a parsed action, one branch of the code each.           *)

\* Every dispatched action is counted, whatever becomes of it.
Dispatch ==
    /\ pc = "dispatch"
    /\ seen' = seen \cup {action}
    /\ UNCHANGED <<tokens, repairs, action>>

Fresh == action \notin seen

Carried == executed' = executed \cup {action} /\ execs' = execs + 1

\* The lock is due and no edit was reported as applied: what is carried out now
\* is a look that the lock is there to prevent.
Look ==
    looks' = looks + (IF step >= LockStep /\ ~editApplied THEN 1 ELSE 0)

DuplicateBlocked ==
    /\ Dispatch /\ ~Fresh /\ NextStep
    /\ locked' = (locked \/ ~editApplied)
    /\ UNCHANGED <<editApplied, editAttempted, correction, done, ghosts>>

\* Mutant: the grant outlives the read.
BugCorrectionRead ==
    /\ Dispatch /\ Fresh /\ NextStep
    /\ locked /\ ~editApplied /\ action \in Reads /\ correction
    /\ Carried /\ Look /\ lockedReads' = lockedReads + 1
    /\ UNCHANGED <<flags, done, failedEdits>>

\* One read is allowed after a failed edit.  A read that raises is reported
\* and leaves the grant.
CorrectionRead ==
    /\ Dispatch /\ Fresh /\ NextStep
    /\ locked /\ ~editApplied /\ action \in Reads /\ correction
    /\ \/ /\ correction' = FALSE /\ Carried
          /\ Look /\ lockedReads' = lockedReads + 1
       \/ UNCHANGED <<correction, executed, execs, looks, lockedReads>>
    /\ UNCHANGED <<locked, editApplied, editAttempted, done,
                   failedEdits>>

LockRejects ==
    /\ Dispatch /\ Fresh /\ NextStep
    /\ locked /\ ~editApplied
    /\ action \notin Edits \cup Finals
    /\ ~(action \in Reads /\ correction)
    /\ UNCHANGED <<flags, done, ghosts>>

FinalRejected ==
    /\ Dispatch /\ Fresh /\ NextStep
    /\ action \in Finals /\ editAttempted /\ ~editApplied
    /\ UNCHANGED <<flags, done, ghosts>>

AcceptFinal ==
    /\ Dispatch /\ Fresh /\ action \in Finals
    /\ ~(editAttempted /\ ~editApplied)
    /\ done' = TRUE /\ pc' = "test" /\ UNCHANGED step
    /\ Carried
    /\ UNCHANGED <<flags, lockedReads, looks, failedEdits>>

Unlocked == ~(locked /\ ~editApplied)

\* Mutant: the guard against repeated actions is gone.
BugExplore ==
    /\ Dispatch /\ NextStep
    /\ Unlocked /\ action \in (Reads \cup Searches)
    /\ Carried /\ Look
    /\ UNCHANGED <<flags, done, lockedReads, failedEdits>>

\* list, search, read, shell; a preloaded read is answered without the tool,
\* and a tool that is handed the action may raise before it does anything.
Explore ==
    /\ Dispatch /\ Fresh /\ NextStep
    /\ Unlocked /\ action \in Reads \cup Searches
    /\ \/ action \notin Preloaded /\ Carried /\ Look
       \/ UNCHANGED <<executed, execs, looks>>
    /\ UNCHANGED <<flags, done, lockedReads, failedEdits>>

UnknownAction ==
    /\ Dispatch /\ Fresh /\ NextStep
    /\ Unlocked /\ action \in Unknowns
    /\ UNCHANGED <<flags, done, ghosts>>

\* The tool reports success, and that is all the loop goes by.  The file need not
\* have changed: write compares its text with the file's after newline
\* translation, so that a file with CRLF ends can be written as it is.
EditLands ==
    /\ Dispatch /\ Fresh /\ NextStep /\ action \in Edits
    /\ editAttempted' = TRUE /\ editApplied' = TRUE /\ correction' = FALSE
    /\ Carried
    /\ UNCHANGED <<locked, done, lockedReads, looks, failedEdits>>

\* A ToolError of the editor, or a missing argument.  Nor does this mean that
\* nothing changed: text that cannot be encoded leaves the file empty, and a
\* patch is judged by the files it does not remove.
EditFails ==
    /\ Dispatch /\ Fresh /\ NextStep /\ action \in Edits
    /\ editAttempted' = TRUE /\ correction' = TRUE
    /\ Carried \/ UNCHANGED <<executed, execs>>
    /\ failedEdits' = failedEdits + 1
    /\ UNCHANGED <<locked, editApplied, done, lockedReads, looks>>

-----------------------------------------------------------------------------
(* The end.                                                                *)

\* The official test, then the diff; whatever ended the loop.
RunTest ==
    /\ pc = "test" /\ pc' = "ended"
    /\ UNCHANGED <<step, tokens, flags, repairs, seen, action, done, ghosts>>

\* What the loop does not catch: OSError and TimeoutExpired of a tool, an
\* error of the connection that is not a ModelError, a failure of git, a
\* trajectory that cannot be written.
Abort ==
    /\ pc \notin {"ended", "aborted"}
    /\ pc' = "aborted"
    /\ UNCHANGED <<step, tokens, flags, repairs, seen, action, done, ghosts>>

LoopStep ==
    \/ Stop \/ BeginStep \/ Generate \/ GenerateStops
    \/ Parse \/ ParseFails \/ AskRepair \/ Repair \/ RepairStops
    \/ DuplicateBlocked \/ CorrectionRead \/ LockRejects \/ FinalRejected
    \/ AcceptFinal \/ Explore \/ UnknownAction \/ EditLands \/ EditFails
    \/ RunTest

Next == LoopStep \/ Abort

\* The loop runs on by itself: nothing in it waits for another process.
Spec == Init /\ [][Next]_vars /\ WF_vars(LoopStep)

-----------------------------------------------------------------------------
(* Properties.                                                             *)

\* Type invariant.
TypeOK ==
    /\ pc \in {"check", "call", "parse", "repair", "reparse", "dispatch",
               "test", "ended", "aborted"}
    /\ step \in 0 .. MaxSteps /\ used \in Nat /\ lastInput \in 0 .. MaxPrompt
    /\ warned \in BOOLEAN /\ locked \in BOOLEAN /\ editApplied \in BOOLEAN
    /\ editAttempted \in BOOLEAN /\ correction \in BOOLEAN
    /\ done \in BOOLEAN /\ estimated \in BOOLEAN
    /\ repairs \in 0 .. MaxRepairs /\ seen \subseteq Actions
    /\ action \in Actions \cup {NoAction}
    /\ calls \in Nat /\ executed \subseteq Actions /\ execs \in Nat
    /\ lockedReads \in Nat /\ looks \in Nat /\ failedEdits \in Nat

\* An attempt overruns its token budget by less than one prompt, whatever the
\* replies, the repairs and the growth of the prompt, and by one reply more if
\* the usage of a call was missing (completion_limit, repair_limit and the test
\* at the head of the loop).
OvershootBounded ==
    used > AttemptBudget =>
        used <= AttemptBudget + MaxPrompt - Margin
                + (IF estimated THEN MaxEstimate ELSE 0)

\* No tool is called twice for the same action: neither the correction read
\* nor a retry after an error goes round the duplicate test.
ExecutedOnce == execs = Cardinality(executed)

\* A read gets through the exploration lock only against an edit that failed,
\* each failed edit paying for one read at most.
CorrectionReadsEarned == lockedReads <= failedEdits

\* From the lock step on, and until an edit is reported as applied, the attempt
\* looks at the repository at most once for each edit that failed, whatever
\* repairs, errors and duplicates come between (the lock is set at the head of
\* a step, set by duplicates, opened by failed edits and lifted by edits).
LockInForce == looks <= failedEdits

\* Every attempt comes to its official test or is aborted.
AttemptEnds == <>(pc \in {"ended", "aborted"})
=============================================================================
