--------------------------- MODULE AgentLoopProofs ---------------------------
(***************************************************************************)
(* Proofs about AgentLoop, for every set of actions, every number of steps *)
(* and repairs, and every budget: an attempt overruns its token budget by  *)
(* less than one prompt, and by one reply if usage was missing, calls no   *)
(* tool twice for one action, and looks no further at the repository when  *)
(* the lock is due than its failed edits allow.                            *)
(***************************************************************************)
EXTENDS AgentLoop, FiniteSetTheorems, TLAPS

-----------------------------------------------------------------------------
(* Types.                                                                  *)

\* What a step that has begun may rely on: there is room for it, the limits it
\* was granted still hold, the action it dispatches was parsed, and it is not
\* past the final action.
InStep ==
    /\ pc \in {"call", "parse", "repair", "reparse", "dispatch"} => step < MaxSteps
    /\ pc = "call" => CompletionLimit >= MinCompletion
    /\ pc = "repair" => RepairLimit >= MinCompletion
    /\ pc = "dispatch" => action \in Actions
    /\ done => pc \in {"test", "ended", "aborted"}

TypeInv == TypeOK /\ InStep

\* The allowance for the growth of the prompt is a number.
LEMMA Allowance ==
    ASSUME NEW n \in Nat
    PROVE  (11 * n) \div 10 \in Nat
  BY SMT

\* Both limits of a reply are integers, at most what the attempt has left.
LEMMA Limits ==
    ASSUME TypeOK
    PROVE  /\ CompletionLimit \in Int /\ RepairLimit \in Int
           /\ CompletionLimit <= AttemptBudget - used - Margin
           /\ RepairLimit <= AttemptBudget - used - Margin
  <1>1. lastInput \in Nat /\ used \in Nat
    BY AgentLoopAssumption DEF TypeOK
  <1>2. (11 * lastInput) \div 10 \in Nat
    BY <1>1, Allowance
  <1> QED
    BY <1>1, <1>2, AgentLoopAssumption DEF CompletionLimit, RepairLimit, Least

\* A call adds to what is spent its prompt and a reply within its limit, or an
\* estimate, of which the attempt keeps the mark.
LEMMA Spending ==
    ASSUME TypeOK, NEW limit \in Nat \ {0}, Spend(limit)
    PROVE  /\ used' \in Nat /\ lastInput' \in 0 .. MaxPrompt
           /\ calls' \in Nat /\ estimated' \in BOOLEAN
           /\ \/ used' <= used + MaxPrompt + limit /\ estimated' = estimated
              \/ used' <= used + MaxPrompt + MaxEstimate /\ estimated' = TRUE
  <1>1. lastInput \in Nat /\ used \in Nat /\ MaxPrompt \in Nat /\ calls \in Nat
        /\ MaxEstimate \in Nat
    BY AgentLoopAssumption DEF TypeOK
  <1>2. calls' = calls + 1
    BY DEF Spend
  <1>3. CASE /\ \E p \in Prompts, o \in {1, limit} :
                   used' = used + p + o /\ lastInput' = p
             /\ UNCHANGED estimated
    <2>1. PICK p \in Prompts, o \in {1, limit} :
              used' = used + p + o /\ lastInput' = p
      BY <1>3
    <2>2. p \in Nat /\ p <= MaxPrompt
      BY <1>1 DEF Prompts
    <2> QED
      BY <1>1, <1>2, <1>3, <2>1, <2>2 DEF TypeOK
  <1>4. CASE /\ \E p \in 1 .. MaxPrompt, o \in {1, MaxEstimate} :
                   used' = used + p + o /\ lastInput' = p
             /\ estimated' = TRUE
    <2>1. PICK p \in 1 .. MaxPrompt, o \in {1, MaxEstimate} :
              used' = used + p + o /\ lastInput' = p
      BY <1>4
    <2>2. p \in Nat /\ p <= MaxPrompt /\ 1 <= p /\ o \in Nat /\ o <= MaxEstimate
      BY <1>1, <2>1, AgentLoopAssumption
    <2>3. used' \in Nat /\ used' <= used + MaxPrompt + MaxEstimate
      BY <1>1, <2>1, <2>2
    <2>4. lastInput' \in 0 .. MaxPrompt /\ calls' \in Nat
      BY <1>1, <1>2, <2>1, <2>2
    <2>5. estimated' = TRUE /\ estimated' \in BOOLEAN
      BY <1>4
    <2> QED
      BY <2>3, <2>4, <2>5
  <1> QED
    BY <1>3, <1>4 DEF Spend

LEMMA InitTypeInv == Init => TypeInv
  <1> SUFFICES ASSUME Init PROVE TypeInv
    OBVIOUS
  <1>1. warned \in BOOLEAN /\ locked \in BOOLEAN /\ editApplied \in BOOLEAN
        /\ editAttempted \in BOOLEAN /\ correction \in BOOLEAN
        /\ done \in BOOLEAN /\ estimated \in BOOLEAN
    BY DEF Init
  <1>2. TypeOK
    BY <1>1, AgentLoopAssumption DEF Init, TypeOK
  <1>3. InStep
    BY DEF Init, InStep
  <1> QED
    BY <1>2, <1>3 DEF TypeInv

\* A call in a step keeps the types, whatever its limit, if that leaves room.
LEMMA CallTypes ==
    ASSUME TypeInv, NEW limit \in Nat \ {0}, Spend(limit),
           UNCHANGED <<warned, flags, repairs, seen, action, done, ghosts>>,
           \/ pc' \in {"parse", "reparse"} /\ step' = step
                  /\ step < MaxSteps /\ ~done
           \/ pc' = "test" /\ step' = step
           \/ NextStep /\ step < MaxSteps /\ ~done
    PROVE  TypeInv'
  <1>1. used' \in Nat /\ lastInput' \in 0 .. MaxPrompt
        /\ calls' \in Nat /\ estimated' \in BOOLEAN
    BY Spending DEF TypeInv
  <1>2. TypeOK'
    BY <1>1, AgentLoopAssumption
       DEF TypeInv, TypeOK, flags, ghosts, NextStep
  <1>3. InStep'
    BY AgentLoopAssumption DEF TypeInv, TypeOK, InStep, NextStep
  <1> QED
    BY <1>2, <1>3 DEF TypeInv

\* Every step keeps the types and what a step that has begun relies on.
LEMMA NextTypeInv ==
    ASSUME TypeInv, [Next]_vars
    PROVE  TypeInv'
  <1> USE AgentLoopAssumption DEF TypeInv
  <1>1. CASE Stop
    BY <1>1 DEF Stop, TypeOK, InStep, tokens, flags, ghosts
  <1>2. CASE BeginStep
    <2>1. warned' \in BOOLEAN /\ locked' \in BOOLEAN
      BY <1>2 DEF BeginStep, TypeOK, Locks
    <2>2. TypeOK'
      BY <1>2, <2>1 DEF BeginStep, TypeOK, ghosts
    <2>3. CompletionLimit \in Int /\ CompletionLimit' = CompletionLimit
      BY <1>2, Limits DEF BeginStep, CompletionLimit, Least
    <2>4. InStep'
      BY <1>2, <2>3 DEF BeginStep, InStep, TypeOK
    <2> QED
      BY <2>2, <2>4
  <1>3. CASE Generate
    <2>1. CompletionLimit \in Nat \ {0}
      BY <1>3, Limits DEF Generate, InStep
    <2> QED
      BY <1>3, <2>1, CallTypes DEF Generate, InStep
  <1>4. CASE GenerateStops
    <2>1. CompletionLimit \in Nat \ {0}
      BY <1>4, Limits DEF GenerateStops, InStep
    <2>2. CASE UNCHANGED <<used, lastInput, calls, estimated>>
      BY <1>4, <2>2 DEF GenerateStops, TypeOK, InStep, flags, ghosts
    <2>3. CASE Spend(CompletionLimit)
      BY <1>4, <2>1, <2>3, CallTypes DEF GenerateStops
    <2> QED
      BY <1>4, <2>2, <2>3 DEF GenerateStops
  <1>5. CASE Parse
    BY <1>5 DEF Parse, TypeOK, InStep, tokens, flags, ghosts
  <1>6. CASE ParseFails
    BY <1>6 DEF ParseFails, NextStep, TypeOK, InStep, tokens, flags, ghosts
  <1>7. CASE AskRepair
    <2>1. TypeOK'
      BY <1>7 DEF AskRepair, NextStep, TypeOK, InStep, tokens, flags, ghosts
    <2>2. RepairLimit \in Int /\ RepairLimit' = RepairLimit
      BY <1>7, Limits DEF AskRepair, RepairLimit, Least, tokens
    <2>3. InStep'
      BY <1>7, <2>2 DEF AskRepair, NextStep, InStep, TypeOK
    <2> QED
      BY <2>1, <2>3
  <1>8. CASE Repair
    <2>1. RepairLimit \in Nat \ {0}
      BY <1>8, Limits DEF Repair, InStep
    <2> QED
      BY <1>8, <2>1, CallTypes DEF Repair, InStep
  <1>9. CASE RepairStops
    <2>1. RepairLimit \in Nat \ {0}
      BY <1>9, Limits DEF RepairStops, InStep
    <2>2. CASE UNCHANGED <<used, lastInput, calls, estimated>>
      BY <1>9, <2>2
         DEF RepairStops, NextStep, TypeOK, InStep, flags, ghosts
    <2>3. CASE Spend(RepairLimit)
      BY <1>9, <2>1, <2>3, CallTypes DEF RepairStops, InStep
    <2> QED
      BY <1>9, <2>2, <2>3 DEF RepairStops
  <1>10. CASE \/ DuplicateBlocked \/ LockRejects \/ FinalRejected
              \/ UnknownAction
    <2>1. /\ Dispatch /\ NextStep /\ step < MaxSteps /\ action \in Actions
          /\ UNCHANGED <<editApplied, editAttempted, correction, done, ghosts>>
      BY <1>10 DEF DuplicateBlocked, LockRejects, FinalRejected, UnknownAction,
                   Dispatch, InStep, flags
    <2>3. locked' \in BOOLEAN
      BY <1>10 DEF DuplicateBlocked, LockRejects, FinalRejected, UnknownAction,
                   TypeOK, flags
    <2>4. TypeOK'
      BY <2>1, <2>3 DEF Dispatch, NextStep, TypeOK, tokens, ghosts
    <2>2. InStep'
      BY <1>10 DEF DuplicateBlocked, LockRejects, FinalRejected, UnknownAction,
                   Dispatch, NextStep, InStep
    <2> QED
      BY <2>2, <2>4
  <1>11. CASE CorrectionRead \/ Explore
    <2>1. action \in Actions
      BY <1>11 DEF CorrectionRead, Explore, Dispatch, InStep
    <2>2. executed' \subseteq Actions /\ execs' \in Nat /\ lockedReads' \in Nat
          /\ looks' \in Nat
      BY <1>11, <2>1 DEF CorrectionRead, Explore, Carried, Look, TypeOK
    <2>5. /\ Dispatch /\ NextStep /\ step < MaxSteps
          /\ UNCHANGED <<locked, editApplied, editAttempted, done, failedEdits>>
      BY <1>11 DEF CorrectionRead, Explore, Dispatch, InStep, flags
    <2>6. correction' \in BOOLEAN
      BY <1>11 DEF CorrectionRead, Explore, TypeOK, flags
    <2>3. TypeOK'
      BY <2>1, <2>2, <2>5, <2>6 DEF Dispatch, NextStep, TypeOK, tokens
    <2>4. InStep'
      BY <1>11 DEF CorrectionRead, Explore, Dispatch, NextStep, InStep
    <2> QED
      BY <2>3, <2>4
  <1>12. CASE AcceptFinal
    <2>1. action \in Actions
      BY <1>12 DEF AcceptFinal, Dispatch, InStep
    <2>2. TypeOK'
      BY <1>12, <2>1
         DEF AcceptFinal, Carried, Dispatch, TypeOK, tokens, flags
    <2>3. InStep'
      BY <1>12 DEF AcceptFinal, InStep
    <2> QED
      BY <2>2, <2>3
  <1>13. CASE EditLands \/ EditFails
    <2>1. action \in Actions
      BY <1>13 DEF EditLands, EditFails, Dispatch, InStep
    <2>2. /\ Dispatch /\ NextStep
          /\ Carried \/ UNCHANGED <<executed, execs>>
          /\ UNCHANGED <<locked, done, lockedReads, looks>>
          /\ failedEdits' = failedEdits + 1 \/ UNCHANGED failedEdits
      BY <1>13, Zenon DEF EditLands, EditFails
    <2>4. editAttempted' \in BOOLEAN /\ editApplied' \in BOOLEAN
          /\ correction' \in BOOLEAN
      BY <1>13 DEF EditLands, EditFails, TypeOK
    <2>5. step < MaxSteps /\ ~done
      BY <2>2 DEF Dispatch, InStep
    <2>6. executed' \subseteq Actions /\ execs' \in Nat /\ failedEdits' \in Nat
      BY <2>1, <2>2 DEF Carried, TypeOK
    <2>7. TypeOK'
      BY <2>1, <2>2, <2>4, <2>5, <2>6
         DEF Dispatch, NextStep, TypeOK, tokens
    <2>8. InStep'
      BY <2>2, <2>5 DEF NextStep, InStep
    <2> QED
      BY <2>7, <2>8
  <1>14. CASE RunTest \/ Abort
    BY <1>14 DEF RunTest, Abort, TypeOK, InStep, tokens, flags, ghosts
  <1>15. CASE UNCHANGED vars
    <2>1. TypeOK'
      BY <1>15 DEF vars, TypeOK, tokens, flags, ghosts
    <2>2. InStep'
      BY <1>15 DEF vars, InStep, CompletionLimit, RepairLimit, Least,
                   tokens, flags, ghosts
    <2> QED
      BY <2>1, <2>2
  <1> QED
    BY <1>1, <1>2, <1>3, <1>4, <1>5, <1>6, <1>7, <1>8, <1>9, <1>10, <1>11,
       <1>12, <1>13, <1>14, <1>15 DEF Next, LoopStep

-----------------------------------------------------------------------------
(* The token budget of the attempt.                                        *)

\* Tokens are spent by two calls only, each asked with a limit that its step
\* tested.
LEMMA Spenders ==
    ASSUME [Next]_vars
    PROVE  \/ used' = used /\ estimated' = estimated
           \/ pc = "call" /\ Spend(CompletionLimit)
           \/ pc = "repair" /\ Spend(RepairLimit)
  BY DEF Next, LoopStep, vars, tokens, Stop, BeginStep, Generate, GenerateStops,
         Parse, ParseFails, AskRepair, Repair, RepairStops, Dispatch,
         DuplicateBlocked, CorrectionRead, LockRejects, FinalRejected,
         AcceptFinal, Explore, UnknownAction, EditLands, EditFails, RunTest,
         Abort

\* Every step keeps the bound: a call begins with room for its reply, so that
\* only its prompt, and an estimate in place of the reply, can pass the budget;
\* and no call begins beyond the budget.
LEMMA NextOvershoot ==
    ASSUME TypeInv, OvershootBounded, [Next]_vars
    PROVE  OvershootBounded'
  <1> USE AgentLoopAssumption
  <1>1. CASE used' = used /\ estimated' = estimated
    BY <1>1 DEF OvershootBounded
  <1>2. CASE pc = "call" /\ Spend(CompletionLimit)
    <2>1. CompletionLimit \in Nat \ {0}
          /\ CompletionLimit <= AttemptBudget - used - Margin
      BY <1>2, Limits DEF TypeInv, InStep
    <2>2. /\ used' \in Nat
          /\ \/ used' <= used + MaxPrompt + CompletionLimit
             \/ used' <= used + MaxPrompt + MaxEstimate /\ estimated' = TRUE
      BY <1>2, <2>1, Spending DEF TypeInv
    <2> QED
      BY <2>1, <2>2 DEF OvershootBounded, TypeInv, TypeOK
  <1>3. CASE pc = "repair" /\ Spend(RepairLimit)
    <2>1. RepairLimit \in Nat \ {0}
          /\ RepairLimit <= AttemptBudget - used - Margin
      BY <1>3, Limits DEF TypeInv, InStep
    <2>2. /\ used' \in Nat
          /\ \/ used' <= used + MaxPrompt + RepairLimit
             \/ used' <= used + MaxPrompt + MaxEstimate /\ estimated' = TRUE
      BY <1>3, <2>1, Spending DEF TypeInv
    <2> QED
      BY <2>1, <2>2 DEF OvershootBounded, TypeInv, TypeOK
  <1> QED
    BY <1>1, <1>2, <1>3, Spenders

-----------------------------------------------------------------------------
(* The lock.                                                               *)

\* The lock is in force in every part of a step, not only when the action is
\* dispatched, unless an edit was reported as applied.
Guarded ==
    pc \in {"call", "parse", "repair", "reparse", "dispatch"}
        /\ step >= LockStep => locked \/ editApplied

\* Every step keeps it: the head of a step sets the lock, nothing lifts it, and
\* the flag of an applied edit is never taken back.
LEMMA NextGuarded ==
    ASSUME TypeInv, Guarded, [Next]_vars
    PROVE  Guarded'
  <1> USE DEF Guarded
  <1>1. CASE BeginStep
    BY <1>1, Zenon DEF BeginStep, Locks
  <1>2. CASE \/ Stop \/ ParseFails \/ RunTest \/ Abort
    BY <1>2 DEF Stop, ParseFails, RunTest, Abort, NextStep
  <1>3. CASE \/ Generate \/ GenerateStops \/ Parse
             \/ AskRepair \/ Repair \/ RepairStops
    BY <1>3 DEF Generate, GenerateStops, Parse, AskRepair, Repair, RepairStops,
                NextStep, flags
  <1>4. CASE \/ DuplicateBlocked \/ CorrectionRead \/ LockRejects
             \/ FinalRejected \/ Explore \/ UnknownAction
    BY <1>4 DEF DuplicateBlocked, CorrectionRead, LockRejects, FinalRejected,
                Explore, UnknownAction, NextStep
  <1>5. CASE AcceptFinal
    BY <1>5 DEF AcceptFinal
  <1>6. CASE EditLands \/ EditFails
    BY <1>6, Zenon DEF EditLands, EditFails, NextStep
  <1>7. CASE UNCHANGED vars
    BY <1>7 DEF vars, flags
  <1> QED
    BY <1>1, <1>2, <1>3, <1>4, <1>5, <1>6, <1>7 DEF Next, LoopStep

\* Every look that the lock is there to prevent went through it as a correction
\* read.
LooksAreReads == looks <= lockedReads

\* Every step keeps it: where the lock is in force nothing else looks.
LEMMA NextLooks ==
    ASSUME TypeInv, Guarded, LooksAreReads, [Next]_vars
    PROVE  LooksAreReads'
  <1>1. looks \in Nat /\ lockedReads \in Nat
    BY DEF TypeInv, TypeOK
  <1>2. CASE UNCHANGED <<looks, lockedReads>>
    BY <1>2 DEF LooksAreReads
  <1>3. CASE CorrectionRead
    <2>1. \/ Look /\ lockedReads' = lockedReads + 1
          \/ UNCHANGED <<looks, lockedReads>>
      BY <1>3, Zenon DEF CorrectionRead
    <2>2. Look => looks' \in {looks, looks + 1}
      BY <1>1 DEF Look
    <2> QED
      BY <1>1, <2>1, <2>2 DEF LooksAreReads
  <1>4. CASE Explore
    <2>1. ~(step >= LockStep /\ ~editApplied)
      BY <1>4 DEF Explore, Dispatch, Unlocked, Guarded
    <2>2. looks' = looks /\ lockedReads' = lockedReads
      BY <1>1, <1>4, <2>1 DEF Explore, Look
    <2> QED
      BY <2>2 DEF LooksAreReads
  <1>5. CASE EditLands \/ EditFails
    <2>1. UNCHANGED <<looks, lockedReads>>
      BY <1>5, Zenon DEF EditLands, EditFails
    <2> QED
      BY <2>1 DEF LooksAreReads
  <1> QED
    BY <1>2, <1>3, <1>4, <1>5
       DEF Next, LoopStep, vars, ghosts, Stop, BeginStep, Generate,
           GenerateStops, Parse, ParseFails, AskRepair, Repair, RepairStops,
           DuplicateBlocked, LockRejects, FinalRejected, AcceptFinal,
           UnknownAction, RunTest, Abort

-----------------------------------------------------------------------------
(* Duplicates and correction reads.                                        *)

\* What was carried out has been counted, and finitely much was.
Once ==
    /\ executed \subseteq seen /\ IsFiniteSet(executed)
    /\ ExecutedOnce

\* A grant that is not used up is still owed by a failed edit.
Owed ==
    lockedReads + (IF correction THEN 1 ELSE 0) <= failedEdits

\* Only a dispatched action that was not seen before is carried out.
LEMMA Carriers ==
    ASSUME [Next]_vars
    PROVE  \/ UNCHANGED <<executed, execs>> /\ seen \subseteq seen'
           \/ Carried /\ Fresh /\ seen' = seen \cup {action}
  <1>1. CASE \/ DuplicateBlocked \/ CorrectionRead \/ LockRejects
             \/ FinalRejected \/ AcceptFinal \/ Explore \/ UnknownAction
    BY <1>1 DEF DuplicateBlocked, CorrectionRead, LockRejects, FinalRejected,
                AcceptFinal, Explore, UnknownAction, Dispatch, ghosts
  <1>2. CASE EditLands \/ EditFails
    <2>1. Dispatch /\ Fresh /\ (Carried \/ UNCHANGED <<executed, execs>>)
      BY <1>2, Zenon DEF EditLands, EditFails
    <2> QED
      BY <2>1 DEF Dispatch
  <1> QED
    BY <1>1, <1>2
       DEF Next, LoopStep, vars, ghosts, Stop, BeginStep, Generate,
           GenerateStops, Parse, ParseFails, AskRepair, Repair, RepairStops,
           RunTest, Abort

\* Every step keeps the count of tool calls at one for each action.
LEMMA NextOnce ==
    ASSUME Once, [Next]_vars
    PROVE  Once'
  <1>1. CASE UNCHANGED <<executed, execs>> /\ seen \subseteq seen'
    BY <1>1 DEF Once, ExecutedOnce
  <1>2. CASE Carried /\ Fresh /\ seen' = seen \cup {action}
    <2>1. action \notin executed
      BY <1>2 DEF Fresh, Once
    <2>2. IsFiniteSet(executed')
          /\ Cardinality(executed') = Cardinality(executed) + 1
      BY <1>2, <2>1, FS_AddElement DEF Carried, Once
    <2> QED
      BY <1>2, <2>2 DEF Carried, Once, ExecutedOnce
  <1> QED
    BY <1>1, <1>2, Carriers

\* Every step keeps the balance of grants and failed edits.
LEMMA NextOwed ==
    ASSUME TypeInv, Owed, [Next]_vars
    PROVE  Owed'
  <1>1. lockedReads \in Nat /\ failedEdits \in Nat
    BY DEF TypeInv, TypeOK
  <1>2. CASE UNCHANGED <<correction, lockedReads, failedEdits>>
    BY <1>2 DEF Owed
  <1>3. CASE /\ correction /\ ~correction' /\ lockedReads' = lockedReads + 1
             /\ UNCHANGED failedEdits
    BY <1>1, <1>3 DEF Owed
  <1>4. CASE ~correction' /\ UNCHANGED <<lockedReads, failedEdits>>
    BY <1>1, <1>4 DEF Owed
  <1>5. CASE failedEdits' = failedEdits + 1 /\ UNCHANGED lockedReads
    BY <1>1, <1>5 DEF Owed
  <1>6. CASE CorrectionRead
    BY <1>2, <1>3, <1>6 DEF CorrectionRead
  <1>7. CASE EditLands
    BY <1>4, <1>7 DEF EditLands
  <1>8. CASE EditFails
    BY <1>5, <1>8, Zenon DEF EditFails
  <1> QED
    BY <1>2, <1>6, <1>7, <1>8
       DEF Next, LoopStep, vars, flags, ghosts, Stop, BeginStep, Generate,
           GenerateStops, Parse, ParseFails, AskRepair, Repair, RepairStops,
           DuplicateBlocked, LockRejects, FinalRejected, AcceptFinal, Explore,
           UnknownAction, RunTest, Abort

-----------------------------------------------------------------------------
(* The theorems.                                                           *)

\* What all of them rest on.
Inv ==
    /\ TypeInv /\ OvershootBounded /\ Guarded /\ LooksAreReads
    /\ Once /\ Owed

\* It holds at first.
LEMMA InitInv == Init => Inv
  <1> SUFFICES ASSUME Init PROVE Inv
    OBVIOUS
  <1>1. OvershootBounded /\ Guarded /\ LooksAreReads /\ Owed
    BY AgentLoopAssumption
       DEF Init, OvershootBounded, Guarded, LooksAreReads, Owed
  <1>2. Once
    BY FS_EmptySet DEF Init, Once, ExecutedOnce
  <1> QED
    BY <1>1, <1>2, InitTypeInv DEF Inv

\* It holds for ever.
LEMMA AlwaysInv == Spec => []Inv
  <1>1. Inv /\ [Next]_vars => Inv'
    BY NextTypeInv, NextOvershoot, NextGuarded, NextLooks, NextOnce, NextOwed
       DEF Inv
  <1> QED
    BY InitInv, <1>1, PTL DEF Spec

\* An attempt is always in a state of its types.
THEOREM AttemptTyped == Spec => []TypeOK
  <1>1. Inv => TypeOK
    BY DEF Inv, TypeInv
  <1> QED
    BY <1>1, AlwaysInv, PTL

\* However the model answers, and however its JSON is repaired, an attempt
\* overruns its token budget by less than one prompt while usage is reported,
\* and by one reply more once the usage of a call was missing.
THEOREM AttemptOvershoot == Spec => []OvershootBounded
  <1>1. Inv => OvershootBounded
    BY DEF Inv
  <1> QED
    BY <1>1, AlwaysInv, PTL

\* No tool is ever called twice for one action.
THEOREM AttemptOnce == Spec => []ExecutedOnce
  <1>1. Inv => ExecutedOnce
    BY DEF Inv, Once
  <1> QED
    BY <1>1, AlwaysInv, PTL

\* A read through the lock has been earned by a failed edit of its own.
THEOREM AttemptReads == Spec => []CorrectionReadsEarned
  <1>1. Inv => CorrectionReadsEarned
    BY DEF Inv, TypeInv, TypeOK, Owed, CorrectionReadsEarned
  <1> QED
    BY <1>1, AlwaysInv, PTL

\* From the lock step on an attempt without an applied edit looks at the
\* repository at most once for each edit that failed.
THEOREM AttemptLocked == Spec => []LockInForce
  <1>1. Inv => LockInForce
    BY DEF Inv, TypeInv, TypeOK, Owed, LooksAreReads, LockInForce
  <1> QED
    BY <1>1, AlwaysInv, PTL

=============================================================================
