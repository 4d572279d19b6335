----------------------------- MODULE ModelClient -----------------------------
(***************************************************************************)
(* ModelClient.generate (agent/model_client.py) with the BudgetTracker it  *)
(* consults and charges (budget.py): the budget test, the request with its *)
(* retries, the log of calls, the usage journal on disk written before the *)
(* budget counts the call, and the exceptions each of these may raise.     *)
(***************************************************************************)
EXTENDS Integers, Sequences, SequencesExt

CONSTANTS
    MaxCalls,       \* budget.max_model_calls
    MaxTokens,      \* budget.max_total_tokens
    MaxReply,       \* model.max_tokens, the most a caller asks for
    MaxPrompt,      \* bound: largest prompt explored
    MaxEstimate,    \* bound: largest estimate of a reply without usage
    MaxTries,       \* 4 in the code: posts of one request
    MaxFlushFails   \* bound: journal writes that fail

ASSUME ModelClientAssumption ==
    /\ MaxCalls \in Nat /\ MaxTokens \in Nat
    /\ MaxReply \in Nat \ {0} /\ MaxPrompt \in Nat \ {0}
    /\ MaxEstimate \in Nat \ {0} /\ MaxTries \in Nat \ {0}
    /\ MaxFlushFails \in Nat

VARIABLES
    calls,      \* BudgetTracker.calls
    used,       \* BudgetTracker.usage.total_tokens
    estimated,  \* BudgetTracker.usage_estimated
    late,       \* the wall-clock budget has run out
    log,        \* ModelClient.call_log: the tokens of each call
    journal,    \* model_usage.partial.json; empty when there is no file
    pc,         \* where generate stands; "idle" between calls
    limit,      \* _max_generation_tokens of the request
    tries,      \* posts of this request that failed
    usage,      \* usage of the response at hand
    outcome,    \* how the last generate ended
    flushFails  \* journal writes that failed so far

budget == <<calls, used, estimated>>
request == <<limit, tries>>
vars == <<budget, late, log, journal, pc, request, usage, outcome, flushFails>>

Usage == [input : Nat, output : Nat, estimated : BOOLEAN]
NoUsage == [input |-> 0, output |-> 0, estimated |-> FALSE]
Total(u) == u.input + u.output

Init ==
    /\ calls = 0 /\ used = 0 /\ estimated = FALSE /\ late = FALSE
    /\ log = <<>> /\ journal = <<>>
    /\ pc = "idle" /\ limit = 0 /\ tries = 0 /\ usage = NoUsage
    /\ outcome = "none" /\ flushFails = 0

Least(a, b) == IF a < b THEN a ELSE b

\* Time passes at any point, also while a request is on its way.
ClockRunsOut ==
    /\ ~late /\ late' = TRUE
    /\ UNCHANGED <<budget, log, journal, pc, request, usage, outcome, flushFails>>

\* ensure_available raises.
Exhausted == calls >= MaxCalls \/ used >= MaxTokens \/ late

Refuse ==
    /\ pc = "idle" /\ Exhausted
    /\ outcome' = "budget"
    /\ UNCHANGED <<budget, late, log, journal, pc, request, usage, flushFails>>

\* Mutant: the reply may be as long as the caller asks, whatever is left.
BugReplyLimit(requested) == requested

\* _max_generation_tokens: only the reply is held to what remains.
ReplyLimit(requested) == Least(requested, MaxTokens - used)

Request ==
    /\ pc = "idle" /\ ~Exhausted
    /\ \E requested \in 1 .. MaxReply : limit' = ReplyLimit(requested)
    /\ tries' = 0 /\ outcome' = "none" /\ pc' = "post"
    /\ UNCHANGED <<budget, late, log, journal, usage, flushFails>>

\* Mutant: the bound on the attempts is missing.
BugPostRetries ==
    /\ pc = "post" /\ tries' = tries + 1
    /\ UNCHANGED <<budget, late, log, journal, pc, limit, usage, outcome, flushFails>>

\* Status 429 or 5xx, no connection, or a timeout; tried again after a pause,
\* until the last attempt makes it a ModelError.
PostRetries ==
    /\ pc = "post" /\ tries + 1 < MaxTries
    /\ tries' = tries + 1
    /\ UNCHANGED <<budget, late, log, journal, pc, limit, usage, outcome, flushFails>>

\* Mutant: the last failure is retried like the others.
BugPostGivesUp ==
    /\ pc = "post" /\ tries + 1 = MaxTries /\ tries' = 0
    /\ UNCHANGED <<budget, late, log, journal, pc, limit, usage, outcome, flushFails>>

\* generate returns or raises: what it held of the request is gone.
Leave(result) ==
    /\ pc' = "idle" /\ outcome' = result
    /\ limit' = 0 /\ tries' = 0 /\ usage' = NoUsage

\* The last attempt failed: ModelError.
PostGivesUp ==
    /\ pc = "post" /\ tries + 1 = MaxTries
    /\ Leave("model")
    /\ UNCHANGED <<budget, late, log, journal, flushFails>>

\* Another status, a malformed body or a missing key: no retry, and what the
\* provider may have charged is not recorded anywhere.
PostFails ==
    /\ pc = "post"
    /\ Leave("model") \/ Leave("other")
    /\ UNCHANGED <<budget, late, log, journal, flushFails>>

\* The usage the provider reports, or an estimate when it reports none.
Reported(i, o) ==
    IF i = 0 /\ o = 0
    THEN [input : 1 .. MaxPrompt, output : 1 .. MaxEstimate, estimated : {TRUE}]
    ELSE {[input |-> i, output |-> o, estimated |-> FALSE]}

\* The provider keeps the reply within the limit of the request.
PostAnswers ==
    /\ pc = "post" /\ pc' = "log"
    /\ \E i \in 0 .. MaxPrompt, o \in 0 .. limit : usage' \in Reported(i, o)
    /\ UNCHANGED <<budget, late, log, journal, request, outcome, flushFails>>

\* The call is appended to call_log ...
LogCall ==
    /\ pc = "log" /\ pc' = "flush"
    /\ log' = Append(log, Total(usage))
    /\ UNCHANGED <<budget, late, journal, request, usage, outcome, flushFails>>

\* Mutant: the journal is not rewritten; it is left for the end of the task.
BugFlush ==
    /\ pc = "flush" /\ pc' = "record"
    /\ UNCHANGED <<budget, late, log, journal, request, usage, outcome, flushFails>>

\* Mutant: the journal is given the latest call only.
BugFlushLast ==
    /\ pc = "flush" /\ pc' = "record"
    /\ journal' = <<Total(usage)>>
    /\ UNCHANGED <<budget, late, log, request, usage, outcome, flushFails>>

\* ... and the journal atomically rewritten from the log.
Flush ==
    /\ pc = "flush" /\ pc' = "record"
    /\ journal' = log
    /\ UNCHANGED <<budget, late, log, request, usage, outcome, flushFails>>

\* The journal cannot be written: generate raises before the budget counts.
FlushFails ==
    /\ pc = "flush" /\ flushFails < MaxFlushFails
    /\ Leave("other") /\ flushFails' = flushFails + 1
    /\ UNCHANGED <<budget, late, log, journal>>

\* BudgetTracker.record counts first and raises afterwards.
Record ==
    /\ pc = "record"
    /\ calls' = calls + 1
    /\ used' = used + Total(usage)
    /\ estimated' = (estimated \/ usage.estimated)
    /\ Leave(IF used' > MaxTokens THEN "budget" ELSE "response")
    /\ UNCHANGED <<late, log, journal, flushFails>>

Advance ==
    \/ PostRetries \/ PostGivesUp \/ PostFails \/ PostAnswers
    \/ LogCall \/ Flush \/ FlushFails \/ Record

Next == Refuse \/ Request \/ ClockRunsOut \/ Advance

\* A generate that has begun goes on; nobody is obliged to call it.
Spec == Init /\ [][Next]_vars /\ WF_vars(Advance)

-----------------------------------------------------------------------------
(* Properties.                                                             *)

\* Type invariant.
TypeOK ==
    /\ calls \in Nat /\ used \in Nat /\ limit \in Nat
    /\ estimated \in BOOLEAN /\ late \in BOOLEAN
    /\ log \in Seq(Nat) /\ journal \in Seq(Nat)
    /\ pc \in {"idle", "post", "log", "flush", "record"}
    /\ tries \in 0 .. MaxTries - 1 /\ usage \in Usage
    /\ outcome \in {"none", "response", "budget", "model", "other"}
    /\ flushFails \in 0 .. MaxFlushFails

\* The journal is written ahead: at any moment, and so after a crash at any
\* moment, the disk shows every call the budget has counted, and it is an
\* earlier state of the log even after writes that failed (generate:
\* _flush_usage_journal comes before budget.record).
JournalAhead == calls <= Len(journal) /\ IsPrefix(journal, log)

\* As long as usage is reported and not estimated, the token budget is
\* overdrawn by less than the prompt of one call: the reply is held to what
\* remains, the prompt is not (_max_generation_tokens).
OverdrawnByOnePrompt == ~estimated => used <= MaxTokens + MaxPrompt

\* Every call of generate returns or raises: retries are bounded.
GenerateEnds == pc # "idle" ~> pc = "idle"

-----------------------------------------------------------------------------
(* The log and its journal as the one book of module SpendingBooks that    *)
(* this client writes.                                                     *)

\* The tokens of a list of calls, one by one, and their number.
Tokens(costs) == UNION {{i} \X (1 .. costs[i]) : i \in DOMAIN costs}
Sum(costs) == Cardinality(Tokens(costs))

LongestReply == IF MaxReply > MaxEstimate THEN MaxReply ELSE MaxEstimate

Spending == INSTANCE SpendingBooks
            WITH Tasks <- {"task"}, Lag <- MaxFlushFails + 1,
                 MaxCallCost <- MaxPrompt + LongestReply,
                 books <- [t \in {"task"} |->
                              <<[charged |-> Sum(log), shown |-> Sum(journal),
                                 behind |-> Len(log) - Len(journal)]>>],
                 settled <- {}

\* The client keeps one book: no call is free ("Never record a silent zero"),
\* each is shown by the disk before the next is charged, and a write that
\* failed is made good by the next one, with nothing lost (generate,
\* _flush_usage_journal).
KeepsTheBook == Spending!Spec
=============================================================================
