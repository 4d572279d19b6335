-------------------------- MODULE ModelClientProofs --------------------------
(***************************************************************************)
(* Proofs about ModelClient, for every limit of calls and tokens, every    *)
(* number of tries and of failed writes: the journal stays ahead of the    *)
(* budget, and the budget is overdrawn by one prompt at most.              *)
(***************************************************************************)
EXTENDS ModelClient, FiniteSetTheorems, TLAPS

-----------------------------------------------------------------------------
(* Types.                                                                  *)

\* A reported usage is a usage; one that is not an estimate has a prompt
\* within the bound and a reply within the limit of its request.
LEMMA ReportedUsage ==
    ASSUME NEW i \in 0 .. MaxPrompt, NEW o \in Nat, NEW u \in Reported(i, o)
    PROVE  /\ u \in Usage
           /\ ~u.estimated => u.input <= MaxPrompt /\ u.output <= o
  <1> USE ModelClientAssumption
  <1>1. CASE i = 0 /\ o = 0
    <2>1. u \in [input : 1 .. MaxPrompt, output : 1 .. MaxEstimate,
                 estimated : {TRUE}]
      BY <1>1 DEF Reported
    <2>2. u.estimated = TRUE
      BY <2>1
    <2>3. PICK a \in 1 .. MaxPrompt, b \in 1 .. MaxEstimate :
              u = [input |-> a, output |-> b, estimated |-> TRUE]
      BY <2>1, Zenon
    <2>4. u \in Usage
      BY <2>3 DEF Usage
    <2> QED
      BY <2>2, <2>4
  <1>2. CASE ~(i = 0 /\ o = 0)
    <2>1. u = [input |-> i, output |-> o, estimated |-> FALSE]
      BY <1>2 DEF Reported
    <2>2. u \in Usage
      BY <2>1 DEF Usage
    <2>3. u.input = i /\ u.output = o
      BY <2>1
    <2> QED
      BY <2>2, <2>3
  <1> QED
    BY <1>1, <1>2

\* The total of a usage is a number.
LEMMA TotalNat ==
    ASSUME NEW u \in Usage
    PROVE  Total(u) \in Nat /\ Total(u) = u.input + u.output
  BY DEF Usage, Total

\* The type invariant holds at first.
LEMMA InitTypes == Init => TypeOK
  <1> SUFFICES ASSUME Init PROVE TypeOK
    OBVIOUS
  <1>1. NoUsage \in Usage
    BY DEF NoUsage, Usage
  <1>2. estimated \in BOOLEAN /\ late \in BOOLEAN
    BY DEF Init
  <1> QED
    BY <1>1, <1>2, ModelClientAssumption DEF Init, TypeOK

\* Every step keeps it.
LEMMA NextTypes ==
    ASSUME TypeOK, [Next]_vars
    PROVE  TypeOK'
  <1> USE ModelClientAssumption DEF TypeOK
  <1>0. NoUsage \in Usage
    BY DEF NoUsage, Usage
  <1>1. CASE Refuse
    BY <1>1 DEF Refuse, budget, request
  <1>2. CASE Request
    <2>1. PICK requested \in 1 .. MaxReply : limit' = ReplyLimit(requested)
      BY <1>2 DEF Request
    <2>2. limit' \in Nat
      BY <1>2, <2>1 DEF Request, Exhausted, ReplyLimit, Least
    <2> QED
      BY <1>2, <2>2 DEF Request, budget
  <1>3. CASE ClockRunsOut
    BY <1>3 DEF ClockRunsOut, budget, request
  <1>4. CASE PostRetries
    BY <1>4 DEF PostRetries, budget
  <1>5. CASE PostGivesUp
    BY <1>0, <1>5 DEF PostGivesUp, Leave, budget
  <1>6. CASE PostFails
    BY <1>0, <1>6 DEF PostFails, Leave, budget
  <1>7. CASE PostAnswers
    <2>1. usage' \in Usage
      BY <1>7, ReportedUsage DEF PostAnswers
    <2> QED
      BY <1>7, <2>1 DEF PostAnswers, budget, request
  <1>8. CASE LogCall
    <2>1. Append(log, Total(usage)) \in Seq(Nat)
      BY TotalNat
    <2> QED
      BY <1>8, <2>1 DEF LogCall, budget, request
  <1>9. CASE Flush
    BY <1>9 DEF Flush, budget, request
  <1>10. CASE FlushFails
    BY <1>0, <1>10 DEF FlushFails, Leave, budget
  <1>11. CASE Record
    <2>1. used' \in Nat /\ calls' \in Nat
      BY <1>11, TotalNat DEF Record
    <2>2. estimated' \in BOOLEAN
      BY <1>11 DEF Record
    <2> QED
      BY <1>0, <1>11, <2>1, <2>2 DEF Record, Leave
  <1>12. CASE UNCHANGED vars
    BY <1>12 DEF vars, budget, request
  <1> QED
    BY <1>1, <1>2, <1>3, <1>4, <1>5, <1>6, <1>7, <1>8, <1>9, <1>10, <1>11,
       <1>12 DEF Next, Advance

-----------------------------------------------------------------------------
(* The journal.                                                            *)

\* While a call that was logged is not yet counted, the log is longer than the
\* count; once the journal is written it is the log.
Ahead ==
    /\ JournalAhead
    /\ pc \in {"flush", "record"} => calls < Len(log)
    /\ pc = "record" => journal = log

\* A prefix of numbers is no longer than the whole, and stays a prefix of it
\* when a number is appended.
LEMMA PrefixGrows ==
    ASSUME NEW s \in Seq(Nat), NEW t \in Seq(Nat), IsPrefix(s, t), NEW n \in Nat
    PROVE  Len(s) <= Len(t) /\ IsPrefix(s, Append(t, n))
  BY DEF IsPrefix

\* A sequence is a prefix of itself.
LEMMA PrefixOfItself ==
    ASSUME NEW s \in Seq(Nat)
    PROVE  IsPrefix(s, s)
  BY DEF IsPrefix

\* Every step keeps it: the budget counts only what has been written.
LEMMA NextAhead ==
    ASSUME TypeOK, Ahead, [Next]_vars
    PROVE  Ahead'
  <1> USE DEF Ahead, JournalAhead
  <1>0. calls \in Nat /\ log \in Seq(Nat) /\ journal \in Seq(Nat)
    BY DEF TypeOK
  <1>1. CASE LogCall
    <2>1. log' = Append(log, Total(usage)) /\ Total(usage) \in Nat
      BY <1>1, TotalNat DEF LogCall, TypeOK
    <2>2. Len(journal) <= Len(log) /\ IsPrefix(journal, log')
      BY <1>0, <2>1, PrefixGrows
    <2>3. Len(log') = Len(log) + 1
      BY <1>0, <2>1
    <2> QED
      BY <1>0, <1>1, <2>2, <2>3 DEF LogCall, budget
  <1>2. CASE Flush
    BY <1>0, <1>2, PrefixOfItself DEF Flush, budget
  <1>3. CASE Record
    BY <1>0, <1>3 DEF Record, Leave
  <1>4. CASE UNCHANGED <<calls, log, journal>>
             /\ (pc' \notin {"flush", "record"} \/ pc' = pc)
    BY <1>0, <1>4
  <1>5. \/ LogCall \/ Flush \/ Record
        \/ UNCHANGED <<calls, log, journal>>
           /\ (pc' \notin {"flush", "record"} \/ pc' = pc)
    BY DEF Next, Advance, vars, budget, Refuse, Request, ClockRunsOut,
           PostRetries, PostGivesUp, PostFails, PostAnswers, FlushFails, Leave
  <1> QED
    BY <1>1, <1>2, <1>3, <1>4, <1>5

-----------------------------------------------------------------------------
(* The token budget.                                                       *)

\* A request leaves room for its reply, and the reply keeps to it, until the
\* budget has counted it.
Held ==
    /\ OverdrawnByOnePrompt
    /\ pc \in {"post", "log", "flush", "record"} =>
           limit <= MaxTokens - used
    /\ pc \in {"log", "flush", "record"} /\ ~usage.estimated =>
           usage.input <= MaxPrompt /\ usage.output <= limit

\* Every step keeps it: only the prompt of a call can pass the budget.
LEMMA NextHeld ==
    ASSUME TypeOK, Held, [Next]_vars
    PROVE  Held'
  <1> USE ModelClientAssumption DEF Held, OverdrawnByOnePrompt
  <1>0. used \in Nat /\ limit \in Nat /\ usage \in Usage /\ estimated \in BOOLEAN
    BY DEF TypeOK
  <1>1. CASE Request
    <2>1. PICK requested \in 1 .. MaxReply : limit' = ReplyLimit(requested)
      BY <1>1 DEF Request
    <2>2. limit' <= MaxTokens - used
      BY <1>0, <2>1 DEF ReplyLimit, Least
    <2> QED
      BY <1>1, <2>2 DEF Request, budget
  <1>2. CASE PostAnswers
    <2>1. PICK i \in 0 .. MaxPrompt, o \in 0 .. limit : usage' \in Reported(i, o)
      BY <1>2 DEF PostAnswers
    <2>2. ~usage'.estimated => usage'.input <= MaxPrompt /\ usage'.output <= o
      BY <1>0, <2>1, ReportedUsage
    <2>3. usage' \in Usage
      BY <1>0, <2>1, ReportedUsage
    <2>4. ~usage'.estimated => usage'.input <= MaxPrompt /\ usage'.output <= limit
      BY <1>0, <2>1, <2>2, <2>3 DEF Usage
    <2> QED
      BY <1>2, <2>4 DEF PostAnswers, budget, request
  <1>3. CASE Record
    <2>1. used' = used + (usage.input + usage.output)
      BY <1>0, <1>3, TotalNat DEF Record
    <2>2. usage.input \in Nat /\ usage.output \in Nat
      BY <1>0 DEF Usage
    <2>3. ~estimated' => ~estimated /\ ~usage.estimated
      BY <1>3 DEF Record
    <2>4. ~estimated' => used' <= MaxTokens + MaxPrompt
      BY <1>0, <1>3, <2>1, <2>2, <2>3 DEF Record
    <2> QED
      BY <1>3, <2>4 DEF Record, Leave
  <1>4. CASE UNCHANGED <<used, estimated>> /\ pc' = "idle"
    BY <1>4
  <1>5. CASE LogCall \/ Flush
    BY <1>5 DEF LogCall, Flush, budget, request
  <1>6. CASE UNCHANGED <<used, estimated, limit, usage, pc>>
    BY <1>6
  <1>7. \/ Request \/ PostAnswers \/ Record \/ LogCall \/ Flush
        \/ UNCHANGED <<used, estimated>> /\ pc' = "idle"
        \/ UNCHANGED <<used, estimated, limit, usage, pc>>
    BY DEF Next, Advance, vars, budget, request, Refuse, ClockRunsOut,
           PostRetries, PostGivesUp, PostFails, FlushFails, Leave
  <1> QED
    BY <1>1, <1>2, <1>3, <1>4, <1>5, <1>6, <1>7

-----------------------------------------------------------------------------
(* The theorems.                                                           *)

\* What they rest on.
Inv == TypeOK /\ Ahead /\ Held

\* It holds at first.
LEMMA InitInv == Init => Inv
  <1> SUFFICES ASSUME Init PROVE Inv
    OBVIOUS
  <1>1. Ahead
    <2>1. calls = 0 /\ log = <<>> /\ journal = <<>> /\ pc = "idle"
      BY DEF Init
    <2>2. journal \in Seq(Nat) /\ Len(journal) = 0
      BY <2>1
    <2>3. IsPrefix(journal, journal)
      BY <2>2, PrefixOfItself
    <2> QED
      BY <2>1, <2>2, <2>3 DEF Ahead, JournalAhead
  <1>2. Held
    BY ModelClientAssumption DEF Init, Held, OverdrawnByOnePrompt
  <1> QED
    BY <1>1, <1>2, InitTypes DEF Inv

\* It holds for ever.
LEMMA AlwaysInv == Spec => []Inv
  <1>1. Inv /\ [Next]_vars => Inv'
    BY NextTypes, NextAhead, NextHeld DEF Inv
  <1> QED
    BY InitInv, <1>1, PTL DEF Spec

\* A client is always in a state of its types.
THEOREM ClientTyped == Spec => []TypeOK
  <1>1. Inv => TypeOK
    BY DEF Inv
  <1> QED
    BY <1>1, AlwaysInv, PTL

\* The disk shows every call the budget has counted, whatever writes failed.
THEOREM JournalStaysAhead == Spec => []JournalAhead
  <1>1. Inv => JournalAhead
    BY DEF Inv, Ahead
  <1> QED
    BY <1>1, AlwaysInv, PTL

\* Reported usage overdraws the token budget by one prompt at most.
THEOREM BudgetHeld == Spec => []OverdrawnByOnePrompt
  <1>1. Inv => OverdrawnByOnePrompt
    BY DEF Inv, Held
  <1> QED
    BY <1>1, AlwaysInv, PTL

-----------------------------------------------------------------------------
(* The client keeps the one book of SpendingBooks that is its task's.      *)

MostOfACall == MaxPrompt + LongestReply

\* No call, no token.
LEMMA SumNone == Sum(<<>>) = 0
  <1>1. Tokens(<<>>) = {}
    BY DEF Tokens
  <1> QED
    BY <1>1, FS_EmptySet DEF Sum

\* A list of calls has a number of tokens, to which a call adds its own.
LEMMA SumAppend ==
    ASSUME NEW s \in Seq(Nat), NEW n \in Nat
    PROVE  Sum(Append(s, n)) = Sum(s) + n /\ Sum(s) \in Nat
  <1> DEFINE l == Len(s)
             more == Append(s, n)
             New == {l + 1} \X (1 .. n)
             Part(i) == {i} \X (1 .. s[i])
             R == {Part(i) : i \in 1 .. l}
  <1>1. /\ l \in Nat /\ DOMAIN s = 1 .. l /\ DOMAIN more = 1 .. l + 1
        /\ more[l + 1] = n /\ \A i \in 1 .. l : more[i] = s[i] /\ s[i] \in Nat
    OBVIOUS
  <1>2. Tokens(s) = UNION R /\ IsFiniteSet(Tokens(s))
    <2> HIDE DEF l
    <2>1. Tokens(s) = UNION R
      BY <1>1 DEF Tokens
    <2>2. ASSUME NEW i \in 1 .. l PROVE IsFiniteSet(Part(i))
      <3>0. s[i] \in Nat
        BY <1>1
      <3>1. IsFiniteSet(1 .. s[i])
        BY <3>0, FS_Interval
      <3>2. IsFiniteSet({i})
        BY FS_Singleton
      <3> QED
        BY <3>1, <3>2, FS_Product
    <2>3. IsFiniteSet(R)
      <3> DEFINE g == [i \in 1 .. l |-> Part(i)]
      <3>1. IsFiniteSet(1 .. l)
        BY <1>1, FS_Interval
      <3>2. g \in Surjection(1 .. l, R)
        BY DEF Surjection
      <3> HIDE DEF g, R
      <3> QED
        BY <3>1, <3>2, FS_Surjection
    <2>4. \A X \in R : IsFiniteSet(X)
      BY <2>2
    <2>5. IsFiniteSet(UNION R)
      <3> HIDE DEF R
      <3> QED
        BY <2>3, <2>4, FS_UNION
    <2> QED
      BY <2>1, <2>5
  <1>3. Tokens(more) = Tokens(s) \cup New
    <2> HIDE DEF l, more
    <2> QED
      BY <1>1 DEF Tokens
  <1>4. Tokens(s) \cap New = {}
    <2> SUFFICES ASSUME NEW x \in Tokens(s), x \in New PROVE FALSE
      OBVIOUS
    <2>1. PICK i \in DOMAIN s : x \in {i} \X (1 .. s[i])
      BY DEF Tokens
    <2>2. x[1] = i /\ x[1] = l + 1
      BY <2>1
    <2> QED
      BY <1>1, <2>1, <2>2
  <1>5. IsFiniteSet(New) /\ Cardinality(New) = n
    <2>1. IsFiniteSet(1 .. n) /\ Cardinality(1 .. n) = n
      BY FS_Interval
    <2>2. IsFiniteSet({l + 1}) /\ Cardinality({l + 1}) = 1
      BY FS_Singleton
    <2>3. IsFiniteSet(New) /\ Cardinality(New) = 1 * n
      BY <2>1, <2>2, FS_Product
    <2> QED
      BY <2>3
  <1> HIDE DEF New, more, l
  <1>6. Cardinality(Tokens(s)) \in Nat /\ Cardinality({}) = 0
    BY <1>2, FS_CardinalityType, FS_EmptySet
  <1>7. Cardinality(Tokens(s) \cup New)
            = Cardinality(Tokens(s)) + Cardinality(New) - Cardinality(Tokens(s) \cap New)
    BY <1>2, <1>5, FS_Union
  <1>8. Sum(more) = Sum(s) + n
    <2>1. Cardinality(Tokens(s) \cup New) = Cardinality(Tokens(s)) + n - 0
      BY <1>4, <1>5, <1>6, <1>7
    <2> QED
      BY <1>3, <1>6, <2>1 DEF Sum
  <1> QED
    BY <1>6, <1>8 DEF Sum, more

\* What the refinement needs: a call is never free and never above the most a
\* call can cost, and the journal is behind by the calls whose write failed and
\* the one at hand.
Kept ==
    /\ limit <= MaxReply
    /\ pc = "log" => Total(usage) \in 1 .. MostOfACall
    /\ Len(log) <= Len(journal) + flushFails + (IF pc = "flush" THEN 1 ELSE 0)

LEMMA NextKept ==
    ASSUME Inv, Kept, [Next]_vars
    PROVE  Kept'
  <1> USE ModelClientAssumption
  <1>0. /\ limit \in Nat /\ usage \in Usage /\ log \in Seq(Nat) /\ journal \in Seq(Nat)
        /\ Len(log) \in Nat /\ Len(journal) \in Nat /\ flushFails \in Nat
        /\ Total(usage) \in Nat /\ used \in Nat
    BY TotalNat DEF Inv, TypeOK
  <1>1. CASE Request
    <2>1. PICK requested \in 1 .. MaxReply : limit' = ReplyLimit(requested)
      BY <1>1 DEF Request
    <2>2. limit' <= MaxReply
      BY <1>0, <2>1 DEF ReplyLimit, Least
    <2> QED
      BY <1>1, <2>2 DEF Kept, Request
  <1>2. CASE PostAnswers
    <2>1. PICK i \in 0 .. MaxPrompt, o \in 0 .. limit : usage' \in Reported(i, o)
      BY <1>2 DEF PostAnswers
    <2>2. limit <= MaxReply
      BY DEF Kept
    <2>3. LongestReply \in Nat /\ MaxReply <= LongestReply /\ MaxEstimate <= LongestReply
      BY DEF LongestReply
    <2>4. usage'.input + usage'.output \in 1 .. MostOfACall
      <3>1. CASE i = 0 /\ o = 0
        <4>1. PICK a \in 1 .. MaxPrompt, b \in 1 .. MaxEstimate :
                  usage' = [input |-> a, output |-> b, estimated |-> TRUE]
          BY <2>1, <3>1, Zenon DEF Reported
        <4>2. usage'.input = a /\ usage'.output = b
          BY <4>1
        <4> QED
          BY <2>3, <4>2 DEF MostOfACall
      <3>2. CASE ~(i = 0 /\ o = 0)
        <4>1. usage' = [input |-> i, output |-> o, estimated |-> FALSE]
          BY <2>1, <3>2 DEF Reported
        <4>2. usage'.input = i /\ usage'.output = o
          BY <4>1
        <4> QED
          BY <1>0, <2>2, <2>3, <3>2, <4>2 DEF MostOfACall
      <3> QED
        BY <3>1, <3>2
    <2> QED
      BY <1>2, <2>2, <2>4 DEF Kept, PostAnswers, request, Total
  <1>3. CASE LogCall
    <2>1. Len(log') = Len(log) + 1 /\ pc' = "flush"
      BY <1>0, <1>3 DEF LogCall
    <2>2. Len(log) <= Len(journal) + flushFails
      BY <1>0, <1>3 DEF LogCall, Kept
    <2> QED
      BY <1>0, <1>3, <2>1, <2>2 DEF Kept, LogCall, request
  <1>4. CASE Flush
    BY <1>0, <1>4 DEF Kept, Flush, request
  <1>5. CASE FlushFails
    BY <1>0, <1>5 DEF Kept, FlushFails, Leave
  <1>6. CASE /\ UNCHANGED <<log, journal, flushFails>> /\ pc \notin {"log", "flush"}
             /\ pc' \notin {"log", "flush"} /\ limit' \in {limit, 0}
    BY <1>0, <1>6 DEF Kept
  <1>7. CASE UNCHANGED <<log, journal, flushFails, pc, limit, usage>>
    BY <1>0, <1>7 DEF Kept
  <1>8. \/ Request \/ PostAnswers \/ LogCall \/ Flush \/ FlushFails
        \/ /\ UNCHANGED <<log, journal, flushFails>> /\ pc \notin {"log", "flush"}
           /\ pc' \notin {"log", "flush"} /\ limit' \in {limit, 0}
        \/ UNCHANGED <<log, journal, flushFails, pc, limit, usage>>
    BY DEF Next, Advance, vars, budget, request, Refuse, ClockRunsOut,
           PostRetries, PostGivesUp, PostFails, Record, Leave
  <1> QED
    BY <1>1, <1>2, <1>3, <1>4, <1>5, <1>6, <1>7, <1>8

\* The book, as one value.
Book == [charged |-> Sum(log), shown |-> Sum(journal), behind |-> Len(log) - Len(journal)]
Books == [t \in {"task"} |-> <<Book>>]

\* Rewriting the last entry of the one book there is.
LEMMA RewriteBook ==
    ASSUME NEW b
    PROVE  /\ Len(Books["task"]) = 1 /\ Books["task"][1] = Book
           /\ [Books EXCEPT !["task"][1] = b] = [t \in {"task"} |-> <<b>>]
  <1>1. Books["task"] = <<Book>>
    BY DEF Books
  <1> HIDE DEF Book
  <1>2. [Books EXCEPT !["task"][1] = b] = [t \in {"task"} |-> [<<Book>> EXCEPT ![1] = b]]
    BY DEF Books
  <1>3. [<<Book>> EXCEPT ![1] = b] = <<b>>
    OBVIOUS
  <1> QED
    BY <1>1, <1>2, <1>3

\* Every step is one of the book, or leaves it as it is.
LEMMA StepMaps ==
    ASSUME Inv, Kept, [Next]_vars
    PROVE  Spending!Next \/ UNCHANGED Books
  <1>0. /\ log \in Seq(Nat) /\ journal \in Seq(Nat) /\ usage \in Usage
        /\ Len(log) \in Nat /\ Len(journal) \in Nat /\ flushFails \in 0 .. MaxFlushFails
    BY DEF Inv, TypeOK
  <1>1. Spending!Current("task") = Book
    <2>1. Spending!Current("task") = Books["task"][Len(Books["task"])]
      BY DEF Spending!Current, Books, Book
    <2> QED
      BY <2>1, RewriteBook
  <1>2. \A c, s, k : Book' = [charged |-> c, shown |-> s, behind |-> k]
                         => Spending!Rewrite("task", c, s, k)
    BY RewriteBook DEF Spending!Rewrite, Books
  <1>3. CASE LogCall
    <2>1. log' = Append(log, Total(usage)) /\ journal' = journal /\ pc = "log"
      BY <1>3 DEF LogCall
    <2>2. Total(usage) \in 1 .. MostOfACall /\ Len(log) <= Len(journal) + flushFails
      BY <1>0, <2>1 DEF Kept
    <2>3. /\ Sum(log') = Sum(log) + Total(usage)
          /\ Len(log') - Len(journal') = (Len(log) - Len(journal)) + 1
      BY <1>0, <2>1, <2>2, SumAppend, TotalNat
    <2>4. Book.behind < MaxFlushFails + 1
      BY <1>0, <2>2, ModelClientAssumption DEF Book
    <2>5. Book' = [charged |-> Book.charged + Total(usage), shown |-> Book.shown,
                   behind |-> Book.behind + 1]
      BY <2>1, <2>3 DEF Book
    <2>6. Spending!Charge("task")
      BY <1>1, <1>2, <2>2, <2>4, <2>5 DEF Spending!Charge, MostOfACall
    <2> QED
      BY <2>6 DEF Spending!Next
  <1>4. CASE Flush
    <2>1. log' = log /\ journal' = log
      BY <1>4 DEF Flush
    <2>2. Book' = [charged |-> Book.charged, shown |-> Book.charged, behind |-> 0]
      BY <1>0, <2>1 DEF Book
    <2>3. Spending!Show("task")
      BY <1>1, <1>2, <2>2 DEF Spending!Show
    <2> QED
      BY <2>3 DEF Spending!Next
  <1>5. CASE UNCHANGED <<log, journal>>
    BY <1>5 DEF Books, Book
  <1>6. LogCall \/ Flush \/ UNCHANGED <<log, journal>>
    BY DEF Next, Advance, vars, Refuse, Request, ClockRunsOut, PostRetries,
           PostGivesUp, PostFails, PostAnswers, FlushFails, Record
  <1> QED
    BY <1>3, <1>4, <1>5, <1>6

\* The client implements SpendingBooks: it charges one call after the other,
\* each for something and none for too much, the disk is behind by the writes
\* that failed and one, and a write that succeeds makes all of it good.
THEOREM BookImplemented == Spec => KeepsTheBook
  <1>1. Init => Spending!Init
    <2> SUFFICES ASSUME Init PROVE Spending!Init
      OBVIOUS
    <2>1. Book = [charged |-> 0, shown |-> 0, behind |-> 0]
      <3>1. log = <<>> /\ journal = <<>> /\ Len(log) - Len(journal) = 0
        BY DEF Init
      <3>2. Sum(log) = 0 /\ Sum(journal) = 0
        BY <3>1, SumNone
      <3> QED
        BY <3>1, <3>2 DEF Book
    <2> QED
      BY <2>1 DEF Spending!Init, Spending!Blank, Book
  <1>2. Init => Kept
    BY ModelClientAssumption DEF Init, Kept
  <1>3. Inv /\ Kept /\ [Next]_vars => Kept' /\ [Spending!Next]_(<<Books, {}>>)
    BY NextKept, StepMaps
  <1> QED
    BY <1>1, <1>2, <1>3, AlwaysInv, PTL DEF Spec, KeepsTheBook, Spending!Spec, Books, Book
=============================================================================
