---------------------------- MODULE TaskRunProofs ----------------------------
(***************************************************************************)
(* Safety of the run of one task, for every number of acts, with and       *)
(* without staging: the shells, the order of the files, that verdict and   *)
(* patch speak of the same code, and the name of the result.               *)
(***************************************************************************)
EXTENDS TaskRun, TLAPS

-----------------------------------------------------------------------------
(* The clones.                                                             *)

\* The shape of what the operators on clones return.
LEMMA CloneTypes ==
    ASSUME NEW s \in Suites
    PROVE  /\ Base(s) \in Trees /\ Clone(s) \in Clones
           /\ \A c \in Clones, f \in Files :
                  /\ \A content \in Contents : Edit(c, f, content) \in Clones
                  /\ Stage(c, f) \in Clones
           /\ \A c \in Clones, ignored \in SUBSET Files :
                  /\ Tracked(c, ignored) \in Clones
                  /\ Tracked(c, ignored).tree = c.tree
           /\ \A c \in Clones :
                  /\ Untracked(c) \subseteq Files
                  /\ Restored(c, s) \in Clones /\ WithTests(c, s) \in Clones
                  /\ Staged(c, s) \in SUBSET Files
<1> USE DEF Clones, Entries, Contents, Files, Trees
<1>1. Base(s) \in Trees
  BY DEF Base
<1>2. Clone(s) \in Clones
  BY <1>1 DEF Clone
<1>3. \A c \in Clones, f \in Files, content \in Contents : Edit(c, f, content) \in Clones
  BY DEF Edit
<1>4. \A c \in Clones, f \in Files : Stage(c, f) \in Clones
  BY DEF Stage
<1>5. \A c \in Clones, ignored \in SUBSET Files :
          Tracked(c, ignored) \in Clones /\ Tracked(c, ignored).tree = c.tree
  BY DEF Tracked
<1>9. \A c \in Clones : Untracked(c) \subseteq Files
  BY DEF Untracked
<1>6. \A c \in Clones : Restored(c, s) \in Clones
  BY DEF Restored
<1>7. \A c \in Clones : WithTests(c, s) \in Clones
  BY <1>3 DEF WithTests
<1>8. \A c \in Clones : Staged(c, s) \in SUBSET Files
  BY DEF Staged
<1> QED
  BY <1>1, <1>2, <1>3, <1>4, <1>5, <1>6, <1>7, <1>8, <1>9

\* A diff is a patch.
LEMMA DiffType == ASSUME NEW c \in Clones PROVE Diff(c) \in Patches
<1>1. \A f \in Files : Old(c, f) \in Texts /\ c.tree[f] \in Texts
  BY DEF Old, Texts, Clones, Entries, Contents
<1>2. \A content \in Texts : Decoded(content) \in Texts
  BY DEF Decoded, Texts
<1> QED
  BY <1>1, <1>2 DEF Diff, Change, Patches

\* The tests leave at most a new file behind, and touch no index.
LEMMA LitteredFacts ==
    ASSUME NEW c \in Clones, NEW d \in Littered(c)
    PROVE  /\ d \in Clones /\ d.index = c.index
           /\ \A f \in Files :
                  \/ d.tree[f] = c.tree[f]
                  \/ f = "note" /\ c.tree[f] = "absent" /\ d.tree[f] = "artifact"
<1>1. CASE d = c
  BY <1>1
<1>2. CASE c.tree["note"] = "absent" /\ d = Edit(c, "note", "artifact")
  BY <1>2 DEF Edit, Clones, Contents, Files
<1> QED
  BY <1>1, <1>2 DEF Littered

\* Before the tests an evaluation touches no file but the one with the tests, and
\* they may leave one behind where there was none.  Official tests are left
\* behind only if the evaluation was cut off or they are a new file, and none
\* that were not there for a task without them.
LEMMA EvaluationFacts ==
    ASSUME NEW s \in Suites, NEW c \in Clones, NEW e \in Evaluations(c, s)
    PROVE  /\ e.after \in Clones /\ e.tested \in Trees
           /\ e.success \in BOOLEAN /\ e.cut \in BOOLEAN
           /\ \A f \in {"code", "note"} :
                  /\ e.tested[f] = c.tree[f]
                  /\ \/ e.after.tree[f] = e.tested[f]
                     \/ f = "note" /\ e.tested[f] = "absent"
                        /\ e.after.tree[f] = "artifact"
           /\ s # "adds" /\ ~e.cut /\ c.tree["test"] # "official"
                  => e.after.tree["test"] # "official"
           /\ e.tested["test"] \in {c.tree["test"], "base", "official"}
           /\ e.after.tree["test"] \in {c.tree["test"], "base", "official"}
<1> DEFINE restored == Restored(c, s)
           ready == WithTests(restored, s)
           First(d) == d \in {c, restored}
           Last(d, from) == d \in Littered(from)
<1>1. restored \in Clones /\ ready \in Clones
  BY CloneTypes
\* What comes of an evaluation is a clone before the tests, or after them with
\* what they left, restored if nothing was cut off.
<1>2. /\ e.success \in BOOLEAN /\ e.cut \in BOOLEAN
      /\ \/ s = "local" /\ Last(e.after, c) /\ e.tested = c.tree
         \/ s # "local" /\ e.tested = ready.tree /\ ~e.cut
            /\ \E d \in Littered(ready) : e.after = Restored(d, s)
         \/ s # "local" /\ e.tested = ready.tree /\ e.cut /\ Last(e.after, ready)
         \/ s # "local" /\ e.cut /\ First(e.after) /\ e.tested = e.after.tree
  <2> DEFINE O(after, tested, cut_, success) ==
                 [after |-> after, tested |-> tested, cut |-> cut_, success |-> success]
  <2> HIDE DEF restored, ready
  <2>1. CASE s = "local"
    <3>1. \E d \in Littered(c), v \in BOOLEAN : e = O(d, c.tree, FALSE, v)
      BY <2>1 DEF Evaluations
    <3> QED
      BY <2>1, <3>1
  <2>2. CASE s # "local"
    <3> DEFINE A == {O(Restored(d, s), ready.tree, FALSE, v) :
                         d \in Littered(ready), v \in BOOLEAN}
               B == {O(d, ready.tree, TRUE, v) : d \in Littered(ready), v \in BOOLEAN}
               C == {O(d, d.tree, TRUE, FALSE) : d \in {c, restored}}
    <3>1. e \in A \cup B \cup C
      BY <2>2 DEF Evaluations, restored, ready
    <3>2. CASE e \in A
      <4>1. PICK d \in Littered(ready), v \in BOOLEAN :
                e = O(Restored(d, s), ready.tree, FALSE, v)
        BY <3>2
      <4>2. /\ e.after = Restored(d, s) /\ e.tested = ready.tree
            /\ e.cut = FALSE /\ e.success \in BOOLEAN
        BY <4>1
      <4> QED
        BY <2>2, <4>2
    <3>3. CASE e \in B
      <4>1. PICK d \in Littered(ready), v \in BOOLEAN : e = O(d, ready.tree, TRUE, v)
        BY <3>3
      <4>2. /\ e.after = d /\ e.tested = ready.tree
            /\ e.cut = TRUE /\ e.success \in BOOLEAN
        BY <4>1
      <4> QED
        BY <2>2, <4>2
    <3>4. CASE e \in C
      <4>1. PICK d \in {c, restored} : e = O(d, d.tree, TRUE, FALSE)
        BY <3>4
      <4>2. /\ e.after = d /\ e.tested = d.tree
            /\ e.cut = TRUE /\ e.success = FALSE
        BY <4>1
      <4> QED
        BY <2>2, <4>2
    <3> HIDE DEF A, B, C
    <3> QED
      BY <3>1, <3>2, <3>3, <3>4
  <2> QED
    BY <2>1, <2>2
<1>3. \A d \in Clones : /\ d.tree \in Trees /\ Restored(d, s) \in Clones
                        /\ \A f \in {"code", "note"} : Restored(d, s).tree[f] = d.tree[f]
                        /\ Restored(d, s).tree["test"] \in {d.tree["test"], "base"}
                        /\ s # "adds" => Restored(d, s).tree["test"] = "base"
  BY CloneTypes DEF Restored, Clones, Trees, Files
<1>4. /\ \A f \in {"code", "note"} :
             restored.tree[f] = c.tree[f] /\ ready.tree[f] = c.tree[f]
      /\ restored.tree["test"] \in {c.tree["test"], "base"}
      /\ ready.tree["test"] \in {restored.tree["test"], "official"}
  BY <1>1, <1>3 DEF WithTests, Edit, Clones, Files
<1> HIDE DEF restored, ready
<1>5. CASE s = "local" /\ Last(e.after, c) /\ e.tested = c.tree
  BY <1>2, <1>3, <1>5, LitteredFacts DEF Files
<1>6. CASE /\ s # "local" /\ e.tested = ready.tree /\ ~e.cut
           /\ \E d \in Littered(ready) : e.after = Restored(d, s)
  <2>1. PICK d \in Littered(ready) : e.after = Restored(d, s)
    BY <1>6
  <2>2. /\ d \in Clones
        /\ \A f \in Files : \/ d.tree[f] = ready.tree[f]
                            \/ f = "note" /\ ready.tree[f] = "absent"
                               /\ d.tree[f] = "artifact"
    BY <1>1, LitteredFacts
  <2> QED
    BY <1>1, <1>2, <1>3, <1>4, <1>6, <2>1, <2>2 DEF Files
<1>7. CASE s # "local" /\ e.tested = ready.tree /\ e.cut /\ Last(e.after, ready)
  BY <1>1, <1>2, <1>3, <1>4, <1>7, LitteredFacts DEF Files
<1>8. CASE s # "local" /\ e.cut /\ First(e.after) /\ e.tested = e.after.tree
  BY <1>1, <1>2, <1>3, <1>4, <1>8
<1> QED
  BY <1>2, <1>5, <1>6, <1>7, <1>8

-----------------------------------------------------------------------------
(* Types.  What a step reads is there: a clone while it is worked in, the  *)
(* outcomes once the initial attempt has ended.                            *)

Points == {"workspace", "shell", "attempt", "initial files", "choose",
           "retry shell", "retry attempt", "retry close", "retry unwind",
           "analyze", "plan", "recovery attempt", "name", "recovery files",
           "close", "final patch", "model calls", "result", "done", "failed"}
Tried == Points \ {"workspace", "shell", "attempt", "failed"}

Provided ==
    /\ pc \in Points
    /\ pc \notin {"workspace", "failed"} => roots["initial"] \in Clones
    /\ pc \in {"retry shell", "retry attempt"} => roots["retry"] \in Clones
    /\ pc \in Tried => initial \in Outcomes /\ final \in Outcomes

TypeInv == TypeOK /\ Provided

-----------------------------------------------------------------------------
(* Shells: open only where somebody is still going to close them.          *)

ShellInv ==
    /\ shells["initial"] = "open" =>
           pc \notin {"workspace", "shell", "final patch", "model calls", "result",
                      "done", "failed"}
    /\ shells["retry"] = "open" => pc \in {"retry attempt", "retry close", "retry unwind"}

-----------------------------------------------------------------------------
(* Files: what is written before what.                                     *)

Closing == {"close", "final patch", "model calls", "result", "done"}

FilesInv ==
    /\ pc \notin {"workspace", "failed"} => "metadata.json" \in others
    /\ pc \in {"result", "done"} => "model_calls.json" \in others
    /\ pc \in Tried \ {"initial files"} => patches["initial.patch"] = initial.patch
    /\ pc \in {"model calls", "result", "done"} => patches["final.patch"] = final.patch
    /\ pc \in {"workspace", "shell", "attempt", "initial files", "choose"} => ~attempted
    /\ pc = "recovery files" => finalAttempt = "recovery"
    /\ pc \in Closing /\ attempted /\ ~error =>
           finalAttempt = "recovery" /\ patches["recovery.patch"] = final.patch
    /\ result # NoResult =>
           /\ pc = "done"
           /\ result = [resolved |-> final.success,
                        initialResolved |-> initial.success,
                        recovered |-> attempted /\ ~initial.success /\ final.success,
                        attempt |-> finalAttempt, error |-> error,
                        patch |-> final.patch]

-----------------------------------------------------------------------------
(* Code: what is in the clones, and so in what was tested and in its diff. *)

\* The verdict and the patch of an outcome speak of the same code.
Agrees(outcome) ==
    /\ \A f \in {"code", "note"} \ outcome.staged :
           LET changes == {change \in outcome.patch : change[1] = f}
               base == Base(suite)[f]
               Step(new) == Change(f, base, new) IN
           IF f \in outcome.ignored THEN changes = {}
           ELSE IF outcome.tested[f] # base THEN changes = {Step(outcome.tested[f])}
           ELSE \/ changes \subseteq {<<f, "empty", "absent">>}
                \/ base = "absent" /\ changes = {Step("artifact")}
    /\ (\E change \in outcome.patch : change[3] = "official")
           => suite = "adds" \/ outcome.cut

Free(tree, content) == \A f \in Files : tree[f] # content

\* The clones: without a cut-off evaluation the official tests are in none but as
\* a new file, and what an initial attempt wrote is not in the clone of a retry.
ClonesInv ==
    /\ \A w \in Workspaces :
           roots[w] \in Clones /\ suite # "adds" /\ w \notin cut
               => Free(roots[w].tree, "official")
    /\ roots["retry"] \in Clones => Free(roots["retry"].tree, "initial")

\* The outcome that will be reported.
FinalInv ==
    /\ pc \in {"analyze", "plan", "recovery attempt"} => condition = "contextrepair"
    /\ pc \in {"initial files", "choose"} => final = initial
    /\ pc \in Tried =>
           /\ Agrees(final)
           /\ condition = "retry" => final = initial \/ Free(final.tested, "initial")

CodeInv == ClonesInv /\ FinalInv

-----------------------------------------------------------------------------
(* Names: which outcome goes with which name.                              *)

Named ==
    \/ final.by = finalAttempt /\ (finalAttempt = "initial" => final = initial)
    \/ condition = "retry" /\ error /\ finalAttempt = "initial" /\ final.by = "recovery"

Retrying == {"retry shell", "retry attempt", "retry close", "retry unwind"}

\* The outcome is the initial one until the second attempt has ended, and has its
\* name, but between that end and the name.
NameInv ==
    /\ pc \in Tried => initial.by = "initial"
    /\ pc \notin {"recovery files", "failed"} \cup Closing => finalAttempt = "initial"
    /\ pc \in Retrying => condition = "retry"
    /\ pc \in {"initial files", "choose", "retry shell", "retry attempt",
              "retry unwind", "analyze", "plan", "recovery attempt"}
           => final = initial
    /\ pc \in {"retry close", "name", "recovery files"} => final.by = "recovery"
    /\ pc = "recovery files" => finalAttempt = "recovery"
    /\ pc \in Closing => Named

IInv == TypeInv /\ ShellInv /\ FilesInv /\ CodeInv /\ NameInv

-----------------------------------------------------------------------------
(* Type correctness.                                                       *)

\* An attempt ends with an outcome, in a clone it leaves another one.
LEMMA AttemptTypes ==
    ASSUME TypeInv, NEW w \in Workspaces, roots[w] \in Clones, Attempt(w)
    PROVE  /\ final' \in Outcomes /\ acts' = acts /\ cut' \subseteq Workspaces
           /\ roots' \in [Workspaces -> Clones \cup {NoFile}]
           /\ \A u \in Workspaces : roots[u] \in Clones => roots'[u] \in Clones
<1>0. suite \in Suites /\ cut \subseteq Workspaces
      /\ roots \in [Workspaces -> Clones \cup {NoFile}]
  BY DEF TypeInv, TypeOK
<1>b. PICK e \in Evaluations(roots[w], suite) :
          \E ignored \in SUBSET (Ignorable \cap Untracked(e.after)) :
              LET clone == Tracked(e.after, ignored) IN
              /\ Evaluated(w, e, clone) /\ acts' = acts
              /\ final' = [success |-> e.success, patch |-> Diff(clone), by |-> Phase,
                           tested |-> e.tested, staged |-> Staged(clone, suite),
                           ignored |-> ignored, cut |-> w \in cut']
  BY DEF Attempt
<1>1. PICK ignored \in SUBSET (Ignorable \cap Untracked(e.after)) :
          LET clone == Tracked(e.after, ignored) IN
          /\ Evaluated(w, e, clone) /\ acts' = acts
          /\ final' = [success |-> e.success, patch |-> Diff(clone), by |-> Phase,
                       tested |-> e.tested, staged |-> Staged(clone, suite),
                       ignored |-> ignored, cut |-> w \in cut']
  BY <1>b
<1> DEFINE clone == Tracked(e.after, ignored)
<1>2. /\ e.after \in Clones /\ e.tested \in Trees /\ e.success \in BOOLEAN
      /\ e.cut \in BOOLEAN
  BY <1>0, EvaluationFacts
<1>a. ignored \in SUBSET Files
  BY <1>0, <1>2, CloneTypes
<1>3. /\ clone \in Clones /\ Staged(clone, suite) \in SUBSET Files
      /\ Diff(clone) \in Patches
  BY <1>0, <1>2, <1>a, CloneTypes, DiffType
<1>4. final' \in Outcomes
  <2>1. Phase \in {"initial", "recovery"}
    BY DEF Phase
  <2> HIDE DEF clone
  <2> QED
    BY <1>1, <1>2, <1>3, <1>a, <2>1 DEF Outcomes, clone
<1>5. /\ roots' = [roots EXCEPT ![w] = clone]
      /\ cut' = cut \/ cut' = cut \cup {w}
  BY <1>1 DEF Evaluated
<1> QED
  BY <1>0, <1>1, <1>3, <1>4, <1>5

\* An act leaves a clone a clone.
LEMMA ActTypes ==
    ASSUME TypeInv, Act
    PROVE  /\ acts' \in 0 .. MaxActs /\ cut' \subseteq Workspaces
           /\ roots' \in [Workspaces -> Clones \cup {NoFile}]
           /\ \A u \in Workspaces : roots[u] \in Clones => roots'[u] \in Clones
<1>0. /\ suite \in Suites /\ cut \subseteq Workspaces /\ acts \in Nat
      /\ roots \in [Workspaces -> Clones \cup {NoFile}]
      /\ Root \in Workspaces /\ roots[Root] \in Clones
      /\ Phase \in Contents
  <2>1. /\ suite \in Suites /\ cut \subseteq Workspaces /\ acts \in Nat
        /\ roots \in [Workspaces -> Clones \cup {NoFile}]
    BY TaskRunAssumption DEF TypeInv, TypeOK
  <2>2. pc \in Working /\ Provided
    BY DEF Act, TypeInv
  <2>3. Root \in Workspaces /\ roots[Root] \in Clones
    BY <2>2 DEF Provided, Root, Working, Workspaces
  <2>4. Phase \in Contents
    BY DEF Phase, Contents
  <2> QED
    BY <2>1, <2>3, <2>4
<1>1. acts' \in 0 .. MaxActs
  BY <1>0, TaskRunAssumption DEF Act
<1>2. CASE \E f \in Files, content \in {Phase, "absent"} :
               roots' = [roots EXCEPT ![Root] = Edit(@, f, content)]
           /\ UNCHANGED cut
  <2>1. PICK f \in Files, content \in Contents :
            roots' = [roots EXCEPT ![Root] = Edit(roots[Root], f, content)]
    BY <1>0, <1>2 DEF Contents
  <2>2. Edit(roots[Root], f, content) \in Clones
    BY <1>0, CloneTypes
  <2> QED
    BY <1>0, <1>1, <1>2, <2>1, <2>2
<1>3. CASE \E f \in Files : roots' = [roots EXCEPT ![Root] = Stage(@, f)]
           /\ UNCHANGED cut
  <2>1. PICK f \in Files : roots' = [roots EXCEPT ![Root] = Stage(roots[Root], f)]
    BY <1>3
  <2>2. Stage(roots[Root], f) \in Clones
    BY <1>0, CloneTypes
  <2> QED
    BY <1>0, <1>1, <1>3, <2>1, <2>2
<1>4. CASE \E e \in Evaluations(roots[Root], suite) : Evaluated(Root, e, e.after)
  <2>1. PICK e \in Evaluations(roots[Root], suite) : Evaluated(Root, e, e.after)
    BY <1>4
  <2>2. e.after \in Clones
    BY <1>0, EvaluationFacts
  <2> QED
    BY <1>0, <1>1, <2>1, <2>2 DEF Evaluated
<1> QED
  BY <1>2, <1>3, <1>4 DEF Act

\* At first there is nothing.
LEMMA InitTypeInv == Init => TypeInv
<1> SUFFICES ASSUME Init PROVE TypeInv
  OBVIOUS
<1>1. /\ roots \in [Workspaces -> Clones \cup {NoFile}]
      /\ shells \in [Workspaces -> {"none", "open", "closed"}]
      /\ patches \in [Names -> Patches \cup {NoFile}]
  BY DEF Init
<1>2. Provided
  BY DEF Init, Provided, Points, Tried
<1>3. condition \in Conditions /\ suite \in Suites
  BY DEF Init
<1>4. acts \in 0 .. MaxActs /\ cut \subseteq Workspaces /\ asks \in 0 .. 2
  BY TaskRunAssumption DEF Init
<1>5. initial \in Outcomes \cup {NoOutcome} /\ final \in Outcomes \cup {NoOutcome}
  BY DEF Init
<1>6. finalAttempt \in {"initial", "recovery"} /\ attempted \in BOOLEAN /\ error \in BOOLEAN
  BY DEF Init
<1>7. others = {} /\ result = NoResult
  BY DEF Init
<1> QED
  BY <1>1, <1>2, <1>3, <1>4, <1>5, <1>6, <1>7 DEF TypeInv, TypeOK

\* The controller's own steps: each writes a field, a file or a shell, and is
\* followed by steps that only read what is there.
LEMMA ControllerTypes ==
    ASSUME TypeInv, Next, ~Act, ~InitialAttempt, ~RetryAttempt, ~RecoveryAttempt
    PROVE  TypeInv'
<1>a. \A n \in 0 .. 2 : n > 0 => n - 1 \in 0 .. 2
  OBVIOUS
<1> USE DEF TypeInv, TypeOK, Provided, Points, Tried, Goto, Write, task, work, report, files
<1>0. /\ Clone(suite) \in Clones
      /\ "initial" \in Workspaces /\ "retry" \in Workspaces
      /\ {"initial.patch", "recovery.patch", "final.patch"} \subseteq Names
  BY CloneTypes DEF Workspaces, Names
<1>b. \A o \in Outcomes : o.patch \in Patches /\ o.success \in BOOLEAN
  BY DEF Outcomes
<1>1. CASE MakeWorkspace
  BY <1>0, <1>1 DEF MakeWorkspace
<1>2. CASE OpenShell
  BY <1>0, <1>2 DEF OpenShell
<1>3. CASE WriteInitial
  <2>1. TypeOK'
    BY <1>0, <1>b, <1>3 DEF WriteInitial
  <2>2. Provided'
    BY <1>0, <1>3 DEF WriteInitial
  <2> QED
    BY <2>1, <2>2
<1>4. CASE NoRecovery
  BY <1>0, <1>4 DEF NoRecovery
<1>5. CASE BeginRetry
  BY <1>0, <1>5 DEF BeginRetry
<1>6. CASE OpenRetryShell
  BY <1>0, <1>6 DEF OpenRetryShell
<1>7. CASE RetryAttemptRaises
  <2>1. /\ pc' = "retry unwind" /\ pc = "retry attempt"
        /\ UNCHANGED <<task, work, shells, report, asks, files>>
    BY <1>7 DEF RetryAttemptRaises
  <2>2. TypeOK'
    BY <2>1
  <2>3. Provided'
    BY <2>1
  <2> QED
    BY <2>2, <2>3
<1>8. CASE CloseRetryShell
  <2>1. TypeOK'
    BY <1>0, <1>b, <1>8 DEF CloseRetryShell
  <2>2. Provided'
    BY <1>0, <1>8 DEF CloseRetryShell
  <2> QED
    BY <2>1, <2>2
<1>9. CASE CloseRetryShellRaises
  <2>1. TypeOK'
    BY <1>0, <1>b, <1>9 DEF CloseRetryShellRaises
  <2>2. Provided'
    BY <1>0, <1>9 DEF CloseRetryShellRaises
  <2> QED
    BY <2>1, <2>2
<1>10. CASE BeginRecovery
  BY <1>0, <1>10 DEF BeginRecovery
<1>11. CASE PlanningCall
  <2>1. /\ asks' \in 0 .. 2
        /\ UNCHANGED <<task, pc, work, shells, report, files>>
    BY <1>a, <1>11 DEF PlanningCall
  <2>2. TypeOK'
    BY <2>1 DEF work
  <2>3. Provided'
    BY <2>1 DEF work
  <2> QED
    BY <2>2, <2>3
<1>12. CASE Analyzed
  BY <1>0, <1>12 DEF Analyzed
<1>13. CASE Planned
  BY <1>0, <1>13 DEF Planned
<1>14. CASE NameRecovery
  BY <1>0, <1>14 DEF NameRecovery
<1>15. CASE WriteRecovery
  <2>1. TypeOK'
    BY <1>0, <1>b, <1>15 DEF WriteRecovery
  <2>2. Provided'
    BY <1>0, <1>15 DEF WriteRecovery
  <2> QED
    BY <2>1, <2>2
<1>16. CASE RecoveryRaises
  <2>1. /\ others' \subseteq {"metadata.json", "recovery_analysis.json",
                              "context_delta.json", "model_calls.json"}
        /\ error' = TRUE
        /\ UNCHANGED <<task, work, shells, initial, final, finalAttempt,
                       attempted, asks, result>>
    BY <1>16 DEF RecoveryRaises
  <2>2. pc \in InRecovery /\ pc' = "close"
    BY <1>16 DEF RecoveryRaises
  <2>3. patches' \in [Names -> Patches \cup {NoFile}]
    <3>1. pc = "recovery files" => final.patch \in Patches
      BY <1>b
    <3> QED
      BY <1>0, <1>16, <3>1 DEF RecoveryRaises
  <2>4. TypeOK'
    BY <2>1, <2>3
  <2>5. Provided'
    BY <2>1, <2>2 DEF InRecovery
  <2> QED
    BY <2>4, <2>5
<1>17. CASE CloseShell
  BY <1>0, <1>17 DEF CloseShell
<1>18. CASE WriteFinalPatch
  <2>1. final.patch \in Patches
    BY <1>b, <1>18 DEF WriteFinalPatch
  <2>2. TypeOK'
    BY <1>0, <2>1, <1>18 DEF WriteFinalPatch, work
  <2>3. Provided'
    BY <1>18 DEF WriteFinalPatch, work
  <2> QED
    BY <2>2, <2>3
<1>19. CASE WriteModelCalls
  <2>1. TypeOK'
    BY <1>0, <1>b, <1>19 DEF WriteModelCalls
  <2>2. Provided'
    BY <1>0, <1>19 DEF WriteModelCalls
  <2> QED
    BY <2>1, <2>2
<1>20. CASE WriteResult
  <2>1. TypeOK'
    BY <1>0, <1>b, <1>20 DEF WriteResult
  <2>2. Provided'
    BY <1>0, <1>20 DEF WriteResult
  <2> QED
    BY <2>1, <2>2
<1>21. CASE RunRaises
  <2>1. /\ shells' \in [Workspaces -> {"none", "open", "closed"}]
        /\ pc' = "failed" /\ UNCHANGED <<task, work, report, asks, files>>
    BY <1>0, <1>21 DEF RunRaises
  <2>2. TypeOK'
    BY <2>1 DEF work
  <2>3. Provided'
    BY <2>1
  <2> QED
    BY <2>2, <2>3
<1>22. CASE Interrupt
  BY <1>0, <1>22 DEF Interrupt
<1> QED
  BY <1>1, <1>2, <1>3, <1>4, <1>5, <1>6, <1>7, <1>8, <1>9, <1>10, <1>11, <1>12, <1>13, <1>14, <1>15, <1>16, <1>17, <1>18, <1>19, <1>20, <1>21, <1>22 DEF Next, Progress, Failure

\* Every step keeps the types.
LEMMA NextTypeInv == TypeInv /\ [Next]_vars => TypeInv'
<1> SUFFICES ASSUME TypeInv, [Next]_vars PROVE TypeInv'
  OBVIOUS
<1>1. CASE Act
  <2>1. /\ acts' \in 0 .. MaxActs /\ cut' \subseteq Workspaces
        /\ roots' \in [Workspaces -> Clones \cup {NoFile}]
        /\ \A u \in Workspaces : roots[u] \in Clones => roots'[u] \in Clones
    BY <1>1, ActTypes
  <2>2. UNCHANGED <<task, pc, shells, report, asks, files>>
    BY <1>1 DEF Act
  <2>3. TypeOK'
    BY <2>1, <2>2 DEF TypeInv, TypeOK, task, report, files
  <2>4. Provided'
    BY <2>1, <2>2 DEF TypeInv, Provided, report, Workspaces
  <2> QED
    BY <2>3, <2>4 DEF TypeInv
<1>2. CASE InitialAttempt \/ RetryAttempt \/ RecoveryAttempt
  <2>1. PICK w \in Workspaces : Attempt(w) /\ roots[w] \in Clones
    BY <1>2 DEF InitialAttempt, RetryAttempt, RecoveryAttempt, Goto, TypeInv,
                Provided, Workspaces
  <2>2. /\ final' \in Outcomes /\ acts' = acts /\ cut' \subseteq Workspaces
        /\ roots' \in [Workspaces -> Clones \cup {NoFile}]
        /\ \A u \in Workspaces : roots[u] \in Clones => roots'[u] \in Clones
    BY <2>1, AttemptTypes
  <2>3. /\ UNCHANGED <<task, shells, finalAttempt, attempted, error, asks, files>>
        /\ \/ initial' = final' /\ pc = "attempt" /\ pc' = "initial files"
           \/ initial' = initial /\ pc \in Tried /\ pc' \in Tried
              /\ pc' \notin {"retry shell", "retry attempt"}
    BY <1>2 DEF InitialAttempt, RetryAttempt, RecoveryAttempt, Goto, Tried, Points
  <2>4. acts' \in 0 .. MaxActs
    BY <2>2 DEF TypeInv, TypeOK
  <2>5. TypeOK'
    BY <2>2, <2>3, <2>4 DEF TypeInv, TypeOK, task, files
  <2>6. Provided'
    BY <2>2, <2>3 DEF TypeInv, Provided, Workspaces, Tried, Points
  <2> QED
    BY <2>5, <2>6 DEF TypeInv
<1>3. CASE Next /\ ~Act /\ ~InitialAttempt /\ ~RetryAttempt /\ ~RecoveryAttempt
  BY <1>3, ControllerTypes
<1>4. CASE UNCHANGED vars
  <2>1. UNCHANGED <<condition, suite, pc, roots, acts, cut, shells, initial, final,
                    finalAttempt, attempted, error, asks, patches, others, result>>
    BY <1>4 DEF vars, task, work, report, files
  <2>2. TypeOK'
    BY <2>1 DEF TypeInv, TypeOK
  <2>3. Provided'
    BY <2>1 DEF TypeInv, Provided
  <2> QED
    BY <2>2, <2>3 DEF TypeInv
<1> QED
  BY <1>1, <1>2, <1>3, <1>4

\* The run of a task is well typed, and what a step reads is there.
THEOREM RunTypeInv == Spec => []TypeInv
<1>1. Init /\ [][Next]_vars => []TypeInv
  BY InitTypeInv, NextTypeInv, PTL
<1> QED
  BY <1>1, PTL DEF Spec

\* Clones, outcomes, patches and files have the shapes that TypeOK gives them, in
\* every reachable state (ExperimentController.run).
THEOREM RunTyped == Spec => []TypeOK
BY RunTypeInv, PTL DEF TypeInv

-----------------------------------------------------------------------------
(* The shells are closed.                                                  *)

\* Every step that takes a shell away from those who will close it closes it.
LEMMA NextShellInv == TypeInv /\ ShellInv /\ [Next]_vars => ShellInv'
<1> SUFFICES ASSUME TypeInv, ShellInv, [Next]_vars PROVE ShellInv'
  OBVIOUS
<1>1. /\ shells \in [Workspaces -> {"none", "open", "closed"}]
      /\ "initial" \in Workspaces /\ "retry" \in Workspaces
  BY DEF TypeInv, TypeOK, Workspaces
<1> USE DEF ShellInv, Goto
<1>2. CASE UNCHANGED shells /\ \/ UNCHANGED pc
                               \/ pc' = "failed" /\ shells["initial"] # "open"
                                  /\ shells["retry"] # "open"
  BY <1>2
<1>3. CASE OpenShell
  BY <1>1, <1>3 DEF OpenShell
<1>4. CASE OpenRetryShell
  BY <1>1, <1>4 DEF OpenRetryShell
<1>5. CASE CloseRetryShell
  BY <1>1, <1>5 DEF CloseRetryShell
<1>6. CASE CloseRetryShellRaises
  BY <1>1, <1>6 DEF CloseRetryShellRaises
<1>7. CASE CloseShell
  BY <1>1, <1>7 DEF CloseShell
<1>8. CASE RunRaises
  BY <1>1, <1>8 DEF RunRaises
<1>9. CASE Interrupt
  BY <1>1, <1>9 DEF Interrupt
<1>10. CASE \/ MakeWorkspace \/ InitialAttempt \/ WriteInitial \/ NoRecovery
            \/ BeginRetry \/ RetryAttempt \/ RetryAttemptRaises \/ BeginRecovery
            \/ Analyzed \/ Planned \/ RecoveryAttempt \/ NameRecovery
            \/ WriteRecovery \/ RecoveryRaises \/ WriteFinalPatch
            \/ WriteModelCalls \/ WriteResult
  <2>1. UNCHANGED shells
    BY <1>10 DEF MakeWorkspace, InitialAttempt, WriteInitial, NoRecovery,
            BeginRetry, RetryAttempt, RetryAttemptRaises, BeginRecovery,
            Analyzed, Planned, RecoveryAttempt, NameRecovery, WriteRecovery,
            RecoveryRaises, WriteFinalPatch, WriteModelCalls, WriteResult
  <2>2. \/ /\ pc \notin {"retry attempt", "retry close", "retry unwind"}
           /\ pc' \notin {"workspace", "shell", "final patch", "model calls",
                          "result", "done", "failed"}
        \/ pc \in {"retry attempt"} /\ pc' \in {"retry close", "retry unwind"}
        \/ pc \in {"final patch", "model calls", "result"}
        \/ pc = "workspace"
    BY <1>10 DEF MakeWorkspace, InitialAttempt, WriteInitial, NoRecovery,
            BeginRetry, RetryAttempt, RetryAttemptRaises, BeginRecovery,
            Analyzed, Planned, RecoveryAttempt, NameRecovery, WriteRecovery,
            RecoveryRaises, WriteFinalPatch, WriteModelCalls, WriteResult,
            InRecovery
  <2> QED
    BY <2>1, <2>2
<1>11. CASE Act \/ PlanningCall \/ UNCHANGED vars
  BY <1>11 DEF Act, PlanningCall, vars
<1> QED
  BY <1>3, <1>4, <1>5, <1>6, <1>7, <1>8, <1>9, <1>10, <1>11
  DEF Next, Progress, Failure

\* However a run ends, each shell that was opened was closed (the two finally
\* clauses, which errors, a shell that cannot be closed and interrupts pass).
THEOREM RunClosesShells == Spec => []ShellsClosed
<1>1. Init => ShellInv
  BY DEF Init, ShellInv, Workspaces
<1>2. ShellInv => ShellsClosed
  BY DEF ShellInv, ShellsClosed, Ended, Workspaces
<1>3. Init /\ [][Next]_vars => []ShellInv
  BY <1>1, InitTypeInv, NextTypeInv, NextShellInv, PTL
<1> QED
  BY <1>2, <1>3, PTL DEF Spec

-----------------------------------------------------------------------------
(* The files are written in their order.                                   *)

\* A step of the run is one of before its end.
LEMMA NextBeforeEnd == ASSUME Next PROVE pc \notin {"done", "failed"}
<1>1. CASE Progress
  BY <1>1 DEF Progress, MakeWorkspace, OpenShell, Act, Working,
       InitialAttempt, WriteInitial, NoRecovery, BeginRetry, OpenRetryShell,
       RetryAttempt, CloseRetryShell, BeginRecovery, PlanningCall, Analyzed,
       Planned, RecoveryAttempt, NameRecovery, WriteRecovery, CloseShell,
       WriteFinalPatch, WriteModelCalls, WriteResult, Goto
<1>2. CASE Failure
  BY <1>2 DEF Failure, RetryAttemptRaises, CloseRetryShellRaises, RecoveryRaises,
       InRecovery, RunRaises, Interrupt, Goto
<1> QED
  BY <1>1, <1>2 DEF Next

\* Every step leaves the files that the place it leads to asks for.
LEMMA NextFilesInv == TypeInv /\ FilesInv /\ [Next]_vars => FilesInv'
<1> SUFFICES ASSUME TypeInv, FilesInv, [Next]_vars PROVE FilesInv'
  OBVIOUS
<1>0. CASE UNCHANGED vars
  BY <1>0 DEF vars, task, work, report, files, FilesInv
<1> SUFFICES ASSUME Next PROVE FilesInv'
  BY <1>0
<1>a. pc \notin {"done", "failed"} /\ result = NoResult
  BY NextBeforeEnd DEF FilesInv
<1>b. /\ patches \in [Names -> Patches \cup {NoFile}]
      /\ "initial.patch" \in Names /\ "recovery.patch" \in Names
      /\ "final.patch" \in Names
  BY DEF TypeInv, TypeOK, Names
<1>c. pc \in Points /\ attempted \in BOOLEAN /\ error \in BOOLEAN
  BY DEF TypeInv, TypeOK, Provided
<1> USE DEF FilesInv, Goto, Tried, Points, Closing, task, work, report, files
<1>1. CASE MakeWorkspace
  BY <1>a, <1>1 DEF MakeWorkspace
<1>2. CASE OpenShell
  BY <1>a, <1>2 DEF OpenShell
<1>3. CASE Act
  BY <1>a, <1>3 DEF Act, Working
<1>4. CASE InitialAttempt
  BY <1>a, <1>4 DEF InitialAttempt
<1>5. CASE WriteInitial
  BY <1>a, <1>b, <1>5 DEF WriteInitial, Write
<1>6. CASE NoRecovery
  BY <1>a, <1>6 DEF NoRecovery
<1>7. CASE BeginRetry
  BY <1>a, <1>7 DEF BeginRetry
<1>8. CASE OpenRetryShell
  BY <1>a, <1>8 DEF OpenRetryShell
<1>9. CASE RetryAttempt
  BY <1>a, <1>9 DEF RetryAttempt
<1>10. CASE RetryAttemptRaises
  BY <1>a, <1>10 DEF RetryAttemptRaises
<1>11. CASE CloseRetryShell
  BY <1>a, <1>11 DEF CloseRetryShell
<1>12. CASE CloseRetryShellRaises
  BY <1>a, <1>12 DEF CloseRetryShellRaises
<1>13. CASE BeginRecovery
  BY <1>a, <1>13 DEF BeginRecovery
<1>14. CASE PlanningCall
  BY <1>a, <1>14 DEF PlanningCall
<1>15. CASE Analyzed
  BY <1>a, <1>15 DEF Analyzed
<1>16. CASE Planned
  BY <1>a, <1>16 DEF Planned
<1>17. CASE RecoveryAttempt
  BY <1>a, <1>17 DEF RecoveryAttempt
<1>18. CASE NameRecovery
  BY <1>a, <1>18 DEF NameRecovery
<1>19. CASE WriteRecovery
  BY <1>a, <1>b, <1>19 DEF WriteRecovery, Write
<1>20. CASE RecoveryRaises
  <2>1. /\ pc \in InRecovery /\ pc' = "close" /\ error' = TRUE
        /\ UNCHANGED <<task, initial, final, finalAttempt, attempted, result>>
        /\ others \subseteq others'
        /\ patches'["initial.patch"] = patches["initial.patch"]
    BY <1>b, <1>20 DEF RecoveryRaises
  <2> QED
    BY <1>a, <2>1 DEF InRecovery
<1>21. CASE CloseShell
  BY <1>a, <1>21 DEF CloseShell
<1>22. CASE WriteFinalPatch
  BY <1>a, <1>b, <1>22 DEF WriteFinalPatch, Write
<1>23. CASE WriteModelCalls
  BY <1>a, <1>23 DEF WriteModelCalls
<1>24. CASE WriteResult
  BY <1>a, <1>24 DEF WriteResult
<1>25. CASE RunRaises
  BY <1>a, <1>25 DEF RunRaises
<1>26. CASE Interrupt
  BY <1>a, <1>26 DEF Interrupt
<1> QED
  BY <1>1, <1>2, <1>3, <1>4, <1>5, <1>6, <1>7, <1>8, <1>9, <1>10, <1>11, <1>12,
     <1>13, <1>14, <1>15, <1>16, <1>17, <1>18, <1>19, <1>20, <1>21, <1>22, <1>23,
     <1>24, <1>25, <1>26 DEF Next, Progress, Failure

\* Types and files together, from the first state on.
LEMMA RunFilesInv == Init /\ [][Next]_vars => [](TypeInv /\ FilesInv)
<1>1. Init => FilesInv
  BY DEF Init, FilesInv, Tried, Closing
<1> QED
  BY <1>1, InitTypeInv, NextTypeInv, NextFilesInv, PTL

\* final_result.json is the last file, and what it says of the others holds: a
\* directory that has it may be skipped, whenever the process died
\* (ExperimentController.run, and the skip of completed tasks).
THEOREM ResultComesLast == Spec => []ResultIsComplete
<1>1. ASSUME TypeInv, FilesInv, result # NoResult
      PROVE  ResultIsComplete
  <2>1. /\ result.patch = final.patch /\ result.attempt = finalAttempt
        /\ result.recovered = (attempted /\ ~initial.success /\ final.success)
        /\ result.error = error
    BY <1>1 DEF FilesInv
  <2>2. /\ {"metadata.json", "model_calls.json"} \subseteq others
        /\ patches["final.patch"] = final.patch
        /\ patches["initial.patch"] = initial.patch
        /\ attempted /\ ~error =>
               finalAttempt = "recovery" /\ patches["recovery.patch"] = final.patch
    BY <1>1 DEF FilesInv, Tried, Points, Closing
  <2>3. result.recovered /\ ~result.error => attempted /\ ~error
    BY <2>1, Zenon
  <2> QED
    BY <2>1, <2>2, <2>3 DEF ResultIsComplete
<1>2. TypeInv /\ FilesInv => ResultIsComplete
  BY <1>1 DEF ResultIsComplete
<1> QED
  BY <1>2, RunFilesInv, PTL DEF Spec

-----------------------------------------------------------------------------
(* Verdict and patch speak of the same code.                               *)

\* Of a file that nobody staged the diff is the step from the base commit to the
\* working tree, or nothing, or the deletion of an empty file; of one that it
\* ignores it is nothing.
LEMMA DiffIsTheStep ==
    ASSUME NEW s \in Suites, NEW c \in Clones,
           NEW ignored \in SUBSET Untracked(c),
           NEW f \in Files \ Staged(Tracked(c, ignored), s)
    PROVE  LET changes == {change \in Diff(Tracked(c, ignored)) : change[1] = f} IN
           IF f \in ignored THEN changes = {}
           ELSE IF c.tree[f] = Base(s)[f]
           THEN changes \subseteq {<<f, "empty", "absent">>}
           ELSE changes = {Change(f, Base(s)[f], c.tree[f])}
<1> DEFINE d == Tracked(c, ignored)
           base == Base(s)[f]
           changes == {change \in Diff(d) : change[1] = f}
           step == Change(f, Old(d, f), d.tree[f])
<1>1. /\ c.tree[f] \in Contents /\ d.tree = c.tree /\ d.index[f] \in Entries
      /\ base \in Contents
  <2>1. ignored \in SUBSET Files
    BY CloneTypes
  <2>2. d \in Clones /\ d.tree = c.tree
    BY <2>1, CloneTypes
  <2> HIDE DEF d
  <2>3. c.tree[f] \in Contents /\ d.index[f] \in Entries
    BY <2>2 DEF Clones
  <2>4. base \in Contents
    BY CloneTypes DEF Trees
  <2> QED
    BY <2>2, <2>3, <2>4
<1>2. d.index[f] = base \/ (d.index[f] = "intent" /\ base = "absent")
  BY DEF Staged
<1>3. /\ d.index[f] = "absent" => c.tree[f] = "absent" \/ f \in ignored
      /\ f \in ignored => d.index[f] = "absent"
  BY DEF Tracked, Clones, Untracked
<1>4. changes = IF d.index[f] \in {"absent", d.tree[f]} THEN {} ELSE {step}
  BY DEF Diff, Change
<1>0. /\ Decoded("absent") = "absent" /\ Decoded("empty") = "empty"
  BY WorkspaceAssumption DEF Decoded, Contents
<1> HIDE DEF d, base, changes
<1>5. CASE f \in ignored
  BY <1>3, <1>4, <1>5 DEF changes, d
<1>6. CASE f \notin ignored /\ c.tree[f] = base
  <2>1. d.index[f] \notin {"absent", d.tree[f]} => step = <<f, "empty", "absent">>
    BY <1>0, <1>1, <1>2, <1>6 DEF Old, Change
  <2> QED
    BY <1>1, <1>4, <1>6, <2>1 DEF changes, base, d
<1>7. CASE f \notin ignored /\ c.tree[f] # base
  <2>1. d.index[f] \notin {"absent", d.tree[f]}
    BY <1>1, <1>2, <1>3, <1>7 DEF Contents
  <2>2. step = Change(f, base, c.tree[f])
    BY <1>1, <1>2, <1>7 DEF Old, Contents
  <2> QED
    BY <1>4, <1>7, <2>1, <2>2 DEF changes, base, d
<1> QED
  BY <1>5, <1>6, <1>7

\* An evaluation brings official tests into a tree only as a new file or by being
\* cut off, and takes nothing of the initial attempt into a clone without it.
LEMMA EvaluatedClones ==
    ASSUME TypeInv, ClonesInv, NEW w \in Workspaces, roots[w] \in Clones,
           NEW e \in Evaluations(roots[w], suite),
           NEW clone \in Clones, clone.tree = e.after.tree,
           Evaluated(w, e, clone), suite' = suite
    PROVE  /\ ClonesInv'
           /\ suite # "adds" /\ w \notin cut' => Free(clone.tree, "official")
           /\ w = "retry" => Free(e.tested, "initial")
<1>0. suite \in Suites /\ roots \in [Workspaces -> Clones \cup {NoFile}]
  BY DEF TypeInv, TypeOK
<1>1. /\ \A f \in {"code", "note"} :
             /\ e.after.tree[f] \in {roots[w].tree[f], "artifact"}
             /\ e.tested[f] = roots[w].tree[f]
      /\ suite # "adds" /\ ~e.cut /\ roots[w].tree["test"] # "official"
             => e.after.tree["test"] # "official"
      /\ e.tested["test"] \in {roots[w].tree["test"], "base", "official"}
      /\ e.after.tree["test"] \in {roots[w].tree["test"], "base", "official"}
  BY <1>0, EvaluationFacts
<1>2. /\ roots' = [roots EXCEPT ![w] = clone]
      /\ cut' = IF e.cut THEN cut \cup {w} ELSE cut
  BY DEF Evaluated
<1>3. suite # "adds" /\ w \notin cut' => Free(clone.tree, "official")
  <2> SUFFICES ASSUME suite # "adds", w \notin cut'
               PROVE  Free(clone.tree, "official")
    OBVIOUS
  <2>1. ~e.cut /\ w \notin cut
    BY <1>2
  <2>2. Free(roots[w].tree, "official")
    BY <2>1 DEF ClonesInv
  <2> QED
    BY <1>1, <2>1, <2>2 DEF Free, Files
<1>4. w = "retry" => Free(clone.tree, "initial") /\ Free(e.tested, "initial")
  BY <1>1 DEF ClonesInv, Free, Files
<1>5. ClonesInv'
  <2>1. /\ roots'[w] = clone /\ \A u \in Workspaces \ {w} : roots'[u] = roots[u]
        /\ cut \subseteq cut'
    BY <1>0, <1>2
  <2>2. ASSUME NEW u \in Workspaces, roots'[u] \in Clones, suite # "adds", u \notin cut'
        PROVE  Free(roots'[u].tree, "official")
    BY <1>3, <2>1, <2>2 DEF ClonesInv
  <2>3. roots'["retry"] \in Clones => Free(roots'["retry"].tree, "initial")
    BY <1>4, <2>1 DEF ClonesInv, Workspaces
  <2> QED
    BY <2>2, <2>3 DEF ClonesInv
<1> QED
  BY <1>3, <1>4, <1>5

\* What an attempt does on the way keeps the clones as they have to be.
LEMMA ActClones == ASSUME TypeInv, ClonesInv, Act PROVE ClonesInv'
<1>0. /\ suite \in Suites /\ suite' = suite
      /\ roots \in [Workspaces -> Clones \cup {NoFile}]
      /\ Root \in Workspaces /\ roots[Root] \in Clones
      /\ Phase \in {"initial", "recovery"} /\ (Root = "retry" => Phase = "recovery")
  <2>1. /\ suite \in Suites /\ roots \in [Workspaces -> Clones \cup {NoFile}]
    BY DEF TypeInv, TypeOK
  <2>2. pc \in Working /\ Provided /\ suite' = suite
    BY DEF Act, TypeInv, task
  <2>3. Root \in Workspaces /\ roots[Root] \in Clones
    BY <2>2 DEF Provided, Root, Working, Workspaces
  <2>4. Phase \in {"initial", "recovery"} /\ (Root = "retry" => Phase = "recovery")
    BY DEF Phase, Root
  <2> QED
    BY <2>1, <2>2, <2>3, <2>4
\* A clone whose tree is free of what it was free of.
<1>1. ASSUME NEW clone \in Clones, roots' = [roots EXCEPT ![Root] = clone], cut' = cut,
             Free(roots[Root].tree, "official") => Free(clone.tree, "official"),
             Root = "retry" /\ Free(roots[Root].tree, "initial")
                 => Free(clone.tree, "initial")
      PROVE  ClonesInv'
  <2>1. /\ roots'[Root] = clone /\ \A u \in Workspaces \ {Root} : roots'[u] = roots[u]
    BY <1>0, <1>1
  <2>2. ASSUME NEW u \in Workspaces, roots'[u] \in Clones, suite # "adds", u \notin cut
        PROVE  Free(roots'[u].tree, "official")
    BY <1>0, <1>1, <2>1, <2>2 DEF ClonesInv
  <2>3. roots'["retry"] \in Clones => Free(roots'["retry"].tree, "initial")
    BY <1>0, <1>1, <2>1 DEF ClonesInv, Workspaces
  <2> QED
    BY <1>0, <1>1, <2>2, <2>3 DEF ClonesInv
<1>2. CASE \E f \in Files, content \in {Phase, "absent"} :
               roots' = [roots EXCEPT ![Root] = Edit(@, f, content)]
           /\ UNCHANGED cut
  <2>1. PICK f \in Files, content \in {Phase, "absent"} :
            roots' = [roots EXCEPT ![Root] = Edit(roots[Root], f, content)]
    BY <1>2
  <2>2. content \in Contents /\ Edit(roots[Root], f, content) \in Clones
    BY <1>0, CloneTypes DEF Contents
  <2>3. \A g \in Files : Edit(roots[Root], f, content).tree[g] =
                             IF g = f THEN content ELSE roots[Root].tree[g]
    BY <1>0 DEF Edit, Clones
  <2>4. content # "official" /\ (Root = "retry" => content # "initial")
    BY <1>0
  <2> QED
    BY <1>1, <1>2, <2>1, <2>2, <2>3, <2>4 DEF Free
<1>3. CASE \E f \in Files : roots' = [roots EXCEPT ![Root] = Stage(@, f)]
           /\ UNCHANGED cut
  <2>1. PICK f \in Files : roots' = [roots EXCEPT ![Root] = Stage(roots[Root], f)]
    BY <1>3
  <2>2. Stage(roots[Root], f) \in Clones /\ Stage(roots[Root], f).tree = roots[Root].tree
    BY <1>0, CloneTypes DEF Stage, Clones
  <2> QED
    BY <1>1, <1>3, <2>1, <2>2
<1>4. CASE \E e \in Evaluations(roots[Root], suite) : Evaluated(Root, e, e.after)
  <2>1. PICK e \in Evaluations(roots[Root], suite) : Evaluated(Root, e, e.after)
    BY <1>4
  <2>2. e.after \in Clones
    BY <1>0, EvaluationFacts
  <2> QED
    BY <1>0, <2>1, <2>2, EvaluatedClones
<1> QED
  BY <1>2, <1>3, <1>4 DEF Act

\* An attempt ends with an outcome whose verdict and patch speak of one code.
LEMMA AttemptAgrees ==
    ASSUME TypeInv, ClonesInv, NEW w \in Workspaces, roots[w] \in Clones,
           Attempt(w), suite' = suite
    PROVE  /\ ClonesInv' /\ Agrees(final)' /\ final'.by = Phase
           /\ w = "retry" => Free(final'.tested, "initial")
<1>0. suite \in Suites
  BY DEF TypeInv, TypeOK
<1>b. PICK e \in Evaluations(roots[w], suite) :
          \E ignored \in SUBSET (Ignorable \cap Untracked(e.after)) :
              LET clone == Tracked(e.after, ignored) IN
              /\ Evaluated(w, e, clone) /\ acts' = acts
              /\ final' = [success |-> e.success, patch |-> Diff(clone), by |-> Phase,
                           tested |-> e.tested, staged |-> Staged(clone, suite),
                           ignored |-> ignored, cut |-> w \in cut']
  BY DEF Attempt
<1>1. PICK ignored \in SUBSET (Ignorable \cap Untracked(e.after)) :
          LET clone == Tracked(e.after, ignored) IN
          /\ Evaluated(w, e, clone) /\ acts' = acts
          /\ final' = [success |-> e.success, patch |-> Diff(clone), by |-> Phase,
                       tested |-> e.tested, staged |-> Staged(clone, suite),
                       ignored |-> ignored, cut |-> w \in cut']
  BY <1>b
<1> DEFINE clone == Tracked(e.after, ignored)
<1>2. /\ e.after \in Clones
      /\ \A f \in {"code", "note"} :
             \/ e.after.tree[f] = e.tested[f]
             \/ f = "note" /\ e.tested[f] = "absent" /\ e.after.tree[f] = "artifact"
  BY <1>0, EvaluationFacts
<1>a. ignored \in SUBSET Untracked(e.after) /\ ignored \in SUBSET Files
  BY <1>0, <1>2, CloneTypes
<1>3. clone \in Clones /\ clone.tree = e.after.tree
  BY <1>0, <1>2, <1>a, CloneTypes
<1>4. /\ ClonesInv'
      /\ suite # "adds" /\ w \notin cut' => Free(clone.tree, "official")
      /\ w = "retry" => Free(e.tested, "initial")
  BY <1>1, <1>3, EvaluatedClones
<1>5. /\ final'.patch = Diff(clone) /\ final'.tested = e.tested
      /\ final'.staged = Staged(clone, suite) /\ final'.ignored = ignored
      /\ final'.cut = (w \in cut') /\ final'.by = Phase
  BY <1>1
<1>6. \A f \in {"code", "note"} \ final'.staged :
          LET changes == {change \in final'.patch : change[1] = f}
              base == Base(suite)[f]
              Step(new) == Change(f, base, new) IN
          IF f \in final'.ignored THEN changes = {}
          ELSE IF final'.tested[f] # base THEN changes = {Step(final'.tested[f])}
          ELSE \/ changes \subseteq {<<f, "empty", "absent">>}
               \/ base = "absent" /\ changes = {Step("artifact")}
  <2> TAKE f \in {"code", "note"} \ final'.staged
  <2> DEFINE changes == {change \in Diff(clone) : change[1] = f}
             base == Base(suite)[f]
  <2>1. f \in Files \ Staged(clone, suite)
    BY <1>5 DEF Files
  <2>2. IF f \in ignored THEN changes = {}
        ELSE IF e.after.tree[f] = base THEN changes \subseteq {<<f, "empty", "absent">>}
        ELSE changes = {Change(f, base, e.after.tree[f])}
    BY <1>0, <1>2, <1>a, <2>1, DiffIsTheStep
  <2> HIDE DEF changes, clone
  <2>3. CASE e.after.tree[f] = e.tested[f]
    BY <1>5, <2>2, <2>3 DEF changes
  <2>4. CASE f = "note" /\ e.tested[f] = "absent" /\ e.after.tree[f] = "artifact"
    <3>1. base = "absent"
      BY <2>4 DEF Base, Files
    <3>2. f \notin ignored => changes = {Change(f, base, "artifact")}
      BY <2>2, <2>4, <3>1
    <3>3. f \in ignored => changes = {}
      BY <2>2
    <3>4. final'.tested[f] = base /\ final'.ignored = ignored
      BY <1>5, <2>4, <3>1
    <3>5. changes = {change \in final'.patch : change[1] = f}
      BY <1>5 DEF changes
    <3> QED
      BY <3>1, <3>2, <3>3, <3>4, <3>5, Zenon
  <2> QED
    BY <1>2, <2>3, <2>4
<1>7. (\E change \in final'.patch : change[3] = "official")
          => suite = "adds" \/ w \in cut'
  <2> SUFFICES ASSUME NEW change \in Diff(clone), change[3] = "official"
               PROVE  suite = "adds" \/ w \in cut'
    BY <1>5
  <2>1. \E f \in Files : clone.tree[f] = "official"
    <3>1. PICK f \in Files : change = Change(f, Old(clone, f), clone.tree[f])
      BY Zenon DEF Diff
    <3>2. change[3] = Decoded(clone.tree[f])
      BY <3>1 DEF Change
    <3> QED
      BY <3>2 DEF Decoded
  <2> QED
    BY <1>4, <2>1 DEF Free
<1>8. Agrees(final)'
  BY <1>5, <1>6, <1>7 DEF Agrees
<1> QED
  BY <1>4, <1>5, <1>8

\* Every step keeps the clones as they have to be.
LEMMA NextClones == TypeInv /\ ClonesInv /\ [Next]_vars => ClonesInv'
<1> SUFFICES ASSUME TypeInv, ClonesInv, [Next]_vars PROVE ClonesInv'
  OBVIOUS
<1>0. /\ suite \in Suites /\ "initial" \in Workspaces /\ "retry" \in Workspaces
      /\ roots \in [Workspaces -> Clones \cup {NoFile}]
  BY DEF TypeInv, TypeOK, Workspaces
<1>1. CASE UNCHANGED <<suite, roots, cut>>
  BY <1>1 DEF ClonesInv
<1>2. CASE Act
  BY <1>2, ActClones
<1>3. CASE InitialAttempt \/ RetryAttempt \/ RecoveryAttempt
  <2>1. PICK w \in Workspaces : Attempt(w) /\ roots[w] \in Clones
    BY <1>3 DEF InitialAttempt, RetryAttempt, RecoveryAttempt, Goto, TypeInv,
                Provided, Workspaces
  <2>2. suite' = suite
    BY <1>3 DEF InitialAttempt, RetryAttempt, RecoveryAttempt, task
  <2> QED
    BY <2>1, <2>2, AttemptAgrees
<1>4. CASE MakeWorkspace \/ BeginRetry
  <2>1. PICK w \in Workspaces : roots' = [roots EXCEPT ![w] = Clone(suite)]
    BY <1>0, <1>4 DEF MakeWorkspace, BeginRetry
  <2>2. suite' = suite /\ cut' = cut
    BY <1>4 DEF MakeWorkspace, BeginRetry, task
  <2>3. \A f \in Files : Clone(suite).tree[f] \in {"absent", "base"}
    BY DEF Clone, Base
  <2>4. \A u \in Workspaces : roots'[u] = roots[u] \/ roots'[u] = Clone(suite)
    BY <1>0, <2>1
  <2> QED
    BY <1>0, <2>2, <2>3, <2>4 DEF ClonesInv, Free
<1>5. CASE Next /\ ~Act /\ ~InitialAttempt /\ ~RetryAttempt /\ ~RecoveryAttempt
           /\ ~MakeWorkspace /\ ~BeginRetry
  <2>1. CASE Progress
    BY <1>1, <1>5, <2>1 DEF Progress, OpenShell, WriteInitial, NoRecovery,
       OpenRetryShell, CloseRetryShell, BeginRecovery, PlanningCall, Analyzed,
       Planned, NameRecovery, WriteRecovery, CloseShell, WriteFinalPatch,
       WriteModelCalls, WriteResult, task, work
  <2>2. CASE Failure
    BY <1>1, <2>2 DEF Failure, RetryAttemptRaises, CloseRetryShellRaises,
       RecoveryRaises, RunRaises, Interrupt, task, work
  <2> QED
    BY <1>5, <2>1, <2>2 DEF Next
<1>6. CASE UNCHANGED vars
  BY <1>1, <1>6 DEF vars, task, work
<1> QED
  BY <1>2, <1>3, <1>4, <1>5, <1>6

\* Every step keeps the outcome that will be reported one of its own tests.
LEMMA NextFinal == TypeInv /\ CodeInv /\ [Next]_vars => FinalInv'
<1> SUFFICES ASSUME TypeInv, CodeInv, [Next]_vars PROVE FinalInv'
  OBVIOUS
<1>0. pc \in Points /\ condition \in Conditions
  BY DEF TypeInv, TypeOK, Provided
<1> USE DEF FinalInv, Goto, Tried, Points
<1>1. CASE InitialAttempt
  <2>1. /\ "initial" \in Workspaces /\ roots["initial"] \in Clones
        /\ Attempt("initial") /\ suite' = suite
    BY <1>1 DEF InitialAttempt, TypeInv, Provided, Workspaces, task
  <2>2. Agrees(final)'
    BY <2>1, AttemptAgrees DEF CodeInv
  <2>3. pc' = "initial files" /\ initial' = final'
    BY <1>1 DEF InitialAttempt
  <2> QED
    BY <2>2, <2>3
<1>2. CASE RetryAttempt
  <2>1. /\ "retry" \in Workspaces /\ roots["retry"] \in Clones
        /\ Attempt("retry") /\ suite' = suite
    BY <1>2 DEF RetryAttempt, TypeInv, Provided, Workspaces, task
  <2>2. Agrees(final)' /\ Free(final'.tested, "initial")
    BY <2>1, AttemptAgrees DEF CodeInv
  <2>3. pc' = "retry close"
    BY <1>2 DEF RetryAttempt
  <2> QED
    BY <2>2, <2>3
<1>3. CASE RecoveryAttempt
  <2>1. /\ "initial" \in Workspaces /\ roots["initial"] \in Clones
        /\ Attempt("initial") /\ suite' = suite
    BY <1>3 DEF RecoveryAttempt, TypeInv, Provided, Workspaces, task
  <2>2. Agrees(final)'
    BY <2>1, AttemptAgrees DEF CodeInv
  <2>3. pc' = "name" /\ condition' = "contextrepair"
    BY <1>3 DEF RecoveryAttempt, CodeInv, task
  <2> QED
    BY <2>2, <2>3
<1>4. ASSUME UNCHANGED <<condition, suite, final, initial>>,
             pc' \in {"analyze", "plan", "recovery attempt"} =>
                 condition = "contextrepair",
             pc' \in {"initial files", "choose"} => pc \in {"initial files", "choose"},
             pc' \in Tried => pc \in Tried
      PROVE  FinalInv'
  <2>1. Agrees(final)' = Agrees(final)
    BY <1>4 DEF Agrees
  <2> QED
    BY <1>4, <2>1 DEF CodeInv
<1>5. CASE Next /\ ~InitialAttempt /\ ~RetryAttempt /\ ~RecoveryAttempt
  <2>1. UNCHANGED <<condition, suite, final, initial>>
    <3>1. CASE Progress
      BY <1>5, <3>1 DEF Progress, MakeWorkspace, OpenShell, Act, WriteInitial,
         NoRecovery, BeginRetry, OpenRetryShell, CloseRetryShell, BeginRecovery,
         PlanningCall, Analyzed, Planned, NameRecovery, WriteRecovery, CloseShell,
         WriteFinalPatch, WriteModelCalls, WriteResult, task, report
    <3>2. CASE Failure
      BY <3>2 DEF Failure, RetryAttemptRaises, CloseRetryShellRaises,
         RecoveryRaises, RunRaises, Interrupt, task, report
    <3> QED
      BY <1>5, <3>1, <3>2 DEF Next
  <2>2. /\ pc' \in {"analyze", "plan", "recovery attempt"} =>
               condition = "contextrepair"
        /\ pc' \in {"initial files", "choose"} => pc \in {"initial files", "choose"}
        /\ pc' \in Tried => pc \in Tried
    <3>1. CASE Progress
      BY <1>5, <3>1 DEF CodeInv, Progress, MakeWorkspace, OpenShell, Act, Working,
         WriteInitial, NoRecovery, BeginRetry, OpenRetryShell, CloseRetryShell,
         BeginRecovery, PlanningCall, Analyzed, Planned, NameRecovery,
         WriteRecovery, CloseShell, WriteFinalPatch, WriteModelCalls, WriteResult
    <3>2. CASE Failure
      BY <3>2 DEF Failure, RetryAttemptRaises, CloseRetryShellRaises,
         RecoveryRaises, InRecovery, RunRaises, Interrupt
    <3> QED
      BY <1>5, <3>1, <3>2 DEF Next
  <2> QED
    BY <1>4, <2>1, <2>2
<1>6. CASE UNCHANGED vars
  <2>1. UNCHANGED <<condition, suite, final, initial, pc>>
    BY <1>6 DEF vars, task, report
  <2> QED
    BY <1>4, <2>1 DEF CodeInv
<1> QED
  BY <1>1, <1>2, <1>3, <1>5, <1>6

\* Types, files and code together, from the first state on.
LEMMA RunCodeInv == Init /\ [][Next]_vars => [](TypeInv /\ FilesInv /\ CodeInv)
<1>1. Init => CodeInv
  BY TaskRunAssumption DEF Init, CodeInv, ClonesInv, FinalInv, Tried, Workspaces
<1>2. TypeInv /\ CodeInv /\ [Next]_vars => CodeInv'
  BY NextClones, NextFinal DEF CodeInv
<1> QED
  BY <1>1, <1>2, RunFilesInv, NextTypeInv, PTL

\* The verdict and the patch of a result speak of the same code but for what the
\* diff ignores, cannot decode or finds left behind by the tests, whatever other
\* attempts and evaluations that were cut off did to the clone, and a retry has
\* nothing of the initial attempt (ExperimentController.run, EditorTool.diff).
THEOREM PatchWasTested == Spec => []PatchIsWhatWasTested
<1>1. ASSUME TypeInv, FilesInv, CodeInv, result # NoResult
      PROVE  PatchIsWhatWasTested
  <2>1. /\ pc = "done" /\ result.patch = final.patch
        /\ result.recovered = (attempted /\ ~initial.success /\ final.success)
    BY <1>1 DEF FilesInv
  <2>2. /\ Agrees(final)
        /\ condition = "retry" => final = initial \/ Free(final.tested, "initial")
    BY <1>1, <2>1 DEF CodeInv, FinalInv, Tried, Points
  <2>3. result.recovered => final # initial
    BY <2>1, Zenon
  <2>4. condition = "retry" /\ result.recovered =>
            \A f \in Files : final.tested[f] # "initial"
    BY <2>2, <2>3 DEF Free
  <2> QED
    BY <2>1, <2>2, <2>4 DEF PatchIsWhatWasTested, Agrees
<1>2. TypeInv /\ FilesInv /\ CodeInv => PatchIsWhatWasTested
  BY <1>1 DEF PatchIsWhatWasTested
<1> QED
  BY <1>2, RunCodeInv, PTL DEF Spec

-----------------------------------------------------------------------------
(* The result is named after its attempt.                                  *)

\* An outcome is of the attempt at work.
LEMMA AttemptBy == ASSUME NEW w \in Workspaces, Attempt(w) PROVE final'.by = Phase
BY DEF Attempt

\* Every step keeps the name with the outcome.
LEMMA NextNameInv == TypeInv /\ NameInv /\ [Next]_vars => NameInv'
<1> SUFFICES ASSUME TypeInv, NameInv, [Next]_vars PROVE NameInv'
  OBVIOUS
<1>0. CASE UNCHANGED vars
  BY <1>0 DEF vars, task, work, report, files, NameInv, Named
<1> SUFFICES ASSUME Next PROVE NameInv'
  BY <1>0
<1>a. pc \notin {"done", "failed"} /\ pc \in Points
  BY NextBeforeEnd DEF TypeInv, Provided
<1> USE DEF NameInv, Named, Retrying, Goto, Tried, Points, Closing, task, report
<1>1. CASE InitialAttempt
  <2>1. final'.by = "initial"
    BY <1>1, AttemptBy DEF InitialAttempt, Phase, Workspaces
  <2> QED
    BY <1>1, <2>1 DEF InitialAttempt
<1>2. CASE RetryAttempt
  <2>1. final'.by = "recovery"
    BY <1>2, AttemptBy DEF RetryAttempt, Phase, Workspaces
  <2> QED
    BY <1>2, <2>1 DEF RetryAttempt
<1>3. CASE RecoveryAttempt
  <2>1. final'.by = "recovery"
    BY <1>3, AttemptBy DEF RecoveryAttempt, Phase, Workspaces
  <2> QED
    BY <1>3, <2>1 DEF RecoveryAttempt
<1>4. CASE NameRecovery \/ WriteRecovery
  BY <1>4 DEF NameRecovery, WriteRecovery
<1>5. CASE CloseRetryShell \/ CloseRetryShellRaises
  BY <1>5 DEF CloseRetryShell, CloseRetryShellRaises
<1>6. CASE RecoveryRaises
  BY <1>6 DEF RecoveryRaises, InRecovery
<1>7. CASE MakeWorkspace \/ OpenShell \/ Act \/ WriteInitial \/ NoRecovery
  BY <1>7 DEF MakeWorkspace, OpenShell, Act, Working, WriteInitial, NoRecovery
<1>8. CASE \/ BeginRetry \/ OpenRetryShell \/ RetryAttemptRaises
           \/ BeginRecovery \/ PlanningCall \/ Analyzed \/ Planned
  BY <1>8 DEF BeginRetry, OpenRetryShell, RetryAttemptRaises, BeginRecovery,
     PlanningCall, Analyzed, Planned
<1>9. CASE CloseShell \/ WriteFinalPatch \/ WriteModelCalls \/ WriteResult
  BY <1>9 DEF CloseShell, WriteFinalPatch, WriteModelCalls, WriteResult
<1>10. CASE RunRaises \/ Interrupt
  BY <1>10 DEF RunRaises, Interrupt
<1> QED
  BY <1>1, <1>2, <1>3, <1>4, <1>5, <1>6, <1>7, <1>8, <1>9, <1>10
  DEF Next, Progress, Failure

\* A result is named after the attempt it reports, whatever raised in between,
\* but for a retry whose shell could not be closed (ExperimentController.run).
THEOREM ResultNamed == Spec => []ResultNamesItsAttempt
<1>1. Init => NameInv
  BY DEF Init, NameInv, Tried, Retrying, Closing
<1>2. ASSUME FilesInv, NameInv, result # NoResult PROVE ResultNamesItsAttempt
  <2>1. pc = "done" /\ result.attempt = finalAttempt /\ result.error = error
    BY <1>2 DEF FilesInv
  <2> QED
    BY <1>2, <2>1 DEF NameInv, Named, Closing, ResultNamesItsAttempt
<1>3. FilesInv /\ NameInv => ResultNamesItsAttempt
  BY <1>2 DEF ResultNamesItsAttempt
<1>4. Init /\ [][Next]_vars => []NameInv
  BY <1>1, InitTypeInv, NextTypeInv, NextNameInv, PTL
<1> QED
  BY <1>3, <1>4, RunFilesInv, PTL DEF Spec
=============================================================================
