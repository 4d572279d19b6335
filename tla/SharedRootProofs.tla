---------------------------- MODULE SharedRootProofs ----------------------------
(***************************************************************************)
(* What the scans of a shared root count, for every set of commands, with  *)
(* any number of tasks, tokens, retries and faults: never a token twice,   *)
(* and all that did not move while they looked.                            *)
(*                                                                         *)
(* Most of the argument is about one scan and one directory, given as      *)
(* values: s for the scan, f and j for the live files of the directory and *)
(* the journals of its archived siblings.                                  *)
(***************************************************************************)
EXTENDS SharedRoot, FiniteSetTheorems, TLAPS

Journals == Seq(Nat \cup {NoFile})

-----------------------------------------------------------------------------
(* Journals and their tokens.                                              *)

\* What a file says is a number, and what is not there is no token.
LEMMA Amounts ==
    /\ \A x \in Nat \cup {NoFile} : Amount(x) \in Nat /\ (x # NoFile => Amount(x) = x)
    /\ Amount(NoFile) = 0
    /\ \A f \in Files : Counted(f) \in Nat
BY SharedRootAssumption DEF Amount, Counted, Files

\* Sets that have nothing in common.
LEMMA Disjoint ==
    ASSUME NEW A, IsFiniteSet(A), NEW B, IsFiniteSet(B), A \cap B = {}
    PROVE  Cardinality(A \cup B) = Cardinality(A) + Cardinality(B)
<1>1. Cardinality(A \cup B) = Cardinality(A) + Cardinality(B) - Cardinality({})
  BY FS_Union
<1>2. Cardinality({}) = 0 /\ Cardinality(A) \in Nat /\ Cardinality(B) \in Nat
  BY FS_EmptySet, FS_CardinalityType
<1> QED
  BY <1>1, <1>2

\* Journals hold a number of tokens; one journal more, and its tokens are added.
LEMMA HeldParts ==
    ASSUME NEW j \in Journals, NEW S \in SUBSET DOMAIN j
    PROVE  /\ Held(j, S) \in Nat /\ Held(j, {}) = 0
           /\ \A i \in S : Held(j, S) = Held(j, S \ {i}) + Amount(j[i])
<1> DEFINE Part(i) == {i} \X (1 .. Amount(j[i]))
<1>1. IsFiniteSet(S) /\ \A i \in S : j[i] \in Nat \cup {NoFile}
  <2>1. Len(j) \in Nat /\ DOMAIN j = 1 .. Len(j)
    BY DEF Journals
  <2>2. IsFiniteSet(1 .. Len(j))
    BY <2>1, FS_Interval
  <2>3. IsFiniteSet(S)
    BY <2>1, <2>2, FS_Subset
  <2> QED
    BY <2>3 DEF Journals
<1>2. ASSUME NEW i \in S PROVE IsFiniteSet(Part(i)) /\ Cardinality(Part(i)) = Amount(j[i])
  <2>1. Amount(j[i]) \in Nat
    BY <1>1, Amounts
  <2>2. IsFiniteSet(1 .. Amount(j[i])) /\ Cardinality(1 .. Amount(j[i])) = Amount(j[i])
    BY <2>1, FS_Interval
  <2>3. IsFiniteSet({i}) /\ Cardinality({i}) = 1
    BY FS_Singleton
  <2>4. IsFiniteSet(Part(i)) /\ Cardinality(Part(i)) = 1 * Amount(j[i])
    BY <2>2, <2>3, FS_Product
  <2> QED
    BY <2>1, <2>4
<1>3. ASSUME NEW T \in SUBSET S PROVE IsFiniteSet(Tokens(j, T))
  <2> DEFINE g == [i \in T |-> Part(i)]
             R == {g[i] : i \in T}
  <2>1. IsFiniteSet(T)
    BY <1>1, FS_Subset
  <2>2. g \in Surjection(T, R)
    BY DEF Surjection
  <2>3. IsFiniteSet(R)
    <3> HIDE DEF g, R
    <3> QED
      BY <2>1, <2>2, FS_Surjection
  <2>4. \A X \in R : IsFiniteSet(X)
    BY <1>2
  <2>5. IsFiniteSet(UNION R)
    <3> HIDE DEF g, R
    <3> QED
      BY <2>3, <2>4, FS_UNION
  <2>6. UNION R = Tokens(j, T)
    BY DEF Tokens
  <2> QED
    BY <2>5, <2>6
<1>4. Held(j, S) \in Nat
  BY <1>3, FS_CardinalityType DEF Held
<1>5. Held(j, {}) = 0
  <2>1. Tokens(j, {}) = {} /\ Cardinality({}) = 0
    BY FS_EmptySet DEF Tokens
  <2> QED
    BY <2>1 DEF Held
<1>6. ASSUME NEW i \in S PROVE Held(j, S) = Held(j, S \ {i}) + Amount(j[i])
  <2>1. Tokens(j, S) = Tokens(j, S \ {i}) \cup Part(i)
    BY DEF Tokens
  <2>2. Tokens(j, S \ {i}) \cap Part(i) = {}
    <3> SUFFICES ASSUME NEW x \in Tokens(j, S \ {i}), x \in Part(i) PROVE FALSE
      OBVIOUS
    <3>1. PICK k \in S \ {i} : x \in {k} \X (1 .. Amount(j[k]))
      BY DEF Tokens
    <3>2. x[1] = k /\ x[1] = i
      BY <3>1
    <3> QED
      BY <3>2
  <2>3. IsFiniteSet(Tokens(j, S \ {i}))
    BY <1>3
  <2>4. IsFiniteSet(Part(i)) /\ Cardinality(Part(i)) = Amount(j[i])
    BY <1>2
  <2> HIDE DEF Part
  <2>5. Cardinality(Tokens(j, S \ {i}) \cup Part(i))
            = Cardinality(Tokens(j, S \ {i})) + Cardinality(Part(i))
    BY <2>2, <2>3, <2>4, Disjoint
  <2> QED
    BY <2>1, <2>4, <2>5 DEF Held
<1> QED
  BY <1>4, <1>5, <1>6

\* An archived journal is added to the tokens of the list, and changes none of
\* the parts of it that were listed before.
LEMMA HeldAppend ==
    ASSUME NEW j \in Journals, NEW x \in Nat \cup {NoFile}
    PROVE  LET more == Append(j, x) IN
           /\ more \in Journals /\ Len(more) = Len(j) + 1
           /\ \A S \in SUBSET DOMAIN j : S \subseteq DOMAIN more /\ Held(more, S) = Held(j, S)
           /\ Held(more, DOMAIN more) = Held(j, DOMAIN j) + Amount(x)
<1> DEFINE more == Append(j, x)
           n == Len(j)
<1>1. /\ more \in Journals /\ Len(more) = n + 1 /\ n \in Nat
      /\ DOMAIN j = 1 .. n /\ DOMAIN more = 1 .. n + 1 /\ more[n + 1] = x
      /\ \A i \in 1 .. n : more[i] = j[i]
  BY DEF Journals
<1> HIDE DEF more, n
<1>2. ASSUME NEW S \in SUBSET DOMAIN j
      PROVE  S \subseteq DOMAIN more /\ Held(more, S) = Held(j, S)
  <2>1. S \subseteq DOMAIN more /\ \A i \in S : more[i] = j[i]
    BY <1>1
  <2>2. Tokens(more, S) = Tokens(j, S)
    BY <2>1 DEF Tokens
  <2> QED
    BY <2>1, <2>2 DEF Held
<1>3. (DOMAIN more) \ {n + 1} = DOMAIN j /\ n + 1 \in DOMAIN more
  BY <1>1
<1>4. Held(more, DOMAIN more) = Held(more, DOMAIN j) + Amount(x)
  BY <1>1, <1>3, HeldParts
<1> QED
  BY <1>1, <1>2, <1>4 DEF more, n

-----------------------------------------------------------------------------
(* One scan and one directory.                                             *)

\* The live files of a directory: none while it is not there, and a journal
\* beside a final result says the same.
Sound(f) ==
    /\ f \in Files
    /\ ~f.there => f = Absent
    /\ f.result # NoFile /\ f.journal # NoFile => f.journal = f.result

\* What a step may do to a directory: its journal grows, it is completed for
\* what its journal has, or its journal is archived.
Moves(f, j, f2, j2) ==
    \/ f2.result = f.result /\ j2 = j /\ Counted(f) <= Counted(f2)
    \/ f.result = NoFile /\ f2.result # NoFile /\ j2 = j /\ Counted(f2) = Counted(f)
    \/ /\ f.result = NoFile /\ f2.result = NoFile
       /\ j2 = Append(j, f.journal) /\ Counted(f2) = 0

ShownIn(f, j) == Counted(f) + Held(j, DOMAIN j)

\* What the scan has counted of directory d, and what it is about to count.
Pending(s, d, f) ==
    IF d \in s.reading \/ (0 \in s.names /\ f.result = NoFile) THEN Counted(f) ELSE 0
HasSeen(s, d, f, j) ==
    s.counted[d] + (IF d = s.at THEN Held(j, s.names \ {0}) + Pending(s, d, f) ELSE 0)

\* Where the scan stands in directory d.
Position(s, d, j) ==
    /\ d \in s.results => d \in s.tasks /\ s.counted[d] = 0
    /\ s.results # {} => s.names = {} /\ s.reading = {}
    /\ s.names # {} => s.at \in Dirs
    /\ s.reading \subseteq {s.at} /\ (s.reading # {} => 0 \notin s.names)
    /\ d = s.at => /\ s.names \ {0} \subseteq DOMAIN j
                   /\ d \in s.tasks => s.names = {} /\ s.reading = {}

\* Nothing is counted twice.
Upper(s, d, f, j) ==
    /\ d \in s.tasks => s.counted[d] <= Amount(f.result)
    /\ HasSeen(s, d, f, j) <= ShownIn(f, j)

\* What was shown at the beginning is counted where nothing has moved.
Lower(s, d, f, j) ==
    LET b == s.before[d] IN
    /\ b.shown <= ShownIn(f, j)
    /\ b.version[2] <= Len(j) /\ (b.version[1] # NoFile => f.result = b.version[1])
    /\ <<f.result, Len(j)>> = b.version =>
           IF d \in s.tasks THEN d \in s.results \/ s.counted[d] >= Amount(f.result)
           ELSE HasSeen(s, d, f, j) >= b.shown

ScanInv(s, d, f, j) ==
    /\ Position(s, d, j) /\ Upper(s, d, f, j)
    /\ s.purpose # "none" => Lower(s, d, f, j)

\* The parts of an account are numbers.
LEMMA ScanTypes ==
    ASSUME NEW s \in Scans, NEW d \in Dirs, NEW f \in Files, NEW j \in Journals,
           Position(s, d, j)
    PROVE  /\ s.counted[d] \in Nat /\ Pending(s, d, f) \in 0 .. Counted(f)
           /\ Counted(f) \in Nat /\ Held(j, DOMAIN j) \in Nat /\ ShownIn(f, j) \in Nat
           /\ d = s.at => Held(j, s.names \ {0}) \in Nat
           /\ Held(j, {}) = 0 /\ Len(j) \in Nat
           /\ s.before[d].shown \in Nat /\ s.before[d].version[2] \in Nat
           /\ s.before[d].version[1] \in Nat \cup {NoFile}
           /\ Amount(f.result) \in Nat /\ Amount(f.journal) \in Nat
<1>1. s.counted[d] \in Nat
  BY DEF Scans
<1>2. Counted(f) \in Nat /\ Amount(f.result) \in Nat /\ Amount(f.journal) \in Nat
  BY Amounts DEF Files
<1>3. Pending(s, d, f) \in 0 .. Counted(f)
  BY <1>2 DEF Pending
<1>4. Held(j, DOMAIN j) \in Nat /\ Held(j, {}) = 0
  BY HeldParts
<1>5. d = s.at => Held(j, s.names \ {0}) \in Nat
  BY HeldParts DEF Position
<1>6. Len(j) \in Nat
  BY DEF Journals
<1>7. s.before[d] \in [shown : Nat, version : (Nat \cup {NoFile}) \X Nat]
  BY DEF Scans
<1>8. /\ s.before[d].shown \in Nat /\ s.before[d].version[2] \in Nat
      /\ s.before[d].version[1] \in Nat \cup {NoFile}
  BY <1>7
<1> QED
  BY <1>1, <1>2, <1>3, <1>4, <1>5, <1>6, <1>8 DEF ShownIn

\* What the commands do to a directory does not mislead a scan.
LEMMA MovesKeepScan ==
    ASSUME NEW s \in Scans, NEW d \in Dirs, NEW f \in Files, NEW j \in Journals,
           NEW f2 \in Files, NEW j2 \in Journals, Moves(f, j, f2, j2),
           ScanInv(s, d, f, j)
    PROVE  ScanInv(s, d, f2, j2)
<1>0. /\ Position(s, d, j) /\ Upper(s, d, f, j)
      /\ s.purpose # "none" => Lower(s, d, f, j)
  BY DEF ScanInv
<1>1. /\ s.counted[d] \in Nat /\ Pending(s, d, f) \in 0 .. Counted(f)
      /\ Counted(f) \in Nat /\ Held(j, DOMAIN j) \in Nat /\ Len(j) \in Nat
      /\ d = s.at => Held(j, s.names \ {0}) \in Nat
      /\ s.before[d].shown \in Nat /\ s.before[d].version[2] \in Nat
      /\ Counted(f2) \in Nat
  BY <1>0, ScanTypes, Amounts
<1>2. CASE f2.result = f.result /\ j2 = j /\ Counted(f) <= Counted(f2)
  <2>1. /\ Pending(s, d, f2) \in Nat /\ Pending(s, d, f) <= Pending(s, d, f2)
        /\ Pending(s, d, f2) + Counted(f) <= Pending(s, d, f) + Counted(f2)
    BY <1>1, <1>2 DEF Pending
  <2>2. /\ HasSeen(s, d, f, j) \in Nat /\ HasSeen(s, d, f2, j) \in Nat
        /\ HasSeen(s, d, f, j) <= HasSeen(s, d, f2, j)
        /\ HasSeen(s, d, f2, j) + Counted(f) <= HasSeen(s, d, f, j) + Counted(f2)
    <3>1. CASE d = s.at
      <4> DEFINE h == Held(j, s.names \ {0})
      <4>1. /\ HasSeen(s, d, f, j) = s.counted[d] + (h + Pending(s, d, f))
            /\ HasSeen(s, d, f2, j) = s.counted[d] + (h + Pending(s, d, f2))
        BY <3>1 DEF HasSeen
      <4>2. h \in Nat /\ s.counted[d] \in Nat /\ Pending(s, d, f) \in Nat
        BY <1>1, <3>1
      <4>3. \A c, k, x, y, m, n \in Nat : x <= y /\ y + m <= x + n =>
                /\ c + (k + x) \in Nat /\ c + (k + x) <= c + (k + y)
                /\ c + (k + y) + m <= c + (k + x) + n
        OBVIOUS
      <4> HIDE DEF h
      <4>4. Pending(s, d, f2) \in Nat /\ Counted(f) \in Nat /\ Counted(f2) \in Nat
        BY <1>1, <2>1
      <4>5. /\ s.counted[d] + (h + Pending(s, d, f)) \in Nat
            /\ s.counted[d] + (h + Pending(s, d, f2)) \in Nat
        BY <4>2, <4>4
      <4>6. /\ s.counted[d] + (h + Pending(s, d, f)) <= s.counted[d] + (h + Pending(s, d, f2))
            /\ s.counted[d] + (h + Pending(s, d, f2)) + Counted(f)
                    <= s.counted[d] + (h + Pending(s, d, f)) + Counted(f2)
        BY <2>1, <4>2, <4>3, <4>4
      <4> QED
        BY <4>1, <4>5, <4>6
    <3>2. CASE d # s.at
      BY <1>1, <1>2, <3>2 DEF HasSeen
    <3> QED
      BY <3>1, <3>2
  <2>3. /\ ShownIn(f, j) = Counted(f) + Held(j, DOMAIN j)
        /\ ShownIn(f2, j) = Counted(f2) + Held(j, DOMAIN j)
    BY DEF ShownIn
  <2>4. Upper(s, d, f2, j2)
    <3>1. HasSeen(s, d, f, j) <= ShownIn(f, j)
      BY <1>0 DEF Upper
    <3>2. HasSeen(s, d, f2, j) <= ShownIn(f2, j)
      BY <1>1, <2>2, <2>3, <3>1
    <3> QED
      BY <1>0, <1>2, <3>2 DEF Upper
  <2>5. ASSUME Lower(s, d, f, j) PROVE Lower(s, d, f2, j2)
    <3> DEFINE b == s.before[d]
    <3>1. b.shown <= ShownIn(f2, j)
      <4>1. b.shown <= ShownIn(f, j)
        BY <2>5 DEF Lower
      <4> QED
        BY <1>1, <1>2, <2>3, <4>1
    <3>2. HasSeen(s, d, f, j) >= b.shown => HasSeen(s, d, f2, j) >= b.shown
      BY <1>1, <2>2
    <3> QED
      BY <1>2, <2>5, <3>1, <3>2 DEF Lower
  <2> QED
    BY <1>0, <1>2, <2>4, <2>5 DEF ScanInv
<1>3. CASE f.result = NoFile /\ f2.result # NoFile /\ j2 = j /\ Counted(f2) = Counted(f)
  <2>1. Pending(s, d, f2) \in Nat /\ Pending(s, d, f2) <= Pending(s, d, f)
    BY <1>1, <1>3 DEF Pending
  <2>2. /\ HasSeen(s, d, f2, j2) <= HasSeen(s, d, f, j2)
        /\ HasSeen(s, d, f, j2) \in Nat /\ HasSeen(s, d, f2, j2) \in Nat
    BY <1>1, <1>3, <2>1 DEF HasSeen
  <2>3. ShownIn(f2, j2) = ShownIn(f, j2) /\ ShownIn(f, j2) \in Nat
    BY <1>1, <1>3 DEF ShownIn
  <2>4. Upper(s, d, f2, j2)
    <3>1. Amount(f.result) = 0 /\ Amount(f2.result) \in Nat
      BY <1>3, Amounts DEF Files
    <3> QED
      BY <1>0, <1>1, <1>3, <2>2, <2>3, <3>1 DEF Upper
  <2>5. ASSUME Lower(s, d, f, j) PROVE Lower(s, d, f2, j2)
    <3>1. s.before[d].version[1] = NoFile
      BY <1>3, <2>5 DEF Lower
    <3>2. <<f2.result, Len(j2)>> # s.before[d].version
      BY <1>3, <3>1
    <3> QED
      BY <1>3, <2>3, <2>5, <3>1, <3>2 DEF Lower
  <2> QED
    BY <1>0, <1>3, <2>4, <2>5 DEF ScanInv
<1>4. CASE /\ f.result = NoFile /\ f2.result = NoFile
           /\ j2 = Append(j, f.journal) /\ Counted(f2) = 0
  <2>0. f.journal \in Nat \cup {NoFile}
    BY DEF Files
  <2>1. /\ Len(j2) = Len(j) + 1 /\ Held(j2, DOMAIN j2) = Held(j, DOMAIN j) + Counted(f)
        /\ \A S \in SUBSET DOMAIN j : S \subseteq DOMAIN j2 /\ Held(j2, S) = Held(j, S)
    BY <1>4, <2>0, HeldAppend DEF Counted
  <2>2. Position(s, d, j2)
    BY <1>0, <2>1 DEF Position
  <2>3. d = s.at => Held(j2, s.names \ {0}) = Held(j, s.names \ {0})
    BY <1>0, <2>1 DEF Position
  <2>4. Pending(s, d, f2) = 0
    BY <1>4 DEF Pending
  <2>5. /\ HasSeen(s, d, f2, j2) <= HasSeen(s, d, f, j)
        /\ HasSeen(s, d, f, j) \in Nat /\ HasSeen(s, d, f2, j2) \in Nat
    BY <1>1, <2>3, <2>4 DEF HasSeen
  <2>6. ShownIn(f2, j2) = ShownIn(f, j) /\ ShownIn(f, j) \in Nat
    BY <1>1, <1>4, <2>1 DEF ShownIn
  <2>7. Upper(s, d, f2, j2)
    BY <1>0, <1>4, <2>5, <2>6 DEF Upper
  <2>8. ASSUME Lower(s, d, f, j) PROVE Lower(s, d, f2, j2)
    <3>1. s.before[d].version[2] <= Len(j) /\ s.before[d].version[2] < Len(j2)
      BY <1>1, <2>1, <2>8 DEF Lower
    <3>2. <<f2.result, Len(j2)>> # s.before[d].version
      BY <1>1, <2>1, <3>1
    <3>3. s.before[d].version[2] <= Len(j2)
      BY <1>1, <2>1, <3>1
    <3> QED
      BY <1>4, <2>6, <2>8, <3>2, <3>3 DEF Lower
  <2> QED
    BY <1>0, <2>2, <2>7, <2>8 DEF ScanInv
<1> QED
  BY <1>2, <1>3, <1>4 DEF Moves

-----------------------------------------------------------------------------
(* What a scan does, one look at the disk at a time.                       *)

\* A look that moves an amount from what is about to be counted to what is.
LEMMA SameSeen ==
    ASSUME NEW s \in Scans, NEW s2 \in Scans, NEW d \in Dirs, NEW f, NEW j,
           ScanInv(s, d, f, j),
           s2.purpose = s.purpose, s2.results = s.results, s2.tasks = s.tasks,
           s2.before = s.before, d \in s.tasks => s2.counted[d] = s.counted[d],
           Position(s2, d, j), HasSeen(s2, d, f, j) = HasSeen(s, d, f, j)
    PROVE  ScanInv(s2, d, f, j)
<1>1. Upper(s2, d, f, j)
  BY DEF ScanInv, Upper
<1>2. Lower(s, d, f, j) => Lower(s2, d, f, j)
  BY DEF Lower
<1> QED
  BY <1>1, <1>2 DEF ScanInv

\* A scan that begins, or none, has counted nothing.
LEMMA ScanBegun ==
    ASSUME NEW s \in Scans, NEW d \in Dirs, NEW f \in Files, NEW j \in Journals,
           s.results = s.tasks, s.names = {}, s.reading = {}, s.counted[d] = 0,
           s.purpose = "none"
           \/ (s.results = Dirs /\ s.before[d] = [shown |-> ShownIn(f, j),
                                                  version |-> <<f.result, Len(j)>>])
    PROVE  ScanInv(s, d, f, j)
<1>1. Position(s, d, j)
  BY DEF Position
<1>2. ShownIn(f, j) \in Nat /\ Amount(f.result) \in Nat /\ Len(j) \in Nat
  BY <1>1, ScanTypes
<1>3. Held(j, {}) = 0
  BY HeldParts
<1>4. HasSeen(s, d, f, j) = 0
  <2>1. Pending(s, d, f) = 0
    BY DEF Pending
  <2> QED
    BY <1>3, <2>1 DEF HasSeen
<1>5. Upper(s, d, f, j)
  BY <1>2, <1>4 DEF Upper
<1>6. ASSUME s.purpose # "none" PROVE Lower(s, d, f, j)
  <2>1. /\ s.before[d].shown = ShownIn(f, j)
        /\ s.before[d].version = <<f.result, Len(j)>> /\ d \in s.results /\ d \in s.tasks
    BY <1>6
  <2> QED
    BY <1>2, <2>1 DEF Lower
<1> QED
  BY <1>1, <1>5, <1>6 DEF ScanInv

\* A final result, counted.
LEMMA ResultCounted ==
    ASSUME NEW s \in Scans, NEW s2 \in Scans, NEW d \in Dirs,
           NEW f \in Files, NEW j \in Journals, ScanInv(s, d, f, j),
           NEW e \in s.results,
           s2.purpose = s.purpose, s2.tasks = s.tasks, s2.names = s.names,
           s2.at = s.at, s2.reading = s.reading, s2.before = s.before,
           s2.results = s.results \ {e},
           s2.counted[d] = s.counted[d] + (IF d = e THEN Amount(f.result) ELSE 0)
    PROVE  ScanInv(s2, d, f, j)
<1>1. /\ Position(s, d, j) /\ Upper(s, d, f, j)
      /\ s.purpose # "none" => Lower(s, d, f, j)
  BY DEF ScanInv
<1>2. s.names = {} /\ s.reading = {} /\ (d \in s.results => d \in s.tasks /\ s.counted[d] = 0)
  BY <1>1 DEF Position
<1>3. /\ s.counted[d] \in Nat /\ Amount(f.result) \in Nat /\ Held(j, {}) = 0
      /\ Held(j, DOMAIN j) \in Nat /\ Counted(f) \in Nat
  BY <1>1, ScanTypes
<1>4. Position(s2, d, j)
  BY <1>1, <1>2, <1>3 DEF Position
<1>5. Pending(s, d, f) = 0 /\ Pending(s2, d, f) = 0
  BY <1>2 DEF Pending
<1>6. HasSeen(s, d, f, j) = s.counted[d] /\ HasSeen(s2, d, f, j) = s2.counted[d]
  BY <1>2, <1>3, <1>5 DEF HasSeen
<1>7. CASE d # e
  <2>1. s2.counted[d] = s.counted[d] /\ (d \in s2.results <=> d \in s.results)
    BY <1>3, <1>7
  <2>2. Upper(s2, d, f, j)
    BY <1>1, <1>6, <2>1 DEF Upper
  <2>3. Lower(s, d, f, j) => Lower(s2, d, f, j)
    BY <1>6, <2>1 DEF Lower
  <2> QED
    BY <1>1, <1>4, <2>2, <2>3 DEF ScanInv
<1>8. CASE d = e
  <2>1. s2.counted[d] = Amount(f.result) /\ d \in s2.tasks
    BY <1>2, <1>3, <1>8
  <2>2. Amount(f.result) <= ShownIn(f, j)
    <3>1. Amount(f.result) <= Counted(f)
      BY <1>3, Amounts DEF Counted, Files
    <3> QED
      BY <1>3, <3>1 DEF ShownIn
  <2>3. Upper(s2, d, f, j)
    BY <1>3, <1>6, <2>1, <2>2 DEF Upper
  <2>4. Lower(s, d, f, j) => Lower(s2, d, f, j)
    BY <1>3, <2>1 DEF Lower
  <2> QED
    BY <1>1, <1>4, <2>3, <2>4 DEF ScanInv
<1> QED
  BY <1>7, <1>8

\* The names in a directory, listed.
LEMMA TaskListed ==
    ASSUME NEW s \in Scans, NEW s2 \in Scans, NEW d \in Dirs,
           NEW f, Sound(f), NEW j \in Journals, ScanInv(s, d, f, j),
           NEW e \in s.tasks, s.results = {}, s.names = {}, s.reading = {},
           s2.purpose = s.purpose, s2.results = s.results, s2.reading = s.reading,
           s2.counted = s.counted, s2.before = s.before,
           s2.tasks = s.tasks \ {e}, s2.at = e,
           d = e => s2.names = (IF f.there THEN {0} ELSE {}) \cup DOMAIN j
    PROVE  ScanInv(s2, d, f, j)
<1>0. e \in Dirs /\ f \in Files
  BY DEF Scans, Sound
<1>1. /\ Position(s, d, j) /\ Upper(s, d, f, j)
      /\ s.purpose # "none" => Lower(s, d, f, j)
  BY DEF ScanInv
<1>2. /\ s.counted[d] \in Nat /\ Amount(f.result) \in Nat /\ Held(j, {}) = 0
      /\ Held(j, DOMAIN j) \in Nat /\ Counted(f) \in Nat
      /\ ShownIn(f, j) \in Nat /\ s.before[d].shown \in Nat
  BY <1>0, <1>1, ScanTypes
<1>3. HasSeen(s, d, f, j) = s.counted[d]
  <2>1. Pending(s, d, f) = 0
    BY DEF Pending
  <2> QED
    BY <1>2, <2>1 DEF HasSeen
<1>4. CASE d # e
  <2>1. HasSeen(s2, d, f, j) = s.counted[d]
    BY <1>2, <1>4 DEF HasSeen
  <2>2. Position(s2, d, j)
    BY <1>0, <1>1, <1>4 DEF Position
  <2>3. Upper(s2, d, f, j)
    BY <1>1, <1>3, <1>4, <2>1 DEF Upper
  <2>4. Lower(s, d, f, j) => Lower(s2, d, f, j)
    BY <1>3, <1>4, <2>1 DEF Lower
  <2> QED
    BY <1>1, <2>2, <2>3, <2>4 DEF ScanInv
<1>5. CASE d = e
  <2>1. 0 \notin DOMAIN j
    BY DEF Journals
  <2>2. /\ s2.names \ {0} = DOMAIN j /\ (0 \in s2.names <=> f.there) /\ d \notin s2.tasks
        /\ s2.at = d
    BY <1>5, <2>1
  <2>3. Position(s2, d, j)
    BY <1>0, <2>2 DEF Position
  <2>4. Pending(s2, d, f) = IF f.result = NoFile THEN Counted(f) ELSE 0
    <3>1. ~f.there => Counted(f) = 0
      BY Amounts DEF Sound, Absent, Counted
    <3> QED
      BY <2>2, <3>1 DEF Pending
  <2>5. HasSeen(s2, d, f, j) = s.counted[d] + (Held(j, DOMAIN j) + Pending(s2, d, f))
    BY <2>2 DEF HasSeen
  <2>6. s.counted[d] <= Amount(f.result) /\ Amount(NoFile) = 0
    BY <1>1, <1>5, Amounts DEF Upper
  <2>7. f.result # NoFile => Amount(f.result) = Counted(f)
    BY <1>0, Amounts DEF Counted, Files
  <2>8. ShownIn(f, j) = Counted(f) + Held(j, DOMAIN j)
    BY DEF ShownIn
  <2>9. HasSeen(s2, d, f, j) <= ShownIn(f, j)
    <3>1. CASE f.result = NoFile
      BY <1>2, <2>4, <2>5, <2>6, <2>8, <3>1
    <3>2. CASE f.result # NoFile
      BY <1>2, <2>4, <2>5, <2>6, <2>7, <2>8, <3>2
    <3> QED
      BY <3>1, <3>2
  <2>10. s.counted[d] >= Amount(f.result) => HasSeen(s2, d, f, j) >= ShownIn(f, j)
    <3>1. CASE f.result = NoFile
      BY <1>2, <2>4, <2>5, <2>8, <3>1
    <3>2. CASE f.result # NoFile
      BY <1>2, <2>4, <2>5, <2>7, <2>8, <3>2
    <3> QED
      BY <3>1, <3>2
  <2>11. HasSeen(s2, d, f, j) \in Nat
    BY <1>2, <2>4, <2>5
  <2>12. Upper(s2, d, f, j)
    BY <2>2, <2>9 DEF Upper
  <2>13. ASSUME Lower(s, d, f, j) PROVE Lower(s2, d, f, j)
    <3>1. /\ s.before[d].shown <= ShownIn(f, j)
          /\ <<f.result, Len(j)>> = s.before[d].version => s.counted[d] >= Amount(f.result)
      BY <1>5, <2>13 DEF Lower
    <3>2. <<f.result, Len(j)>> = s.before[d].version
              => HasSeen(s2, d, f, j) >= s.before[d].shown
      BY <1>2, <2>10, <2>11, <3>1
    <3> QED
      BY <2>2, <2>13, <3>2 DEF Lower
  <2> QED
    BY <1>1, <2>3, <2>12, <2>13 DEF ScanInv
<1> QED
  BY <1>4, <1>5

\* The journal of an archived directory, counted.
LEMMA ArchivedCounted ==
    ASSUME NEW s \in Scans, NEW s2 \in Scans, NEW d \in Dirs,
           NEW f \in Files, NEW j \in Journals, ScanInv(s, d, f, j),
           s.reading = {}, NEW i \in s.names \ {0},
           s2.purpose = s.purpose, s2.results = s.results, s2.tasks = s.tasks,
           s2.at = s.at, s2.reading = s.reading, s2.before = s.before,
           s2.names = s.names \ {i},
           s2.counted[d] = s.counted[d] + (IF d = s.at THEN Amount(j[i]) ELSE 0)
    PROVE  ScanInv(s2, d, f, j)
<1>1. Position(s, d, j)
  BY DEF ScanInv
<1>2. /\ s.counted[d] \in Nat /\ Pending(s, d, f) \in Nat
      /\ d = s.at => Held(j, s.names \ {0}) \in Nat
  BY <1>1, ScanTypes
<1>3. Position(s2, d, j)
  <2>1. s.results = {} /\ s.at \in Dirs
    BY <1>1 DEF Position
  <2> QED
    BY <1>1, <2>1 DEF Position
<1>4. CASE d # s.at
  <2>1. s2.counted[d] = s.counted[d]
    BY <1>2, <1>4
  <2>2. HasSeen(s2, d, f, j) = HasSeen(s, d, f, j)
    BY <1>4, <2>1 DEF HasSeen
  <2> QED
    BY <1>3, <2>1, <2>2, SameSeen
<1>5. CASE d = s.at
  <2> DEFINE S == s.names \ {0}
  <2>1. S \subseteq DOMAIN j /\ d \notin s.tasks
    BY <1>1, <1>5 DEF Position
  <2>2. s2.names \ {0} = S \ {i} /\ (0 \in s2.names <=> 0 \in s.names)
    OBVIOUS
  <2>3. /\ Held(j, S) = Held(j, S \ {i}) + Amount(j[i])
        /\ Held(j, S \ {i}) \in Nat /\ Amount(j[i]) \in Nat
    <3>1. S \ {i} \subseteq DOMAIN j /\ j[i] \in Nat \cup {NoFile}
      BY <2>1 DEF Journals
    <3> QED
      BY <2>1, <3>1, HeldParts, Amounts
  <2>4. Pending(s2, d, f) = Pending(s, d, f)
    BY <2>2 DEF Pending
  <2>5. /\ HasSeen(s, d, f, j) = s.counted[d] + (Held(j, S) + Pending(s, d, f))
        /\ HasSeen(s2, d, f, j)
              = (s.counted[d] + Amount(j[i])) + (Held(j, S \ {i}) + Pending(s, d, f))
    BY <1>5, <2>2, <2>4 DEF HasSeen
  <2> HIDE DEF S
  <2>6. HasSeen(s2, d, f, j) = HasSeen(s, d, f, j)
    BY <1>2, <2>3, <2>5
  <2> QED
    BY <1>3, <2>1, <2>6, SameSeen
<1> QED
  BY <1>4, <1>5

\* The live journal, found: it is what was to be found.
LEMMA JournalFound ==
    ASSUME NEW s \in Scans, NEW s2 \in Scans, NEW d \in Dirs,
           NEW f \in Files, NEW j \in Journals, ScanInv(s, d, f, j), 0 \in s.names,
           s2.purpose = s.purpose, s2.results = s.results, s2.tasks = s.tasks,
           s2.at = s.at, s2.counted = s.counted, s2.before = s.before,
           s2.names = s.names \ {0}, s2.reading \subseteq {s.at},
           d = s.at => (d \in s2.reading <=> f.journal # NoFile /\ f.result = NoFile)
    PROVE  ScanInv(s2, d, f, j)
<1>1. Position(s, d, j)
  BY DEF ScanInv
<1>2. s.results = {} /\ s.at \in Dirs /\ s.reading = {} /\ (d = s.at => d \notin s.tasks)
  BY <1>1 DEF Position
<1>3. Position(s2, d, j)
  BY <1>1, <1>2 DEF Position
<1>4. d = s.at => Pending(s2, d, f) = Pending(s, d, f)
  <2>1. f.journal = NoFile /\ f.result = NoFile => Counted(f) = 0
    BY Amounts DEF Counted
  <2> QED
    BY <1>2, <2>1 DEF Pending
<1>5. HasSeen(s2, d, f, j) = HasSeen(s, d, f, j)
  <2>1. s2.names \ {0} = s.names \ {0}
    OBVIOUS
  <2> QED
    BY <1>4, <2>1 DEF HasSeen
<1> QED
  BY <1>3, <1>5, SameSeen

\* The live journal, read: it says what a final result that came meanwhile says.
LEMMA JournalRead ==
    ASSUME NEW s \in Scans, NEW s2 \in Scans, NEW d \in Dirs,
           NEW f, Sound(f), NEW j \in Journals, ScanInv(s, d, f, j), s.at \in s.reading,
           d = s.at => f.journal # NoFile,
           s2.purpose = s.purpose, s2.results = s.results, s2.tasks = s.tasks,
           s2.at = s.at, s2.names = s.names, s2.before = s.before, s2.reading = {},
           s2.counted[d] = s.counted[d] + (IF d = s.at THEN f.journal ELSE 0)
    PROVE  ScanInv(s2, d, f, j)
<1>0. f \in Files
  BY DEF Sound
<1>1. Position(s, d, j)
  BY DEF ScanInv
<1>2. /\ s.counted[d] \in Nat /\ Counted(f) \in Nat
      /\ d = s.at => Held(j, s.names \ {0}) \in Nat
  BY <1>0, <1>1, ScanTypes
<1>3. Position(s2, d, j)
  BY <1>1 DEF Position
<1>4. CASE d # s.at
  <2>1. s2.counted[d] = s.counted[d]
    BY <1>2, <1>4
  <2>2. HasSeen(s2, d, f, j) = HasSeen(s, d, f, j)
    BY <1>4, <2>1 DEF HasSeen
  <2> QED
    BY <1>0, <1>3, <2>1, <2>2, SameSeen
<1>5. CASE d = s.at
  <2>1. d \notin s.tasks /\ 0 \notin s.names /\ d \in s.reading
    BY <1>1, <1>5 DEF Position
  <2>2. f.journal = Counted(f)
    BY <1>5, Amounts DEF Sound, Files, Counted
  <2>3. Pending(s, d, f) = Counted(f) /\ Pending(s2, d, f) = 0
    BY <2>1 DEF Pending
  <2> DEFINE h == Held(j, s.names \ {0})
  <2>4. /\ HasSeen(s, d, f, j) = s.counted[d] + (h + Counted(f))
        /\ HasSeen(s2, d, f, j) = (s.counted[d] + Counted(f)) + (h + 0)
    BY <1>5, <2>2, <2>3 DEF HasSeen
  <2>5. h \in Nat
    BY <1>2, <1>5
  <2> HIDE DEF h
  <2>6. HasSeen(s2, d, f, j) = HasSeen(s, d, f, j)
    BY <1>2, <2>4, <2>5
  <2> QED
    BY <1>0, <1>3, <2>1, <2>6, SameSeen
<1> QED
  BY <1>4, <1>5

-----------------------------------------------------------------------------
(* The commands.                                                           *)

\* At work on a task.
Busy(p) ==
    \/ pc[p] \in {"make", "work", "unlink"}
    \/ scan[p].purpose \in {"admit", "stop", "run", "raised", "accept"}

\* A command at work has a task; what it has paid is in the journal, and it
\* goes to remove the journal when the final result is there.
AtWork(p) ==
    /\ Busy(p) => task[p] <= Work[p]
    /\ pc[p] = "make" => spent[p] = 0
    /\ pc[p] = "work" => /\ live[Dir(p)].there /\ ~Completed(Dir(p))
                         /\ Amount(live[Dir(p)].journal) = spent[p]
    /\ pc[p] = "unlink" => live[Dir(p)].there /\ Completed(Dir(p))

WorkInv == \A p \in Processes : AtWork(p)
FilesInv == \A d \in Dirs : Sound(live[d])
ScansInv == \A p \in Processes, d \in Dirs : ScanInv(scan[p], d, live[d], archived[d])

Inv == TypeOK /\ WorkInv /\ FilesInv /\ ScansInv

\* What a step of p does to the disk.
Touches(p) ==
    /\ live' \in [Dirs -> Files] /\ archived' \in [Dirs -> Journals]
    /\ \A d \in Dirs : /\ Moves(live[d], archived[d], live'[d], archived'[d])
                       /\ Sound(live'[d])
    /\ \A q \in Processes : q # p /\ Dir(q) \in Dirs => live'[Dir(q)] = live[Dir(q)]

\* What it does to the other commands: nothing.
Alone(p) ==
    \A q \in Processes : q # p =>
        /\ pc'[q] = pc[q] /\ task'[q] = task[q] /\ attempt'[q] = attempt[q]
        /\ spent'[q] = spent[q] /\ scan'[q] = scan[q]

\* Each command has directories of its own.
LEMMA Owners ==
    ASSUME TypeOK, NEW p \in Processes
    PROVE  /\ \A q \in Processes : q # p => Dir(q) # Dir(p)
           /\ task[p] <= Work[p] => Dir(p) \in Dirs
           /\ Work[p] \in Nat \ {0}
<1>1. Work[p] \in Nat \ {0}
  BY SharedRootAssumption
<1>2. task[p] \in Nat \ {0}
  BY DEF TypeOK
<1>3. task[p] <= Work[p] => Dir(p) \in {p} \X (1 .. Work[p])
  BY <1>1, <1>2 DEF Dir
<1>4. task[p] <= Work[p] => Dir(p) \in Dirs
  BY <1>3 DEF Dirs
<1> QED
  BY <1>1, <1>4 DEF Dir

\* A step that leaves the disk alone.
LEMMA Untouched ==
    ASSUME TypeOK, FilesInv, UNCHANGED disk, NEW p \in Processes
    PROVE  Touches(p)
<1>1. live' = live /\ archived' = archived
  BY DEF disk
<1>2. live \in [Dirs -> Files] /\ archived \in [Dirs -> Journals]
  BY DEF TypeOK, Journals
<1>3. ASSUME NEW d \in Dirs PROVE Moves(live[d], archived[d], live'[d], archived'[d])
  <2>1. Counted(live[d]) \in Nat
    BY <1>2, Amounts
  <2> QED
    BY <1>1, <2>1 DEF Moves
<1> QED
  BY <1>1, <1>2, <1>3 DEF Touches, FilesInv

\* A step that changes the live files of one task.
LEMMA LiveTouched ==
    ASSUME TypeOK, FilesInv, NEW p \in Processes, Dir(p) \in Dirs,
           NEW f, Sound(f), live' = [live EXCEPT ![Dir(p)] = f], archived' = archived,
           Moves(live[Dir(p)], archived[Dir(p)], f, archived[Dir(p)])
    PROVE  Touches(p)
<1>1. /\ live \in [Dirs -> Files] /\ archived \in [Dirs -> Journals] /\ f \in Files
      /\ \A q \in Processes : q # p => Dir(q) # Dir(p)
  BY Owners DEF TypeOK, Journals, Sound
<1>2. live'[Dir(p)] = f /\ \A d \in Dirs : d # Dir(p) => live'[d] = live[d]
  BY <1>1
<1>3. live' \in [Dirs -> Files] /\ archived' \in [Dirs -> Journals]
  BY <1>1
<1>4. ASSUME NEW d \in Dirs
      PROVE  Moves(live[d], archived[d], live'[d], archived'[d]) /\ Sound(live'[d])
  <2>1. CASE d = Dir(p)
    BY <1>2, <2>1
  <2>2. CASE d # Dir(p)
    <3>1. live'[d] = live[d] /\ Counted(live[d]) \in Nat
      BY <1>1, <1>2, <2>2, Amounts
    <3> QED
      BY <3>1 DEF Moves, FilesInv
  <2> QED
    BY <2>1, <2>2
<1>5. ASSUME NEW q \in Processes, q # p, Dir(q) \in Dirs PROVE live'[Dir(q)] = live[Dir(q)]
  BY <1>1, <1>5
<1> QED
  BY <1>3, <1>4, <1>5 DEF Touches

\* The journal of an interrupted task goes to a directory nobody writes to.
LEMMA ArchiveTouched ==
    ASSUME TypeOK, FilesInv, NEW p \in Processes, Dir(p) \in Dirs, Archive(p)
    PROVE  Touches(p)
<1>1. /\ live \in [Dirs -> Files] /\ archived \in [Dirs -> Journals]
      /\ \A q \in Processes : q # p => Dir(q) # Dir(p)
  BY Owners DEF TypeOK, Journals
<1>2. CASE Completed(Dir(p)) \/ ~live[Dir(p)].there
  BY <1>2, Untouched DEF Archive
<1>3. CASE ~(Completed(Dir(p)) \/ ~live[Dir(p)].there)
  <2> DEFINE d == Dir(p)
  <2>1. /\ archived' = [archived EXCEPT ![d] = Append(@, live[d].journal)]
        /\ live' = [live EXCEPT ![d] = Absent] /\ live[d].result = NoFile
    BY <1>3 DEF Archive, Completed
  <2>2. Absent \in Files /\ Sound(Absent) /\ Counted(Absent) = 0
    BY Amounts DEF Absent, Files, Sound, Counted
  <2>3. live[d].journal \in Nat \cup {NoFile}
    BY <1>1 DEF Files
  <2>4. Append(archived[d], live[d].journal) \in Journals
    BY <1>1, <2>3, HeldAppend
  <2> HIDE DEF d
  <2>5. /\ live' \in [Dirs -> Files] /\ archived' \in [Dirs -> Journals]
        /\ d \in Dirs => /\ live'[d] = Absent
                         /\ archived'[d] = Append(archived[d], live[d].journal)
        /\ \A e \in Dirs : e # d => live'[e] = live[e] /\ archived'[e] = archived[e]
    BY <1>1, <2>1, <2>2, <2>4
  <2>6. Absent.result = NoFile
    BY DEF Absent
  <2>7. ASSUME NEW e \in Dirs
        PROVE  Moves(live[e], archived[e], live'[e], archived'[e]) /\ Sound(live'[e])
    <3>1. CASE e = d
      BY <2>1, <2>2, <2>5, <2>6, <3>1 DEF Moves
    <3>2. CASE e # d
      <4>1. Counted(live[e]) \in Nat
        BY <1>1, Amounts
      <4> QED
        BY <2>5, <3>2, <4>1 DEF Moves, FilesInv
    <3> QED
      BY <3>1, <3>2
  <2>8. ASSUME NEW q \in Processes, q # p, Dir(q) \in Dirs PROVE live'[Dir(q)] = live[Dir(q)]
    BY <1>1, <2>1, <2>8 DEF d
  <2> QED
    BY <2>5, <2>7, <2>8 DEF Touches
<1> QED
  BY <1>2, <1>3

\* No scan, and a scan that begins, after what the step did to the root.
LEMMA ScanForms ==
    ASSUME NEW p \in Processes, Touches(p)
    PROVE  /\ NoScan \in Scans /\ NoScan.purpose = "none"
           /\ \A d \in Dirs : ScanInv(NoScan, d, live'[d], archived'[d])
           /\ \A purpose \in Purposes :
                  /\ ScanOf(purpose, Dirs, Root') \in Scans
                  /\ ScanOf(purpose, Dirs, Root').purpose = purpose
                  /\ \A d \in Dirs : ScanInv(ScanOf(purpose, Dirs, Root'), d,
                                             live'[d], archived'[d])
<1> DEFINE Before == [Dirs -> [shown : Nat, version : (Nat \cup {NoFile}) \X Nat]]
<1>1. live' \in [Dirs -> Files] /\ archived' \in [Dirs -> Journals]
  BY DEF Touches
<1>2. ASSUME NEW d \in Dirs
      PROVE  /\ live'[d] \in Files /\ archived'[d] \in Journals
             /\ ShownIn(live'[d], archived'[d]) \in Nat /\ Len(archived'[d]) \in Nat
             /\ live'[d].result \in Nat \cup {NoFile}
  <2>1. live'[d] \in Files /\ archived'[d] \in Journals
    BY <1>1
  <2>2. Counted(live'[d]) \in Nat /\ Held(archived'[d], DOMAIN archived'[d]) \in Nat
    BY <2>1, Amounts, HeldParts
  <2> QED
    BY <2>1, <2>2 DEF ShownIn, Journals, Files
<1>3. /\ Root' \in Before
      /\ \A d \in Dirs : Root'[d] = [shown |-> ShownIn(live'[d], archived'[d]),
                                     version |-> <<live'[d].result, Len(archived'[d])>>]
  <2>1. Root' = [d \in Dirs |-> [shown |-> ShownIn(live'[d], archived'[d]),
                                 version |-> <<live'[d].result, Len(archived'[d])>>]]
    BY DEF Root, Shown, Version, ShownIn
  <2> QED
    BY <1>2, <2>1
<1> DEFINE nothing == [d \in Dirs |-> [shown |-> 0, version |-> <<NoFile, 0>>]]
<1>4. nothing \in Before /\ Dirs \in SUBSET Dirs
  OBVIOUS
<1>5. /\ NoScan \in Scans /\ NoScan.purpose = "none"
      /\ NoScan.results = NoScan.tasks /\ NoScan.names = {} /\ NoScan.reading = {}
      /\ \A d \in Dirs : NoScan.counted[d] = 0
  <2>1. NoScan = ScanOf("none", {}, nothing)
    BY DEF NoScan
  <2> HIDE DEF nothing
  <2> QED
    BY <1>4, <2>1 DEF ScanOf, Scans, Purposes
<1>6. ASSUME NEW d \in Dirs PROVE ScanInv(NoScan, d, live'[d], archived'[d])
  BY <1>2, <1>5, <1>6, ScanBegun
<1>7. ASSUME NEW purpose \in Purposes
      PROVE  /\ ScanOf(purpose, Dirs, Root') \in Scans
             /\ ScanOf(purpose, Dirs, Root').purpose = purpose
             /\ \A d \in Dirs : ScanInv(ScanOf(purpose, Dirs, Root'), d,
                                        live'[d], archived'[d])
  <2> DEFINE s == ScanOf(purpose, Dirs, Root')
  <2>1. /\ s \in Scans /\ s.purpose = purpose /\ s.results = Dirs /\ s.tasks = Dirs
        /\ s.names = {} /\ s.reading = {} /\ s.before = Root'
        /\ \A d \in Dirs : s.counted[d] = 0
    BY <1>3 DEF ScanOf, Scans
  <2> HIDE DEF s
  <2>2. ASSUME NEW d \in Dirs PROVE ScanInv(s, d, live'[d], archived'[d])
    BY <1>2, <1>3, <2>1, <2>2, ScanBegun
  <2> QED
    BY <2>1, <2>2 DEF s
<1> QED
  BY <1>5, <1>6, <1>7

\* A scan in between, when others or its own command write.
LEMMA ScanWaits ==
    ASSUME Inv, NEW p \in Processes, Touches(p), NEW q \in Processes
    PROVE  \A d \in Dirs : ScanInv(scan[q], d, live'[d], archived'[d])
<1> SUFFICES ASSUME NEW d \in Dirs PROVE ScanInv(scan[q], d, live'[d], archived'[d])
  OBVIOUS
<1>1. /\ scan[q] \in Scans /\ live[d] \in Files /\ archived[d] \in Journals
      /\ ScanInv(scan[q], d, live[d], archived[d])
  BY DEF Inv, TypeOK, ScansInv, Journals
<1>2. /\ live'[d] \in Files /\ archived'[d] \in Journals
      /\ Moves(live[d], archived[d], live'[d], archived'[d])
  BY DEF Touches
<1> QED
  BY <1>1, <1>2, MovesKeepScan

\* What is to be shown of a step, taken together.
LEMMA Together ==
    ASSUME Inv, NEW p \in Processes, Touches(p), Alone(p),
           pc' \in [Processes -> {"down", "next", "scan", "make", "work", "unlink"}],
           task' \in [Processes -> Nat \ {0}], attempt' \in [Processes -> 0 .. TaskRetries],
           spent' \in [Processes -> 0 .. MaxTokens], scan' \in [Processes -> Scans],
           faults' \in 0 .. MaxFaults, task'[p] <= Work[p] + 1,
           (pc'[p] = "scan") <=> (scan'[p].purpose # "none"), AtWork(p)',
           \A d \in Dirs : ScanInv(scan'[p], d, live'[d], archived'[d])
    PROVE  Inv'
<1>1. TypeOK'
  <2>1. live' \in [Dirs -> Files] /\ archived' \in [Dirs -> Seq(Nat \cup {NoFile})]
    BY DEF Touches, Journals
  <2>2. ASSUME NEW q \in Processes
        PROVE  /\ task'[q] <= Work[q] + 1
               /\ (pc'[q] = "scan") <=> (scan'[q].purpose # "none")
    <3>1. CASE q = p
      BY <3>1
    <3>2. CASE q # p
      <4>1. /\ task[q] <= Work[q] + 1
            /\ (pc[q] = "scan") <=> (scan[q].purpose # "none")
        BY DEF Inv, TypeOK
      <4>2. task'[q] = task[q] /\ pc'[q] = pc[q] /\ scan'[q] = scan[q]
        BY <3>2 DEF Alone
      <4> QED
        BY <4>1, <4>2
    <3> QED
      BY <3>1, <3>2
  <2> QED
    BY <2>1, <2>2 DEF TypeOK
<1>2. ASSUME NEW q \in Processes PROVE AtWork(q)'
  <2>1. CASE q = p
    BY <2>1
  <2>2. CASE q # p
    <3>1. AtWork(q) /\ (task[q] <= Work[q] => Dir(q) \in Dirs)
      BY Owners DEF Inv, WorkInv
    <3>2. /\ pc'[q] = pc[q] /\ task'[q] = task[q] /\ spent'[q] = spent[q]
          /\ scan'[q] = scan[q] /\ Dir(q)' = Dir(q)
      BY <2>2 DEF Alone, Dir
    <3>3. Busy(q) => live'[Dir(q)] = live[Dir(q)]
      BY <2>2, <3>1 DEF AtWork, Touches
    <3> QED
      BY <3>1, <3>2, <3>3 DEF AtWork, Busy, Completed
  <2> QED
    BY <2>1, <2>2
<1>3. FilesInv'
  BY DEF FilesInv, Touches
<1>4. ScansInv'
  <2>1. ASSUME NEW q \in Processes, NEW d \in Dirs
        PROVE  ScanInv(scan'[q], d, live'[d], archived'[d])
    <3>1. q # p => scan'[q] = scan[q]
      BY DEF Alone
    <3> QED
      BY <3>1, ScanWaits
  <2> QED
    BY <2>1 DEF ScansInv
<1> QED
  BY <1>1, <1>2, <1>3, <1>4 DEF Inv, WorkInv

-----------------------------------------------------------------------------
(* The steps of a scan.                                                    *)

\* Only the scan of p changes, and it stays a scan for the same purpose.
Looks(p) ==
    /\ UNCHANGED <<disk, pc, loop, faults>>
    /\ scan' \in [Processes -> Scans] /\ scan'[p].purpose = scan[p].purpose
    /\ \A q \in Processes : q # p => scan'[q] = scan[q]

LEMMA LooksKeepInv ==
    ASSUME Inv, NEW p \in Processes, Looks(p),
           \A d \in Dirs : ScanInv(scan'[p], d, live[d], archived[d])
    PROVE  Inv'
<1>1. TypeOK /\ FilesInv /\ AtWork(p)
  BY DEF Inv, WorkInv
<1>2. Touches(p)
  BY <1>1, Untouched DEF Looks
<1>3. /\ live' = live /\ archived' = archived /\ pc' = pc /\ task' = task
      /\ attempt' = attempt /\ spent' = spent /\ faults' = faults
  BY DEF Looks, disk, loop
<1>4. Alone(p)
  BY <1>3 DEF Looks, Alone
<1>5. AtWork(p)'
  BY <1>1, <1>3 DEF Looks, AtWork, Busy, Completed, Dir
<1>6. (pc'[p] = "scan") <=> (scan'[p].purpose # "none")
  BY <1>1, <1>3 DEF Looks, TypeOK
<1>7. task'[p] <= Work[p] + 1
  BY <1>1, <1>3 DEF TypeOK
<1>8. \A d \in Dirs : ScanInv(scan'[p], d, live'[d], archived'[d])
  BY <1>3
<1>9. /\ pc' \in [Processes -> {"down", "next", "scan", "make", "work", "unlink"}]
      /\ task' \in [Processes -> Nat \ {0}] /\ attempt' \in [Processes -> 0 .. TaskRetries]
      /\ spent' \in [Processes -> 0 .. MaxTokens] /\ scan' \in [Processes -> Scans]
      /\ faults' \in 0 .. MaxFaults
  BY <1>1, <1>3 DEF TypeOK, Looks
<1> QED
  BY <1>2, <1>4, <1>5, <1>6, <1>7, <1>8, <1>9, Together

\* What a scan finds a directory in.
LEMMA Scanning ==
    ASSUME Inv, NEW p \in Processes
    PROVE  /\ scan \in [Processes -> Scans] /\ scan[p] \in Scans
           /\ \A d \in Dirs : /\ live[d] \in Files /\ Sound(live[d])
                              /\ archived[d] \in Journals
                              /\ ScanInv(scan[p], d, live[d], archived[d])
                              /\ Position(scan[p], d, archived[d])
           /\ scan[p].names # {} => scan[p].at \in Dirs
<1>1. /\ scan \in [Processes -> Scans] /\ scan[p] \in Scans
      /\ \A d \in Dirs : /\ live[d] \in Files /\ Sound(live[d])
                         /\ archived[d] \in Journals
                         /\ ScanInv(scan[p], d, live[d], archived[d])
                         /\ Position(scan[p], d, archived[d])
  BY DEF Inv, TypeOK, FilesInv, ScansInv, ScanInv, Journals
<1>2. <<p, 1>> \in Dirs
  <2>1. 1 \in 1 .. Work[p]
    BY SharedRootAssumption
  <2> QED
    BY <2>1 DEF Dirs
<1>3. scan[p].names # {} => scan[p].at \in Dirs
  BY <1>1, <1>2 DEF Position
<1> QED
  BY <1>1, <1>3

LEMMA CountResultKeeps ==
    ASSUME Inv, NEW p \in Processes, CountResult(p) PROVE Inv'
<1>1. PICK e \in scan[p].results :
          scan' = [scan EXCEPT ![p].results = @ \ {e},
                               ![p].counted = Add(p, e, Amount(live[e].result))]
  BY DEF CountResult
<1> DEFINE s == scan[p]
           s2 == scan'[p]
           more == Add(p, e, Amount(live[e].result))
<1>2. s \in Scans /\ scan \in [Processes -> Scans] /\ e \in Dirs
  BY Scanning DEF Scans
<1>3. Amount(live[e].result) \in Nat
  BY <1>2, Scanning, Amounts DEF Files
<1>4. s2 = [s EXCEPT !.results = s.results \ {e}, !.counted = more]
  BY <1>1, <1>2
<1>5. /\ more \in [Dirs -> Nat]
      /\ \A d \in Dirs : more[d]
            = s.counted[d] + (IF d = e THEN Amount(live[d].result) ELSE 0)
  BY <1>2, <1>3 DEF Add, Scans
<1> HIDE DEF s, s2, more
<1>6. /\ s2 \in Scans /\ s2.purpose = s.purpose /\ s2.tasks = s.tasks
      /\ s2.names = s.names /\ s2.at = s.at /\ s2.reading = s.reading
      /\ s2.before = s.before /\ s2.results = s.results \ {e} /\ s2.counted = more
  BY <1>2, <1>4, <1>5 DEF Scans
<1>7. Looks(p)
  BY <1>1, <1>2, <1>6 DEF CountResult, Looks, s, s2
<1>8. ASSUME NEW d \in Dirs PROVE ScanInv(s2, d, live[d], archived[d])
  <2>1. /\ live[d] \in Files /\ archived[d] \in Journals
        /\ ScanInv(s, d, live[d], archived[d]) /\ e \in s.results
    BY Scanning DEF s
  <2> QED
    BY <1>2, <1>5, <1>6, <2>1, ResultCounted
<1> QED
  BY <1>7, <1>8, LooksKeepInv DEF s2

LEMMA ListTaskKeeps ==
    ASSUME Inv, NEW p \in Processes, ListTask(p) PROVE Inv'
<1>1. PICK e \in scan[p].tasks :
          scan' = [scan EXCEPT ![p].tasks = @ \ {e}, ![p].at = e,
                       ![p].names = (IF live[e].there THEN {0} ELSE {})
                                    \cup DOMAIN archived[e]]
  BY DEF ListTask
<1> DEFINE s == scan[p]
           s2 == scan'[p]
           names == (IF live[e].there THEN {0} ELSE {}) \cup DOMAIN archived[e]
<1>2. s \in Scans /\ scan \in [Processes -> Scans] /\ e \in Dirs
  BY Scanning DEF Scans
<1>3. names \in SUBSET Nat
  <2>1. archived[e] \in Journals
    BY <1>2, Scanning
  <2> QED
    BY <2>1 DEF Journals
<1>4. s2 = [s EXCEPT !.tasks = s.tasks \ {e}, !.at = e, !.names = names]
  BY <1>1, <1>2
<1> HIDE DEF s, s2, names
<1>5. /\ s2 \in Scans /\ s2.purpose = s.purpose /\ s2.results = s.results
      /\ s2.reading = s.reading /\ s2.counted = s.counted /\ s2.before = s.before
      /\ s2.tasks = s.tasks \ {e} /\ s2.at = e /\ s2.names = names
  BY <1>2, <1>3, <1>4 DEF Scans
<1>6. Looks(p)
  BY <1>1, <1>2, <1>5 DEF ListTask, Looks, s, s2
<1>7. s.results = {} /\ s.names = {} /\ s.reading = {}
  BY DEF ListTask, s
<1>8. ASSUME NEW d \in Dirs PROVE ScanInv(s2, d, live[d], archived[d])
  <2>1. /\ Sound(live[d]) /\ archived[d] \in Journals
        /\ ScanInv(s, d, live[d], archived[d]) /\ e \in s.tasks
    BY Scanning DEF s
  <2>2. d = e => s2.names = (IF live[d].there THEN {0} ELSE {}) \cup DOMAIN archived[d]
    BY <1>5 DEF names
  <2> QED
    BY <1>2, <1>5, <1>7, <2>1, <2>2, TaskListed
<1> QED
  BY <1>6, <1>8, LooksKeepInv DEF s2

LEMMA CountArchivedKeeps ==
    ASSUME Inv, NEW p \in Processes, CountArchived(p) PROVE Inv'
<1> DEFINE s == scan[p]
           s2 == scan'[p]
           a == scan[p].at
<1>1. PICK i \in scan[p].names \ {0} :
          scan' = [scan EXCEPT ![p].names = @ \ {i},
                               ![p].counted = Add(p, a, Amount(archived[a][i]))]
  BY DEF CountArchived
<1> DEFINE more == Add(p, a, Amount(archived[a][i]))
<1>2. s \in Scans /\ scan \in [Processes -> Scans] /\ a \in Dirs
  BY <1>1, Scanning
<1>3. Amount(archived[a][i]) \in Nat
  <2>1. archived[a] \in Journals /\ Position(s, a, archived[a])
    BY <1>2, Scanning
  <2>2. i \in DOMAIN archived[a]
    BY <1>1, <2>1 DEF Position
  <2>3. archived[a][i] \in Nat \cup {NoFile}
    BY <2>1, <2>2 DEF Journals
  <2> QED
    BY <2>3, Amounts
<1>4. s2 = [s EXCEPT !.names = s.names \ {i}, !.counted = more]
  BY <1>1, <1>2
<1>5. /\ more \in [Dirs -> Nat]
      /\ \A d \in Dirs : more[d]
            = s.counted[d] + (IF d = s.at THEN Amount(archived[d][i]) ELSE 0)
  BY <1>2, <1>3 DEF Add, Scans
<1> HIDE DEF s, s2, a, more
<1>6. /\ s2 \in Scans /\ s2.purpose = s.purpose /\ s2.results = s.results
      /\ s2.tasks = s.tasks /\ s2.at = s.at /\ s2.reading = s.reading
      /\ s2.before = s.before /\ s2.names = s.names \ {i} /\ s2.counted = more
  BY <1>2, <1>4, <1>5 DEF Scans
<1>7. Looks(p)
  BY <1>1, <1>2, <1>6 DEF CountArchived, Looks, s, s2
<1>8. s.reading = {}
  BY DEF CountArchived, s
<1>9. ASSUME NEW d \in Dirs PROVE ScanInv(s2, d, live[d], archived[d])
  <2>1. /\ live[d] \in Files /\ archived[d] \in Journals
        /\ ScanInv(s, d, live[d], archived[d]) /\ i \in s.names \ {0}
    BY <1>1, Scanning DEF s
  <2>2. s2.counted[d] = s.counted[d] + (IF d = s.at THEN Amount(archived[d][i]) ELSE 0)
    BY <1>5, <1>6
  <2> QED
    BY <1>2, <1>6, <1>8, <2>1, <2>2, ArchivedCounted
<1> QED
  BY <1>7, <1>9, LooksKeepInv DEF s2

LEMMA FindJournalKeeps ==
    ASSUME Inv, NEW p \in Processes, FindJournal(p) PROVE Inv'
<1> DEFINE s == scan[p]
           s2 == scan'[p]
           a == scan[p].at
           found == IF Counts(a) THEN {a} ELSE {}
<1>1. 0 \in s.names /\ scan' = [scan EXCEPT ![p].names = @ \ {0}, ![p].reading = found]
  BY DEF FindJournal
<1>2. s \in Scans /\ scan \in [Processes -> Scans] /\ a \in Dirs
  BY <1>1, Scanning
<1>3. found \in SUBSET Dirs /\ found \subseteq {s.at}
  BY <1>2
<1>4. s2 = [s EXCEPT !.names = s.names \ {0}, !.reading = found]
  BY <1>1, <1>2
<1>5. s.at \in found <=> live[s.at].journal # NoFile /\ live[s.at].result = NoFile
  BY DEF Counts, Completed
<1> HIDE DEF s, s2, a, found
<1>6. /\ s2 \in Scans /\ s2.purpose = s.purpose /\ s2.results = s.results
      /\ s2.tasks = s.tasks /\ s2.at = s.at /\ s2.reading = found
      /\ s2.before = s.before /\ s2.names = s.names \ {0} /\ s2.counted = s.counted
  BY <1>2, <1>3, <1>4 DEF Scans
<1>7. Looks(p)
  BY <1>1, <1>2, <1>6 DEF FindJournal, Looks, s, s2
<1>8. ASSUME NEW d \in Dirs PROVE ScanInv(s2, d, live[d], archived[d])
  <2>1. /\ live[d] \in Files /\ archived[d] \in Journals
        /\ ScanInv(s, d, live[d], archived[d])
    BY Scanning DEF s
  <2>2. d = s.at => (d \in s2.reading <=> live[d].journal # NoFile /\ live[d].result = NoFile)
    BY <1>5, <1>6
  <2> QED
    BY <1>1, <1>2, <1>3, <1>6, <2>1, <2>2, JournalFound
<1> QED
  BY <1>7, <1>8, LooksKeepInv DEF s2

LEMMA ReadJournalKeeps ==
    ASSUME Inv, NEW p \in Processes, ReadJournal(p) PROVE Inv'
<1> DEFINE s == scan[p]
           s2 == scan'[p]
           a == scan[p].at
           more == Add(p, a, live[a].journal)
<1>1. /\ a \in s.reading /\ live[a].journal # NoFile
      /\ scan' = [scan EXCEPT ![p].reading = {}, ![p].counted = more]
  BY DEF ReadJournal
<1>2. s \in Scans /\ scan \in [Processes -> Scans] /\ a \in Dirs
  BY <1>1, Scanning DEF Scans
<1>3. live[a].journal \in Nat
  <2>1. live[a] \in Files
    BY <1>2, Scanning
  <2> QED
    BY <1>1, <2>1 DEF Files
<1>4. s2 = [s EXCEPT !.reading = {}, !.counted = more]
  BY <1>1, <1>2
<1>5. /\ more \in [Dirs -> Nat]
      /\ \A d \in Dirs : more[d]
            = s.counted[d] + (IF d = s.at THEN live[d].journal ELSE 0)
  BY <1>2, <1>3 DEF Add, Scans
<1>6. s.at \in s.reading /\ live[s.at].journal # NoFile
  BY <1>1
<1> HIDE DEF s, s2, a, more
<1>7. /\ s2 \in Scans /\ s2.purpose = s.purpose /\ s2.results = s.results
      /\ s2.tasks = s.tasks /\ s2.at = s.at /\ s2.names = s.names
      /\ s2.before = s.before /\ s2.reading = {} /\ s2.counted = more
  BY <1>2, <1>4, <1>5 DEF Scans
<1>8. Looks(p)
  BY <1>1, <1>2, <1>7 DEF ReadJournal, Looks, s, s2
<1>9. ASSUME NEW d \in Dirs PROVE ScanInv(s2, d, live[d], archived[d])
  <2>1. /\ Sound(live[d]) /\ archived[d] \in Journals
        /\ ScanInv(s, d, live[d], archived[d])
    BY Scanning DEF s
  <2>2. s2.counted[d] = s.counted[d] + (IF d = s.at THEN live[d].journal ELSE 0)
    BY <1>5, <1>7
  <2>3. d = s.at => live[d].journal # NoFile
    BY <1>6
  <2> QED
    BY <1>2, <1>6, <1>7, <2>1, <2>2, <2>3, JournalRead
<1> QED
  BY <1>8, <1>9, LooksKeepInv DEF s2

-----------------------------------------------------------------------------
(* The steps of the commands.                                              *)

\* The state of a command after a step that leaves its scan as it is.
LEMMA ScanStays ==
    ASSUME Inv, NEW p \in Processes, Touches(p), Alone(p), scan' = scan,
           pc' \in [Processes -> {"down", "next", "scan", "make", "work", "unlink"}],
           task' \in [Processes -> Nat \ {0}], attempt' \in [Processes -> 0 .. TaskRetries],
           spent' \in [Processes -> 0 .. MaxTokens], faults' \in 0 .. MaxFaults,
           task'[p] <= Work[p] + 1, (pc'[p] = "scan") <=> (pc[p] = "scan"), AtWork(p)'
    PROVE  Inv'
<1>1. /\ scan' \in [Processes -> Scans]
      /\ (pc'[p] = "scan") <=> (scan'[p].purpose # "none")
  BY DEF Inv, TypeOK
<1>2. \A d \in Dirs : ScanInv(scan'[p], d, live'[d], archived'[d])
  BY ScanWaits
<1> QED
  BY <1>1, <1>2, Together

\* The state of a command after a step that begins a scan, or ends one.
LEMMA ScanChanges ==
    ASSUME Inv, NEW p \in Processes, Touches(p), NEW purpose \in Purposes,
           \/ purpose # "none" /\ Begin(p, purpose) /\ pc'[p] = "scan"
           \/ /\ purpose = "none" /\ scan' = [scan EXCEPT ![p] = NoScan]
              /\ pc'[p] # "scan",
           \A q \in Processes : q # p => /\ pc'[q] = pc[q] /\ task'[q] = task[q]
                                         /\ attempt'[q] = attempt[q] /\ spent'[q] = spent[q],
           pc' \in [Processes -> {"down", "next", "scan", "make", "work", "unlink"}],
           task' \in [Processes -> Nat \ {0}], attempt' \in [Processes -> 0 .. TaskRetries],
           spent' \in [Processes -> 0 .. MaxTokens], faults' \in 0 .. MaxFaults,
           task'[p] <= Work[p] + 1,
           pc'[p] \notin {"work", "unlink"}, pc'[p] = "make" => spent'[p] = 0,
           pc'[p] = "make" \/ purpose \in {"admit", "stop", "run", "raised", "accept"}
               => task'[p] <= Work[p]
    PROVE  Inv'
<1>1. scan \in [Processes -> Scans]
  BY DEF Inv, TypeOK
<1>2. PICK s \in Scans : /\ scan' = [scan EXCEPT ![p] = s] /\ s.purpose = purpose
                         /\ \A d \in Dirs : ScanInv(s, d, live'[d], archived'[d])
  <2>1. CASE purpose # "none" /\ Begin(p, purpose)
    BY <2>1, ScanForms DEF Begin
  <2>2. CASE purpose = "none" /\ scan' = [scan EXCEPT ![p] = NoScan]
    BY <2>2, ScanForms
  <2> QED
    BY <2>1, <2>2
<1>3. /\ scan' \in [Processes -> Scans] /\ scan'[p] = s
      /\ \A q \in Processes : q # p => scan'[q] = scan[q]
  BY <1>1, <1>2
<1>4. Alone(p)
  BY <1>3 DEF Alone
<1>5. AtWork(p)'
  BY <1>2, <1>3 DEF AtWork, Busy
<1>6. (pc'[p] = "scan") <=> (scan'[p].purpose # "none")
  BY <1>2, <1>3
<1>7. \A d \in Dirs : ScanInv(scan'[p], d, live'[d], archived'[d])
  BY <1>2, <1>3
<1> QED
  BY <1>3, <1>4, <1>5, <1>6, <1>7, Together

\* A command that ends.
LEMMA GoDownKeeps ==
    ASSUME Inv, NEW p \in Processes, GoDown(p), UNCHANGED disk, faults' \in 0 .. MaxFaults
    PROVE  Inv'
<1>1. TypeOK /\ FilesInv /\ Work[p] \in Nat \ {0} /\ TaskRetries \in Nat /\ MaxTokens \in Nat
  BY Owners, SharedRootAssumption DEF Inv
<1>2. Touches(p)
  BY <1>1, Untouched
<1>3. "none" \in Purposes
  BY DEF Purposes
<1>4. /\ pc' \in [Processes -> {"down", "next", "scan", "make", "work", "unlink"}]
      /\ task' \in [Processes -> Nat \ {0}] /\ attempt' \in [Processes -> 0 .. TaskRetries]
      /\ spent' \in [Processes -> 0 .. MaxTokens]
  BY <1>1 DEF GoDown, TypeOK
<1>5. /\ pc'[p] = "down" /\ task'[p] = 1 /\ scan' = [scan EXCEPT ![p] = NoScan]
      /\ \A q \in Processes : q # p => /\ pc'[q] = pc[q] /\ task'[q] = task[q]
                                       /\ attempt'[q] = attempt[q] /\ spent'[q] = spent[q]
  BY <1>1 DEF GoDown, TypeOK
<1>6. task'[p] <= Work[p] + 1
  BY <1>1, <1>5
<1> QED
  BY <1>2, <1>3, <1>4, <1>5, <1>6, ScanChanges

\* What the other lemmas ask of the variables, from the invariant.
LEMMA Given ==
    ASSUME Inv, NEW p \in Processes
    PROVE  /\ TypeOK /\ FilesInv /\ AtWork(p)
           /\ Work[p] \in Nat \ {0} /\ TaskRetries \in Nat /\ MaxTokens \in Nat \ {0}
           /\ pc \in [Processes -> {"down", "next", "scan", "make", "work", "unlink"}]
           /\ task \in [Processes -> Nat \ {0}] /\ task[p] <= Work[p] + 1
           /\ attempt \in [Processes -> 0 .. TaskRetries]
           /\ spent \in [Processes -> 0 .. MaxTokens] /\ faults \in 0 .. MaxFaults
           /\ MaxFaults \in Nat
           /\ (pc[p] = "scan") <=> (scan[p].purpose # "none")
           /\ Purposes = {"none", "admit", "stop", "run", "raised", "accept", "complete"}
  BY SharedRootAssumption DEF Inv, WorkInv, TypeOK, Purposes

LEMMA StartKeeps == ASSUME Inv, NEW p \in Processes, Start(p) PROVE Inv'
<1>1. Touches(p)
  BY Given, Untouched DEF Start
<1>2. /\ pc' = [pc EXCEPT ![p] = "next"] /\ pc[p] = "down" /\ scan' = scan
      /\ task' = task /\ attempt' = attempt /\ spent' = spent /\ faults' = faults
  BY DEF Start, Goto, loop
<1>3. pc' \in [Processes -> {"down", "next", "scan", "make", "work", "unlink"}]
      /\ pc'[p] = "next" /\ Alone(p)
  BY <1>2, Given DEF Alone
<1>4. AtWork(p)'
  BY <1>2, <1>3, Given DEF AtWork, Busy
<1> QED
  BY <1>1, <1>2, <1>3, <1>4, Given, ScanStays

LEMMA SkipCompletedKeeps == ASSUME Inv, NEW p \in Processes, SkipCompleted(p) PROVE Inv'
<1>1. Touches(p)
  BY Given, Untouched DEF SkipCompleted
<1>2. /\ task' = [task EXCEPT ![p] = @ + 1] /\ pc[p] = "next" /\ scan' = scan
      /\ pc' = pc /\ attempt' = attempt /\ spent' = spent /\ faults' = faults
      /\ task[p] <= Work[p]
  BY DEF SkipCompleted
<1>3. task' \in [Processes -> Nat \ {0}] /\ task'[p] = task[p] + 1 /\ Alone(p)
  BY <1>2, Given DEF Alone
<1>4. task'[p] <= Work[p] + 1
  BY <1>2, <1>3, Given
<1>5. AtWork(p)'
  BY <1>2, Given DEF AtWork, Busy
<1> QED
  BY <1>1, <1>2, <1>3, <1>4, <1>5, Given, ScanStays

LEMMA ConsiderKeeps == ASSUME Inv, NEW p \in Processes, Consider(p) PROVE Inv'
<1>1. /\ pc' = [pc EXCEPT ![p] = "scan"] /\ Begin(p, "admit") /\ task[p] <= Work[p]
      /\ task' = task /\ attempt' = attempt /\ spent' = spent /\ faults' = faults
  BY DEF Consider, Goto, loop
<1>2. Dir(p) \in Dirs
  BY <1>1, Given, Owners
<1>3. Touches(p)
  BY <1>2, Given, ArchiveTouched DEF Consider
<1>4. /\ pc' \in [Processes -> {"down", "next", "scan", "make", "work", "unlink"}]
      /\ pc'[p] = "scan" /\ \A q \in Processes : q # p => pc'[q] = pc[q]
  BY <1>1, Given
<1>5. "admit" \in Purposes
  BY Given
<1> QED
  BY <1>1, <1>3, <1>4, <1>5, Given, ScanChanges

LEMMA AdmitKeeps == ASSUME Inv, NEW p \in Processes, Admit(p) PROVE Inv'
<1>1. PICK purpose \in {"stop", "run"} : Begin(p, purpose)
  BY DEF Admit
<1>2. /\ attempt' = [attempt EXCEPT ![p] = 0] /\ pc' = pc /\ task' = task
      /\ spent' = spent /\ faults' = faults /\ pc[p] = "scan" /\ scan[p].purpose = "admit"
  BY DEF Admit, Scanned
<1>3. Touches(p)
  BY Given, Untouched DEF Admit
<1>4. /\ attempt' \in [Processes -> 0 .. TaskRetries]
      /\ \A q \in Processes : q # p => attempt'[q] = attempt[q]
  BY <1>2, Given
<1>5. task[p] <= Work[p]
  BY <1>2, Given DEF AtWork, Busy
<1>6. purpose \in Purposes /\ purpose # "none"
  BY <1>1, Given
<1> QED
  BY <1>1, <1>2, <1>3, <1>4, <1>5, <1>6, Given, ScanChanges

LEMMA BeginAttemptKeeps == ASSUME Inv, NEW p \in Processes, BeginAttempt(p) PROVE Inv'
<1>1. /\ pc' = [pc EXCEPT ![p] = "make"] /\ scan' = [scan EXCEPT ![p] = NoScan]
      /\ spent' = [spent EXCEPT ![p] = 0] /\ task' = task /\ attempt' = attempt
      /\ faults' = faults /\ scan[p].purpose = "run"
  BY DEF BeginAttempt
<1>2. Touches(p)
  BY Given, Untouched DEF BeginAttempt
<1>3. /\ pc' \in [Processes -> {"down", "next", "scan", "make", "work", "unlink"}]
      /\ spent' \in [Processes -> 0 .. MaxTokens] /\ pc'[p] = "make" /\ spent'[p] = 0
      /\ \A q \in Processes : q # p => pc'[q] = pc[q] /\ spent'[q] = spent[q]
  BY <1>1, Given
<1>4. task[p] <= Work[p]
  BY <1>1, Given DEF AtWork, Busy
<1>5. "none" \in Purposes
  BY Given
<1> QED
  BY <1>1, <1>2, <1>3, <1>4, <1>5, Given, ScanChanges

LEMMA EndCommandKeeps == ASSUME Inv, NEW p \in Processes, EndCommand(p) PROVE Inv'
<1>1. GoDown(p) /\ UNCHANGED disk /\ faults' \in 0 .. MaxFaults
  BY Given DEF EndCommand
<1> QED
  BY <1>1, GoDownKeeps

LEMMA CompleteKeeps == ASSUME Inv, NEW p \in Processes, Complete(p) PROVE Inv'
<1>1. /\ pc' = [pc EXCEPT ![p] = "scan"] /\ Begin(p, "complete")
      /\ task' = task /\ attempt' = attempt /\ spent' = spent /\ faults' = faults
  BY DEF Complete, Goto, loop
<1>2. Touches(p)
  BY Given, Untouched DEF Complete
<1>3. /\ pc' \in [Processes -> {"down", "next", "scan", "make", "work", "unlink"}]
      /\ pc'[p] = "scan" /\ \A q \in Processes : q # p => pc'[q] = pc[q]
  BY <1>1, Given
<1>4. "complete" \in Purposes
  BY Given
<1> QED
  BY <1>1, <1>2, <1>3, <1>4, Given, ScanChanges

LEMMA RetryOrGiveUpKeeps == ASSUME Inv, NEW p \in Processes, RetryOrGiveUp(p) PROVE Inv'
<1>1. /\ faults' = faults /\ pc[p] = "scan" /\ task[p] <= Work[p]
  BY Given DEF RetryOrGiveUp, Scanned, AtWork, Busy
<1>2. CASE GoDown(p) /\ UNCHANGED disk
  BY <1>1, <1>2, Given, GoDownKeeps
<1>3. CASE /\ attempt[p] < TaskRetries /\ Archive(p) /\ Begin(p, "run")
           /\ attempt' = [attempt EXCEPT ![p] = @ + 1] /\ UNCHANGED <<pc, task, spent>>
  <2>1. Touches(p)
    BY <1>1, <1>3, Given, Owners, ArchiveTouched
  <2>2. attempt[p] \in Nat /\ attempt[p] + 1 \in 0 .. TaskRetries
    BY <1>3, Given
  <2>3. /\ attempt' \in [Processes -> 0 .. TaskRetries]
        /\ \A q \in Processes : q # p => attempt'[q] = attempt[q]
    BY <1>3, <2>2, Given
  <2>4. "run" \in Purposes
    BY Given
  <2> QED
    BY <1>1, <1>3, <2>1, <2>3, <2>4, Given, ScanChanges
<1> QED
  BY <1>2, <1>3 DEF RetryOrGiveUp

LEMMA AcceptResultKeeps == ASSUME Inv, NEW p \in Processes, AcceptResult(p) PROVE Inv'
<1>1. /\ pc' = [pc EXCEPT ![p] = "next"] /\ scan' = [scan EXCEPT ![p] = NoScan]
      /\ task' = [task EXCEPT ![p] = @ + 1] /\ attempt' = [attempt EXCEPT ![p] = 0]
      /\ spent' = [spent EXCEPT ![p] = 0] /\ faults' = faults /\ scan[p].purpose = "accept"
  BY DEF AcceptResult
<1>2. Touches(p)
  BY Given, Untouched DEF AcceptResult
<1>3. task[p] <= Work[p] /\ task[p] + 1 \in Nat \ {0} /\ task[p] + 1 <= Work[p] + 1
  BY <1>1, Given DEF AtWork, Busy
<1>4. /\ pc' \in [Processes -> {"down", "next", "scan", "make", "work", "unlink"}]
      /\ task' \in [Processes -> Nat \ {0}] /\ attempt' \in [Processes -> 0 .. TaskRetries]
      /\ spent' \in [Processes -> 0 .. MaxTokens] /\ pc'[p] = "next"
      /\ task'[p] <= Work[p] + 1
  BY <1>1, <1>3, Given
<1>5. \A q \in Processes : q # p => /\ pc'[q] = pc[q] /\ task'[q] = task[q]
                                    /\ attempt'[q] = attempt[q] /\ spent'[q] = spent[q]
  BY <1>1, Given
<1>6. "none" \in Purposes
  BY Given
<1>7. faults' \in 0 .. MaxFaults
  BY <1>1, Given
<1>8. pc'[p] \notin {"scan", "make", "work", "unlink"}
  BY <1>4
<1>9. "none" \notin {"admit", "stop", "run", "raised", "accept"}
  OBVIOUS
<1>10. scan' = [scan EXCEPT ![p] = NoScan]
  BY <1>1
<1> QED
  BY <1>2, <1>4, <1>5, <1>6, <1>7, <1>8, <1>9, <1>10, ScanChanges

-----------------------------------------------------------------------------
(* The steps of the controller, and those that nobody chose.               *)

\* The files of the directory at hand, when only they change.
LEMMA OwnFiles ==
    ASSUME Inv, NEW p \in Processes, pc[p] \in {"make", "work", "unlink"}
    PROVE  /\ Dir(p) \in Dirs /\ live[Dir(p)] \in Files /\ Sound(live[Dir(p)])
           /\ archived[Dir(p)] \in Journals /\ task[p] <= Work[p]
           /\ live \in [Dirs -> Files]
<1>1. TypeOK /\ task[p] <= Work[p]
  BY Given DEF AtWork, Busy
<1>2. Dir(p) \in Dirs
  BY <1>1, Owners
<1>3. Sound(live[Dir(p)])
  BY <1>2 DEF Inv, FilesInv
<1> QED
  BY <1>1, <1>2, <1>3 DEF TypeOK, Journals, Sound

LEMMA MakeDirectoryKeeps == ASSUME Inv, NEW p \in Processes, MakeDirectory(p) PROVE Inv'
<1> DEFINE f == [live[Dir(p)] EXCEPT !.there = TRUE]
<1>1. /\ pc' = [pc EXCEPT ![p] = "work"] /\ pc[p] = "make" /\ ~live[Dir(p)].there
      /\ live' = [live EXCEPT ![Dir(p)] = f] /\ archived' = archived /\ scan' = scan
      /\ task' = task /\ attempt' = attempt /\ spent' = spent /\ faults' = faults
  <2>1. live' = [live EXCEPT ![Dir(p)].there = TRUE]
    BY DEF MakeDirectory
  <2> QED
    BY <2>1 DEF MakeDirectory, Goto, loop
<1>2. /\ Dir(p) \in Dirs /\ live[Dir(p)] = Absent /\ task[p] <= Work[p]
      /\ live \in [Dirs -> Files] /\ live[Dir(p)] \in Files
  BY <1>1, OwnFiles DEF Sound
<1>3. /\ f.there /\ f.journal = NoFile /\ f.result = NoFile /\ f \in Files
      /\ live[Dir(p)].journal = NoFile /\ live[Dir(p)].result = NoFile
  <2>1. live[Dir(p)].journal = NoFile /\ live[Dir(p)].result = NoFile
    BY <1>2 DEF Absent
  <2>2. /\ f.there /\ f.journal = live[Dir(p)].journal
        /\ f.result = live[Dir(p)].result /\ f \in Files
    BY <1>2 DEF Files
  <2> QED
    BY <2>1, <2>2
<1> HIDE DEF f
<1>4. Sound(f) /\ Counted(f) = 0 /\ Counted(live[Dir(p)]) = 0
  BY <1>3, Amounts DEF Sound, Counted
<1>5. Touches(p)
  <2>1. Moves(live[Dir(p)], archived[Dir(p)], f, archived[Dir(p)])
    BY <1>3, <1>4 DEF Moves
  <2> QED
    BY <1>1, <1>2, <1>4, <2>1, Given, LiveTouched
<1>6. /\ pc' \in [Processes -> {"down", "next", "scan", "make", "work", "unlink"}]
      /\ pc'[p] = "work" /\ Alone(p)
  BY <1>1, Given DEF Alone
<1>7. AtWork(p)'
  <2>1. Dir(p)' = Dir(p) /\ live'[Dir(p)] = f /\ spent'[p] = 0
    BY <1>1, <1>2, Given DEF Dir, AtWork
  <2>2. Amount(f.journal) = 0
    BY <1>3, Amounts
  <2> QED
    BY <1>1, <1>2, <1>3, <1>6, <2>1, <2>2 DEF AtWork, Busy, Completed
<1> QED
  BY <1>1, <1>5, <1>6, <1>7, Given, ScanStays

LEMMA RefuseKeeps == ASSUME Inv, NEW p \in Processes, Refuse(p) PROVE Inv'
<1>1. /\ pc' = [pc EXCEPT ![p] = "scan"] /\ Begin(p, "raised") /\ pc[p] = "make"
      /\ task' = task /\ attempt' = attempt /\ spent' = spent /\ faults' = faults
  BY DEF Refuse, Goto, loop
<1>2. Touches(p)
  BY Given, Untouched DEF Refuse
<1>3. /\ pc' \in [Processes -> {"down", "next", "scan", "make", "work", "unlink"}]
      /\ pc'[p] = "scan" /\ \A q \in Processes : q # p => pc'[q] = pc[q]
  BY <1>1, Given
<1>4. "raised" \in Purposes /\ task[p] <= Work[p]
  BY <1>1, Given, OwnFiles
<1> QED
  BY <1>1, <1>2, <1>3, <1>4, Given, ScanChanges

LEMMA PayKeeps == ASSUME Inv, NEW p \in Processes, Pay(p) PROVE Inv'
<1> DEFINE f == [live[Dir(p)] EXCEPT !.journal = spent[p] + 1]
<1>1. /\ pc' = pc /\ pc[p] = "work" /\ spent[p] < MaxTokens
      /\ spent' = [spent EXCEPT ![p] = @ + 1]
      /\ live' = [live EXCEPT ![Dir(p)] = f] /\ archived' = archived /\ scan' = scan
      /\ task' = task /\ attempt' = attempt /\ faults' = faults
  <2>1. live' = [live EXCEPT ![Dir(p)].journal = spent[p] + 1]
    BY DEF Pay
  <2> QED
    BY <2>1 DEF Pay
<1>2. /\ Dir(p) \in Dirs /\ live[Dir(p)] \in Files /\ task[p] <= Work[p]
      /\ live \in [Dirs -> Files]
  BY <1>1, OwnFiles
<1>3. /\ live[Dir(p)].there /\ live[Dir(p)].result = NoFile
      /\ Amount(live[Dir(p)].journal) = spent[p]
  BY <1>1, Given DEF AtWork, Completed
<1>4. spent[p] \in Nat /\ spent[p] + 1 \in Nat /\ spent[p] + 1 \in 0 .. MaxTokens
  BY <1>1, Given
<1>5. f.there /\ f.journal = spent[p] + 1 /\ f.result = NoFile /\ f \in Files
  BY <1>2, <1>3, <1>4 DEF Files
<1> HIDE DEF f
<1>6. Sound(f) /\ Counted(f) = spent[p] + 1 /\ Counted(live[Dir(p)]) = spent[p]
      /\ Amount(f.journal) = spent[p] + 1
  <2>1. Amount(f.journal) = spent[p] + 1
    BY <1>4, <1>5, SharedRootAssumption DEF Amount
  <2>2. Counted(f) = spent[p] + 1 /\ Counted(live[Dir(p)]) = spent[p]
    BY <1>3, <1>5, <2>1 DEF Counted
  <2>3. Sound(f)
    BY <1>5 DEF Sound
  <2> QED
    BY <2>1, <2>2, <2>3
<1>7. Touches(p)
  <2>1. Moves(live[Dir(p)], archived[Dir(p)], f, archived[Dir(p)])
    BY <1>3, <1>4, <1>5, <1>6 DEF Moves
  <2> QED
    BY <1>1, <1>2, <1>6, <2>1, Given, LiveTouched
<1>8. /\ spent' \in [Processes -> 0 .. MaxTokens] /\ spent'[p] = spent[p] + 1 /\ Alone(p)
  BY <1>1, <1>4, Given DEF Alone
<1>9. AtWork(p)'
  <2>1. Dir(p)' = Dir(p) /\ live'[Dir(p)] = f
    BY <1>1, <1>2 DEF Dir
  <2> QED
    BY <1>1, <1>2, <1>5, <1>6, <1>8, <2>1 DEF AtWork, Busy, Completed
<1> QED
  BY <1>1, <1>7, <1>8, <1>9, Given, ScanStays

LEMMA WriteResultKeeps == ASSUME Inv, NEW p \in Processes, WriteResult(p) PROVE Inv'
<1> DEFINE f == [live[Dir(p)] EXCEPT !.result = spent[p]]
<1>1. /\ pc' = [pc EXCEPT ![p] = "unlink"] /\ pc[p] = "work"
      /\ live' = [live EXCEPT ![Dir(p)] = f] /\ archived' = archived /\ scan' = scan
      /\ task' = task /\ attempt' = attempt /\ spent' = spent /\ faults' = faults
  <2>1. live' = [live EXCEPT ![Dir(p)].result = spent[p]]
    BY DEF WriteResult
  <2> QED
    BY <2>1 DEF WriteResult, Goto, loop
<1>2. /\ Dir(p) \in Dirs /\ live[Dir(p)] \in Files /\ task[p] <= Work[p]
      /\ live \in [Dirs -> Files]
  BY <1>1, OwnFiles
<1>3. /\ live[Dir(p)].there /\ live[Dir(p)].result = NoFile
      /\ Amount(live[Dir(p)].journal) = spent[p]
  BY <1>1, Given DEF AtWork, Completed
<1>4. spent[p] \in Nat /\ spent[p] # NoFile
  BY Given, SharedRootAssumption
<1>5. /\ f.there /\ f.journal = live[Dir(p)].journal /\ f.result = spent[p] /\ f \in Files
  BY <1>2, <1>3, <1>4 DEF Files
<1> HIDE DEF f
<1>6. Sound(f) /\ Counted(f) = spent[p] /\ Counted(live[Dir(p)]) = spent[p]
  <2>1. f.journal # NoFile => f.journal = f.result
    BY <1>2, <1>3, <1>5, Amounts DEF Files
  <2> QED
    BY <1>3, <1>4, <1>5, <2>1 DEF Sound, Counted
<1>7. Touches(p)
  <2>1. Moves(live[Dir(p)], archived[Dir(p)], f, archived[Dir(p)])
    BY <1>3, <1>4, <1>5, <1>6 DEF Moves
  <2> QED
    BY <1>1, <1>2, <1>6, <2>1, Given, LiveTouched
<1>8. /\ pc' \in [Processes -> {"down", "next", "scan", "make", "work", "unlink"}]
      /\ pc'[p] = "unlink" /\ Alone(p)
  BY <1>1, Given DEF Alone
<1>9. AtWork(p)'
  <2>1. Dir(p)' = Dir(p) /\ live'[Dir(p)] = f
    BY <1>1, <1>2 DEF Dir
  <2> QED
    BY <1>1, <1>2, <1>4, <1>5, <1>8, <2>1 DEF AtWork, Busy, Completed
<1> QED
  BY <1>1, <1>7, <1>8, <1>9, Given, ScanStays

LEMMA UnlinkJournalKeeps == ASSUME Inv, NEW p \in Processes, UnlinkJournal(p) PROVE Inv'
<1> DEFINE f == [live[Dir(p)] EXCEPT !.journal = NoFile]
<1>1. /\ pc' = [pc EXCEPT ![p] = "scan"] /\ pc[p] = "unlink" /\ Begin(p, "accept")
      /\ live' = [live EXCEPT ![Dir(p)] = f] /\ archived' = archived
      /\ task' = task /\ attempt' = attempt /\ spent' = spent /\ faults' = faults
  <2>1. live' = [live EXCEPT ![Dir(p)].journal = NoFile]
    BY DEF UnlinkJournal
  <2> QED
    BY <2>1 DEF UnlinkJournal, Goto, loop
<1>2. /\ Dir(p) \in Dirs /\ live[Dir(p)] \in Files /\ task[p] <= Work[p]
      /\ live \in [Dirs -> Files]
  BY <1>1, OwnFiles
<1>3. live[Dir(p)].there /\ live[Dir(p)].result # NoFile
  BY <1>1, Given DEF AtWork, Completed
<1>4. /\ f.there /\ f.journal = NoFile /\ f.result = live[Dir(p)].result /\ f \in Files
  BY <1>2, <1>3 DEF Files
<1> HIDE DEF f
<1>5. Sound(f) /\ Counted(f) = Counted(live[Dir(p)]) /\ Counted(f) \in Nat
  BY <1>3, <1>4, Amounts DEF Sound, Counted
<1>6. Touches(p)
  <2>1. Moves(live[Dir(p)], archived[Dir(p)], f, archived[Dir(p)])
    BY <1>4, <1>5 DEF Moves
  <2> QED
    BY <1>1, <1>2, <1>5, <2>1, Given, LiveTouched
<1>7. /\ pc' \in [Processes -> {"down", "next", "scan", "make", "work", "unlink"}]
      /\ pc'[p] = "scan" /\ \A q \in Processes : q # p => pc'[q] = pc[q]
  BY <1>1, Given
<1>8. "accept" \in Purposes
  BY Given
<1> QED
  BY <1>1, <1>2, <1>6, <1>7, <1>8, Given, ScanChanges

LEMMA ScanRaisesKeeps == ASSUME Inv, NEW p \in Processes, ScanRaises(p) PROVE Inv'
<1>1. GoDown(p) /\ UNCHANGED disk /\ faults' \in 0 .. MaxFaults
  BY Given DEF ScanRaises
<1> QED
  BY <1>1, GoDownKeeps

LEMMA RunRaisesKeeps == ASSUME Inv, NEW p \in Processes, RunRaises(p) PROVE Inv'
<1>1. /\ pc' = [pc EXCEPT ![p] = "scan"] /\ pc[p] \in {"work", "unlink"}
      /\ Begin(p, "raised") /\ task' = task /\ attempt' = attempt /\ spent' = spent
      /\ faults < MaxFaults /\ faults' = faults + 1
  BY DEF RunRaises, Fault, loop
<1>2. Touches(p)
  BY Given, Untouched DEF RunRaises
<1>3. /\ pc' \in [Processes -> {"down", "next", "scan", "make", "work", "unlink"}]
      /\ pc'[p] = "scan" /\ \A q \in Processes : q # p => pc'[q] = pc[q]
  BY <1>1, Given
<1>4. "raised" \in Purposes /\ task[p] <= Work[p] /\ faults' \in 0 .. MaxFaults
  BY <1>1, Given, OwnFiles
<1> QED
  BY <1>1, <1>2, <1>3, <1>4, Given, ScanChanges

LEMMA CrashKeeps == ASSUME Inv, NEW p \in Processes, Crash(p) PROVE Inv'
<1>1. GoDown(p) /\ UNCHANGED disk
  BY DEF Crash
<1>2. faults' \in 0 .. MaxFaults
  BY Given DEF Crash, Fault
<1> QED
  BY <1>1, <1>2, GoDownKeeps

-----------------------------------------------------------------------------
(* The theorems.                                                           *)

LEMMA InitInv == Init => Inv
<1> SUFFICES ASSUME Init PROVE Inv
  OBVIOUS
<1>1. Absent \in Files /\ Sound(Absent) /\ Counted(Absent) = 0 /\ <<>> \in Journals
  BY Amounts DEF Absent, Files, Sound, Counted, Journals
<1>2. /\ \A d \in Dirs : live[d] = Absent /\ archived[d] = <<>>
      /\ \A p \in Processes : /\ pc[p] = "down" /\ task[p] = 1 /\ attempt[p] = 0
                              /\ spent[p] = 0 /\ scan[p] = NoScan
      /\ faults = 0
  BY DEF Init
<1>3. /\ NoScan \in Scans /\ NoScan.purpose = "none" /\ NoScan.results = NoScan.tasks
      /\ NoScan.names = {} /\ NoScan.reading = {}
      /\ \A d \in Dirs : NoScan.counted[d] = 0
  <2> DEFINE nothing == [d \in Dirs |-> [shown |-> 0, version |-> <<NoFile, 0>>]]
  <2>1. NoScan = ScanOf("none", {}, nothing)
    BY DEF NoScan
  <2>2. nothing \in [Dirs -> [shown : Nat, version : (Nat \cup {NoFile}) \X Nat]]
    OBVIOUS
  <2> HIDE DEF nothing
  <2> QED
    BY <2>1, <2>2 DEF ScanOf, Scans, Purposes
<1>4. TypeOK
  <2>1. live \in [Dirs -> Files] /\ archived \in [Dirs -> Seq(Nat \cup {NoFile})]
    BY <1>1 DEF Init, Journals
  <2>2. /\ pc \in [Processes -> {"down", "next", "scan", "make", "work", "unlink"}]
        /\ task \in [Processes -> Nat \ {0}] /\ scan \in [Processes -> Scans]
    BY <1>3 DEF Init
  <2>3. /\ attempt \in [Processes -> 0 .. TaskRetries]
        /\ spent \in [Processes -> 0 .. MaxTokens] /\ faults \in 0 .. MaxFaults
    BY SharedRootAssumption DEF Init
  <2>4. ASSUME NEW p \in Processes
        PROVE  /\ task[p] <= Work[p] + 1
               /\ (pc[p] = "scan") <=> (scan[p].purpose # "none")
    BY <1>2, <1>3, SharedRootAssumption
  <2> QED
    BY <2>1, <2>2, <2>3, <2>4 DEF TypeOK
<1>5. WorkInv
  <2> SUFFICES ASSUME NEW p \in Processes PROVE AtWork(p)
    BY DEF WorkInv
  <2>1. 1 <= Work[p]
    BY SharedRootAssumption
  <2> QED
    BY <1>2, <2>1 DEF AtWork
<1>6. FilesInv
  BY <1>1, <1>2 DEF FilesInv
<1>7. ScansInv
  <2> SUFFICES ASSUME NEW p \in Processes, NEW d \in Dirs
               PROVE  ScanInv(scan[p], d, live[d], archived[d])
    BY DEF ScansInv
  <2> QED
    BY <1>1, <1>2, <1>3, ScanBegun
<1> QED
  BY <1>4, <1>5, <1>6, <1>7 DEF Inv

LEMMA NextInv == Inv /\ [Next]_vars => Inv'
<1> SUFFICES ASSUME Inv, [Next]_vars PROVE Inv'
  OBVIOUS
<1>1. CASE Next
  <2>1. PICK p \in Processes :
            Start(p) \/ Step(p) \/ ScanRaises(p) \/ RunRaises(p) \/ Crash(p)
    BY <1>1 DEF Next
  <2>2. CASE Start(p) \/ ScanRaises(p) \/ RunRaises(p) \/ Crash(p)
    BY <2>2, StartKeeps, ScanRaisesKeeps, RunRaisesKeeps, CrashKeeps
  <2>3. CASE Step(p)
    <3>1. CASE ScanStep(p)
      BY <3>1, CountResultKeeps, ListTaskKeeps, CountArchivedKeeps, FindJournalKeeps,
         ReadJournalKeeps DEF ScanStep
    <3>2. CASE SkipCompleted(p) \/ Consider(p) \/ Admit(p) \/ BeginAttempt(p)
               \/ EndCommand(p) \/ Complete(p) \/ RetryOrGiveUp(p) \/ AcceptResult(p)
      BY <3>2, SkipCompletedKeeps, ConsiderKeeps, AdmitKeeps, BeginAttemptKeeps,
         EndCommandKeeps, CompleteKeeps, RetryOrGiveUpKeeps, AcceptResultKeeps
    <3>3. CASE MakeDirectory(p) \/ Refuse(p) \/ Pay(p) \/ WriteResult(p) \/ UnlinkJournal(p)
      BY <3>3, MakeDirectoryKeeps, RefuseKeeps, PayKeeps, WriteResultKeeps,
         UnlinkJournalKeeps
    <3> QED
      BY <2>3, <3>1, <3>2, <3>3 DEF Step
  <2> QED
    BY <2>1, <2>2, <2>3
<1>2. CASE UNCHANGED vars
  BY <1>2 DEF vars, disk, loop, Inv, TypeOK, WorkInv, AtWork, Busy, Completed, Dir,
              FilesInv, ScansInv
<1> QED
  BY <1>1, <1>2

LEMMA SpecInv == Spec => []Inv
BY InitInv, NextInv, PTL DEF Spec

\* Every variable of the commands and of their scans keeps its type; a scan
\* counts in whole tokens and lists only what there is.
THEOREM SharedTyped == Spec => []TypeOK
<1>1. Inv => TypeOK
  BY DEF Inv
<1> QED
  BY <1>1, SpecInv, PTL

\* However the reads of consumed_cost_usd fall between the writes of the other
\* commands, no scan counts a token twice: of no task more than the root shows.
THEOREM CountsNothingTwice == Spec => []NeverOvercounts
<1>1. ASSUME Inv PROVE NeverOvercounts
  <2> SUFFICES ASSUME NEW p \in Processes, NEW d \in Dirs
               PROVE  scan[p].counted[d] <= Shown(d)
    BY DEF NeverOvercounts
  <2> DEFINE s == scan[p]
             f == live[d]
             j == archived[d]
  <2>1. /\ s \in Scans /\ f \in Files /\ j \in Journals /\ ScanInv(s, d, f, j)
        /\ Position(s, d, j)
    BY <1>1, Scanning
  <2> HIDE DEF s, f, j
  <2>2. /\ s.counted[d] \in Nat /\ Pending(s, d, f) \in 0 .. Counted(f)
        /\ Counted(f) \in Nat /\ ShownIn(f, j) \in Nat
        /\ d = s.at => Held(j, s.names \ {0}) \in Nat
    BY <2>1, ScanTypes
  <2>3. HasSeen(s, d, f, j) <= ShownIn(f, j)
    BY <2>1 DEF ScanInv, Upper
  <2>4. s.counted[d] <= HasSeen(s, d, f, j) /\ HasSeen(s, d, f, j) \in Nat
    BY <2>2 DEF HasSeen
  <2>5. s.counted[d] <= ShownIn(f, j)
    BY <2>2, <2>3, <2>4
  <2> QED
    BY <2>5 DEF ShownIn, Shown, s, f, j
<1> QED
  BY <1>1, SpecInv, PTL

\* A finished scan has, of every task that was neither completed nor archived
\* while it looked, all that was shown when it began: only the journal that
\* moves can be missed.
THEOREM MissesNothingElse == Spec => []MissesOnlyWhatMoved
<1>1. ASSUME Inv PROVE MissesOnlyWhatMoved
  <2> SUFFICES ASSUME NEW p \in Processes, Scanned(p), NEW d \in Dirs,
                      Version(d) = scan[p].before[d].version
               PROVE  scan[p].counted[d] >= scan[p].before[d].shown
    BY DEF MissesOnlyWhatMoved
  <2> DEFINE s == scan[p]
             f == live[d]
             j == archived[d]
  <2>1. /\ s \in Scans /\ f \in Files /\ j \in Journals /\ ScanInv(s, d, f, j)
        /\ Position(s, d, j)
    BY <1>1, Scanning
  <2>2. /\ s.purpose # "none" /\ s.tasks = {} /\ s.names = {} /\ s.reading = {}
        /\ <<f.result, Len(j)>> = s.before[d].version
    BY <1>1, Given DEF Scanned, Version
  <2> HIDE DEF s, f, j
  <2>3. HasSeen(s, d, f, j) >= s.before[d].shown
    BY <2>1, <2>2 DEF ScanInv, Lower
  <2>4. s.counted[d] \in Nat /\ Held(j, {}) = 0
    BY <2>1, HeldParts DEF Scans
  <2>5. HasSeen(s, d, f, j) = s.counted[d]
    <3>1. Pending(s, d, f) = 0
      BY <2>2 DEF Pending
    <3> QED
      BY <2>2, <2>4, <3>1 DEF HasSeen
  <2>6. s.counted[d] >= s.before[d].shown
    BY <2>3, <2>5
  <2> QED
    BY <2>6 DEF s
<1> QED
  BY <1>1, SpecInv, PTL
=============================================================================
