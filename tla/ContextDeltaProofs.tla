--------------------------- MODULE ContextDeltaProofs ---------------------------
(***************************************************************************)
(* Safety of the evidence of a recovery, for every set of files, cap and   *)
(* bound: the caps are kept but for the rounding, nothing of a file that a *)
(* read had named is given as new, and nothing that was asked for is left  *)
(* out unless a cap was reached.                                           *)
(***************************************************************************)
EXTENDS ContextDelta, FiniteSetTheorems, TLAPS

-----------------------------------------------------------------------------
(* Keys and regions.                                                       *)

\* The region of a read starts at line 1 or later and has at least one line.
LEMMA KeyType ==
    ASSUME NEW path \in Files, NEW start \in Int, NEW end \in Int
    PROVE  RegionKey(path, start, end) \in Key /\ RegionKey(path, start, end).path = path
<1> DEFINE s == Greatest(1, start)
           e == Greatest(s, Least(s + MaxSpan - 1, end))
<1>1. s \in Nat /\ e \in Nat
  BY ContextDeltaAssumption DEF Greatest, Least
<1>2. RegionKey(path, start, end) = [path |-> path, start |-> s, end |-> e]
  BY DEF RegionKey
<1> HIDE DEF s, e
<1> QED
  BY <1>1, <1>2 DEF Key

\* A number holds four times its quarter, rounded down, and at most three more.
LEMMA Quarter ==
    ASSUME NEW n \in Nat
    PROVE  /\ n \div 4 \in Nat /\ n <= 4 * (n \div 4) + 3 /\ 4 * (n \div 4) <= n
  BY SMT

\* A region with a line has text.
LEMMA TextIn ==
    ASSUME NEW key \in Key
    PROVE  /\ LinesOf(key) \in Nat /\ Text(key) \in Nat
           /\ LinesOf(key) > 0 => Text(key) > 0
<1>1. Length[key.path] \in Nat /\ key.start \in Nat /\ key.end \in Nat
      /\ Width \in Nat /\ Width >= 9
  BY ContextDeltaAssumption DEF Key
<1>2. LinesOf(key) \in Nat
  BY <1>1 DEF LinesOf, Greatest, Least
<1>3. \A l, w \in Nat : l > 0 /\ w >= 9 => l * w \in Nat /\ l * w >= 9
  <2> SUFFICES ASSUME NEW l \in Nat, NEW w \in Nat, l > 0, w >= 9
               PROVE  l * w \in Nat /\ l * w >= 9
    OBVIOUS
  <2>1. l * w = (l - 1) * w + w
    OBVIOUS
  <2>2. l - 1 \in Nat /\ (l - 1) * w \in Nat
    OBVIOUS
  <2> QED
    BY <2>1, <2>2
<1> QED
  BY <1>1, <1>2, <1>3 DEF Text

\* What is kept of a region costs no more than what remains, and is its cost in
\* characters but for the rounding; nothing is kept of a text only if nothing
\* remains.
LEMMA KeptIn ==
    ASSUME NEW key \in Key, NEW remaining \in Nat
    PROVE  /\ Kept(key, remaining) \in Nat
           /\ Cost(key, remaining) \in 0 .. remaining
           /\ Kept(key, remaining) <= 4 * Cost(key, remaining) + 3
           /\ LinesOf(key) > 0 /\ Kept(key, remaining) = 0 => remaining = 0
<1>1. Text(key) \in Nat /\ (LinesOf(key) > 0 => Text(key) > 0)
  BY TextIn
<1>2. Estimate(key) \in Nat /\ Text(key) <= 4 * Estimate(key) + 3
  BY <1>1, Quarter DEF Estimate, Greatest
<1>3. CASE Estimate(key) > remaining
  <2>1. /\ Kept(key, remaining) = Least(Text(key), 4 * remaining)
        /\ Cost(key, remaining) = Kept(key, remaining) \div 4
    BY <1>3 DEF Kept, Cost
  <2>2. Kept(key, remaining) \in Nat /\ Kept(key, remaining) <= 4 * remaining
        /\ (Kept(key, remaining) = 0 => Text(key) = 0 \/ remaining = 0)
    BY <1>1, <2>1 DEF Least
  <2>3. /\ Cost(key, remaining) \in Nat
        /\ Kept(key, remaining) <= 4 * Cost(key, remaining) + 3
        /\ 4 * Cost(key, remaining) <= Kept(key, remaining)
    BY <2>1, <2>2, Quarter
  <2>4. Cost(key, remaining) <= remaining
    BY <2>2, <2>3
  <2> QED
    BY <1>1, <2>2, <2>3, <2>4
<1>4. CASE ~(Estimate(key) > remaining)
  <2>1. Kept(key, remaining) = Text(key) /\ Cost(key, remaining) = Estimate(key)
    BY <1>4 DEF Kept, Cost
  <2> QED
    BY <1>1, <1>2, <1>4, <2>1
<1> QED
  BY <1>3, <1>4

\* A region more: its key, its path and its characters are added to those of
\* the list.
LEMMA OneMore ==
    ASSUME NEW regions \in Seq(Regions), NEW key \in Key, NEW kept \in Nat \ {0},
           IsFiniteSet(Characters(regions))
    PROVE  LET more == Append(regions, Region(key, kept)) IN
           /\ more \in Seq(Regions) /\ Len(more) = Len(regions) + 1
           /\ Keys(more) = Keys(regions) \cup {key}
           /\ PathsOf(more) = PathsOf(regions) \cup {key.path}
           /\ IsFiniteSet(Characters(more)) /\ Held(more) = Held(regions) + kept
<1> DEFINE region == Region(key, kept)
           more == Append(regions, region)
           n == Len(regions)
<1>1. region \in Regions /\ region.path = key.path /\ region.kept = kept
  BY DEF Region, Regions, Key
<1>2. KeyOf(region) = key
  BY DEF KeyOf, Region, Key
<1>3. /\ n \in Nat /\ DOMAIN regions = 1 .. n
      /\ more \in Seq(Regions) /\ Len(more) = n + 1 /\ DOMAIN more = 1 .. n + 1
      /\ more[n + 1] = region /\ \A i \in 1 .. n : more[i] = regions[i]
  BY <1>1
<1> HIDE DEF region, more, n
<1>4. Keys(more) = Keys(regions) \cup {key}
  BY <1>2, <1>3 DEF Keys
<1>5. PathsOf(more) = PathsOf(regions) \cup {key.path}
  BY <1>1, <1>3 DEF PathsOf
<1> DEFINE last == {n + 1} \X (1 .. kept)
<1>6. Characters(more) = Characters(regions) \cup last
  <2>1. Characters(more) = UNION {{i} \X (1 .. more[i].kept) : i \in 1 .. n + 1}
    BY <1>3 DEF Characters
  <2>2. Characters(regions) = UNION {{i} \X (1 .. more[i].kept) : i \in 1 .. n}
    BY <1>3 DEF Characters
  <2>3. last = {n + 1} \X (1 .. more[n + 1].kept)
    BY <1>1, <1>3
  <2>4. 1 .. n + 1 = (1 .. n) \cup {n + 1}
    BY <1>3
  <2> HIDE DEF last
  <2> QED
    BY <2>1, <2>2, <2>3, <2>4
<1>7. Characters(regions) \cap last = {}
  <2> SUFFICES ASSUME NEW x \in Characters(regions), x \in last PROVE FALSE
    OBVIOUS
  <2>1. PICK i \in 1 .. n : x \in {i} \X (1 .. regions[i].kept)
    BY <1>3 DEF Characters
  <2>2. x[1] = i /\ x[1] = n + 1
    BY <2>1
  <2> QED
    BY <1>3, <2>2
<1>8. IsFiniteSet(last) /\ Cardinality(last) = kept
  <2>1. IsFiniteSet(1 .. kept) /\ Cardinality(1 .. kept) = kept
    BY FS_Interval
  <2>2. IsFiniteSet({n + 1}) /\ Cardinality({n + 1}) = 1
    BY FS_Singleton
  <2> DEFINE one == {n + 1}
             line == 1 .. kept
  <2> HIDE DEF one, line
  <2>3. /\ IsFiniteSet(one \X line)
        /\ Cardinality(one \X line) = Cardinality(one) * Cardinality(line)
    BY <2>1, <2>2, FS_Product, Zenon DEF one, line
  <2>4. Cardinality(one \X line) = 1 * kept
    BY <2>1, <2>2, <2>3, Zenon DEF one, line
  <2>5. 1 * kept = kept
    OBVIOUS
  <2> QED
    BY <2>3, <2>4, <2>5, Zenon DEF one, line
<1>9. IsFiniteSet(Characters(more)) /\ Held(more) = Held(regions) + kept
  <2>1. Cardinality({}) = 0
    BY FS_EmptySet
  <2>2. Cardinality(Characters(regions)) \in Nat
    BY FS_CardinalityType
  <2> HIDE DEF last
  <2>3. /\ IsFiniteSet(Characters(regions) \cup last)
        /\ Cardinality(Characters(regions) \cup last)
               = Cardinality(Characters(regions)) + Cardinality(last) - 0
    BY <1>7, <1>8, <2>1, FS_Union
  <2> QED
    BY <1>6, <1>8, <2>2, <2>3 DEF Held
<1> QED
  BY <1>3, <1>4, <1>5, <1>9 DEF more, region, n

-----------------------------------------------------------------------------
(* The invariant.                                                          *)

\* A list of regions is paid for but for the rounding, each region once, and
\* within its cap.
Tally(regions, cost, cap) ==
    /\ regions \in Seq(Regions)
    /\ IsFiniteSet(Characters(regions)) /\ IsFiniteSet(Keys(regions))
    /\ IsFiniteSet(PathsOf(regions))
    /\ Held(regions) \in Nat /\ Held(regions) <= 4 * cost + 3 * Len(regions)
    /\ cost \in 0 .. cap
    /\ Cardinality(Keys(regions)) = Len(regions)

TypeInv ==
    /\ TypeOK
    /\ Tally(new, newCost, MaxNewTokens)
    /\ Tally(anchored, anchorCost, MaxAnchorTokens)

\* A loop over regions or matches goes on only while another file is allowed.
CapsInv ==
    /\ Cardinality(NewFiles) <= MaxNewFiles
    /\ pc = "matches" => Cardinality(NewFiles) < MaxNewFiles
    /\ Cardinality(PathsOf(anchored)) <= MaxAnchorFiles

\* New is what no read of the initial attempt was of, anchors are the rest.
SeenInv ==
    /\ asked = seen
    /\ pc = "initial" => new = <<>>
    /\ HistoryAware => NewFiles \cap seen = {}
    /\ \A i \in DOMAIN anchors : pc # "initial" /\ anchors[i].path \in seen
    /\ PathsOf(anchored) \subseteq seen

Beginning(path) == RegionKey(path, 1, CandidateEnd)

\* What was asked for and may be given is given, noted, or over a cap.
Given(key) == LinesOf(key) > 0 /\ ~Withheld(key.path) => key \in Keys(new) \/ Full
Noted(key) == key.path \in seen => \E i \in DOMAIN anchors : anchors[i] = key
Refreshed(key) == LinesOf(key) > 0 => key \in Keys(anchored) \/ AnchorsFull

CoverInv ==
    /\ pc = "initial" => wanted = {}
    /\ pc \in {"initial", "actions", "matches"} => next = 1
    /\ \A key \in wanted : Given(key) /\ Noted(key)
    /\ pc = "candidates" =>
           \A i \in DOMAIN candidates : i < next => Given(Beginning(candidates[i]))
    /\ pc \in {"seen candidates", "anchors", "attempt"} =>
           \A i \in DOMAIN candidates : Given(Beginning(candidates[i]))
    /\ pc = "seen candidates" =>
           \A i \in DOMAIN candidates : i < next => Noted(Beginning(candidates[i]))
    /\ pc \in {"anchors", "attempt"} =>
           \A i \in DOMAIN candidates : Noted(Beginning(candidates[i]))
    /\ pc = "anchors" => \A i \in DOMAIN anchors : i < next => Refreshed(anchors[i])
    /\ pc = "attempt" => \A i \in DOMAIN anchors : Refreshed(anchors[i])

IInv == TypeInv /\ CapsInv /\ SeenInv /\ CoverInv

-----------------------------------------------------------------------------
(* The two lists.                                                          *)

\* An empty list costs nothing.
LEMMA NothingYet ==
    /\ Keys(<<>>) = {} /\ PathsOf(<<>>) = {} /\ Cardinality({}) = 0
    /\ \A cap \in Nat : Tally(<<>>, 0, cap)
<1>1. /\ Keys(<<>>) = {} /\ PathsOf(<<>>) = {} /\ Characters(<<>>) = {}
  BY DEF Keys, PathsOf, Characters
<1>2. IsFiniteSet({}) /\ Cardinality({}) = 0
  BY FS_EmptySet
<1>3. <<>> \in Seq(Regions) /\ Len(<<>>) = 0
  OBVIOUS
<1>4. \A cap \in Nat : 0 \in 0 .. cap
  OBVIOUS
<1>6. Held(<<>>) \in Nat /\ Held(<<>>) <= 4 * 0 + 3 * Len(<<>>)
  <2>1. Held(<<>>) = 0
    BY <1>1, <1>2, Zenon DEF Held
  <2>2. \A held, len \in Nat : held = 0 /\ len = 0 => held <= 4 * 0 + 3 * len
    OBVIOUS
  <2>3. 0 \in Nat
    OBVIOUS
  <2> QED
    BY <1>3, <2>1, <2>2, <2>3, Zenon
<1>5. \A cap \in Nat : Tally(<<>>, 0, cap)
  BY <1>1, <1>2, <1>3, <1>4, <1>6, Zenon DEF Tally
<1> QED
  BY <1>1, <1>2, <1>5

\* A list takes a region that is not in it, as much of it as fits.
LEMMA TakesRegion ==
    ASSUME NEW regions, NEW cost, NEW cap \in Nat, Tally(regions, cost, cap),
           NEW key \in Key, key \notin Keys(regions),
           NEW kept, kept = Kept(key, cap - cost), kept # 0,
           NEW more, more = cost + Cost(key, cap - cost)
    PROVE  LET longer == Append(regions, Region(key, kept)) IN
           /\ Tally(longer, more, cap) /\ cost <= more
           /\ Keys(longer) = Keys(regions) \cup {key}
           /\ PathsOf(longer) = PathsOf(regions) \cup {key.path}
<1> DEFINE longer == Append(regions, Region(key, kept))
           paid == Cost(key, cap - cost)
<1>1. /\ regions \in Seq(Regions) /\ cost \in 0 .. cap
      /\ IsFiniteSet(Characters(regions)) /\ IsFiniteSet(Keys(regions))
      /\ IsFiniteSet(PathsOf(regions)) /\ Held(regions) \in Nat
      /\ Held(regions) <= 4 * cost + 3 * Len(regions)
      /\ Cardinality(Keys(regions)) = Len(regions)
  BY DEF Tally
<1>2. /\ kept \in Nat \ {0} /\ kept <= 4 * paid + 3 /\ paid \in Nat
      /\ more \in 0 .. cap /\ cost <= more
  <2>1. cap - cost \in Nat
    BY <1>1
  <2>2. paid \in 0 .. cap - cost /\ kept \in Nat /\ kept <= 4 * paid + 3
    BY <2>1, KeptIn
  <2> HIDE DEF paid
  <2>3. more = cost + paid
    BY DEF paid
  <2> QED
    BY <1>1, <2>2, <2>3
<1>3. /\ longer \in Seq(Regions) /\ Len(longer) = Len(regions) + 1
      /\ Keys(longer) = Keys(regions) \cup {key}
      /\ PathsOf(longer) = PathsOf(regions) \cup {key.path}
      /\ IsFiniteSet(Characters(longer)) /\ Held(longer) = Held(regions) + kept
  BY <1>1, <1>2, OneMore
<1>4. /\ IsFiniteSet(Keys(regions) \cup {key})
      /\ Cardinality(Keys(regions) \cup {key}) = Cardinality(Keys(regions)) + 1
      /\ IsFiniteSet(PathsOf(regions) \cup {key.path})
  BY <1>1, FS_AddElement
<1>5. more = cost + paid /\ Len(regions) \in Nat
  BY <1>1
<1> HIDE DEF longer, paid
<1>6. Held(longer) \in Nat /\ Held(longer) <= 4 * more + 3 * Len(longer)
  <2>1. \A held, chars, price, total, len \in Nat :
            held <= 4 * total + 3 * len /\ chars <= 4 * price + 3
                => /\ held + chars \in Nat
                   /\ held + chars <= 4 * (total + price) + 3 * (len + 1)
    OBVIOUS
  <2>2. cost \in Nat /\ kept \in Nat
    BY <1>1, <1>2
  <2>3. /\ Held(regions) + kept \in Nat
        /\ Held(regions) + kept <= 4 * (cost + paid) + 3 * (Len(regions) + 1)
    BY <1>1, <1>2, <1>5, <2>1, <2>2
  <2> QED
    BY <1>3, <1>5, <2>3, Zenon
<1>7. Tally(longer, more, cap)
  BY <1>1, <1>2, <1>3, <1>4, <1>6 DEF Tally
<1> QED
  BY <1>2, <1>3, <1>7 DEF longer

\* A list that has become longer costs and holds no less.
Grows(key) ==
    /\ Tally(new, newCost, MaxNewTokens)'
    /\ Keys(new) \subseteq Keys(new)' /\ newCost <= newCost'
    /\ \/ new' = new /\ newCost' = newCost
       \/ ~Withheld(key.path) /\ NewFiles' = NewFiles \cup {key.path}
    /\ LinesOf(key) > 0 /\ ~Withheld(key.path) =>
           key \in Keys(new)' \/ newCost' >= MaxNewTokens

\* What _add_read does to the list of new regions.
LEMMA AddReadGrows ==
    ASSUME TypeInv, NEW key \in Key, AddRead(key)
    PROVE  Grows(key)
<1> DEFINE kept == Kept(key, MaxNewTokens - newCost)
<1>1. Tally(new, newCost, MaxNewTokens) /\ MaxNewTokens \in Nat
  BY ContextDeltaAssumption DEF TypeInv
<1>2. newCost \in 0 .. MaxNewTokens /\ MaxNewTokens - newCost \in Nat
  BY <1>1 DEF Tally
<1>3. LinesOf(key) > 0 /\ kept = 0 => MaxNewTokens - newCost = 0
  BY <1>2, KeptIn
<1>4. CASE Withheld(key.path) \/ key \in Keys(new) \/ kept = 0
  <2>1. new' = new /\ newCost' = newCost
    BY <1>4 DEF AddRead
  <2>2. Tally(new, newCost, MaxNewTokens)' /\ Keys(new)' = Keys(new)
    BY <1>1, <2>1
  <2>3. kept = 0 /\ LinesOf(key) > 0 => newCost' >= MaxNewTokens
    BY <1>1, <1>2, <1>3, <2>1
  <2> HIDE DEF kept
  <2> QED
    BY <1>2, <1>4, <2>1, <2>2, <2>3 DEF Grows
<1>5. CASE ~(Withheld(key.path) \/ key \in Keys(new) \/ kept = 0)
  <2>1. /\ new' = Append(new, Region(key, kept))
        /\ newCost' = newCost + Cost(key, MaxNewTokens - newCost)
    BY <1>5 DEF AddRead
  <2>2. /\ Tally(new', newCost', MaxNewTokens) /\ newCost <= newCost'
        /\ Keys(new') = Keys(new) \cup {key}
        /\ PathsOf(new') = PathsOf(new) \cup {key.path}
    BY <1>1, <1>5, <2>1, TakesRegion
  <2> QED
    BY <1>5, <2>2 DEF Grows, NewFiles
<1> QED
  BY <1>4, <1>5

\* What _add_anchor_read does to the list of anchors.
LEMMA AnchorGrows ==
    ASSUME TypeInv, Anchor
    PROVE  /\ Tally(anchored, anchorCost, MaxAnchorTokens)'
           /\ anchors[next] \in Key
           /\ Keys(anchored) \subseteq Keys(anchored)' /\ anchorCost <= anchorCost'
           /\ \/ PathsOf(anchored)' = PathsOf(anchored)
              \/ PathsOf(anchored)' = PathsOf(anchored) \cup {anchors[next].path}
           /\ LinesOf(anchors[next]) > 0 =>
                  anchors[next] \in Keys(anchored)' \/ anchorCost' >= MaxAnchorTokens
<1> DEFINE key == anchors[next]
           remaining == MaxAnchorTokens - anchorCost
           kept == Kept(key, remaining)
<1>1. Tally(anchored, anchorCost, MaxAnchorTokens) /\ MaxAnchorTokens \in Nat
  BY ContextDeltaAssumption DEF TypeInv
<1>2. anchorCost \in 0 .. MaxAnchorTokens /\ MaxAnchorTokens - anchorCost \in Nat
  BY <1>1 DEF Tally
<1>3. key \in Key
  <2>1. anchors \in Seq(Key) /\ next \in Nat \ {0} /\ next <= Len(anchors)
    BY DEF TypeInv, TypeOK, Anchor
  <2> QED
    BY <2>1
<1>4. LinesOf(key) > 0 /\ kept = 0 => MaxAnchorTokens - anchorCost = 0
  BY <1>2, <1>3, KeptIn
<1>5. IF key \in Keys(anchored) \/ kept = 0
      THEN UNCHANGED <<anchored, anchorCost>>
      ELSE anchored' = Append(anchored, Region(key, kept))
           /\ anchorCost' = anchorCost + Cost(key, remaining)
  BY DEF Anchor
<1> HIDE DEF key, remaining, kept
<1>6. CASE key \in Keys(anchored) \/ kept = 0
  <2>1. anchored' = anchored /\ anchorCost' = anchorCost
    BY <1>5, <1>6
  <2>2. kept = 0 /\ LinesOf(key) > 0 => anchorCost' >= MaxAnchorTokens
    BY <1>1, <1>2, <1>4, <2>1
  <2> QED
    BY <1>1, <1>2, <1>3, <1>6, <2>1, <2>2 DEF key
<1>7. CASE ~(key \in Keys(anchored) \/ kept = 0)
  <2>1. /\ anchored' = Append(anchored, Region(key, kept))
        /\ anchorCost' = anchorCost + Cost(key, remaining)
    BY <1>5, <1>7
  <2>2. /\ Tally(anchored', anchorCost', MaxAnchorTokens) /\ anchorCost <= anchorCost'
        /\ Keys(anchored') = Keys(anchored) \cup {key}
        /\ PathsOf(anchored') = PathsOf(anchored) \cup {key.path}
    BY <1>1, <1>3, <1>7, <2>1, TakesRegion DEF kept, remaining
  <2> QED
    BY <1>3, <2>2 DEF key
<1> QED
  BY <1>6, <1>7

-----------------------------------------------------------------------------
(* Types and the two accounts.                                             *)

\* The steps that add to the list of new regions.
LEMMA ReadsOfBuild ==
    ASSUME TypeInv, ReadAction \/ Match \/ Candidate
    PROVE  /\ \E key \in Key : AddRead(key)
           /\ ReadAction => \E key \in Key : /\ AddRead(key) /\ wanted' = wanted \cup {key}
                                             /\ anchors' = IF key.path \in seen
                                                           THEN Append(anchors, key)
                                                           ELSE anchors
           /\ Candidate => /\ candidates[next] \in Files
                           /\ Beginning(candidates[next]) \in Key
                           /\ AddRead(Beginning(candidates[next]))
<1>1. CandidateEnd \in Int /\ Before \in Int /\ After \in Int
      /\ \A path \in Files : Length[path] \in Nat
  BY ContextDeltaAssumption
<1>2. CASE ReadAction
  <2>1. PICK path \in Files, start \in 1 .. MaxLine, end \in 1 .. MaxLine :
            /\ AddRead(RegionKey(path, start, end))
            /\ wanted' = wanted \cup {RegionKey(path, start, end)}
            /\ anchors' = IF path \in seen
                          THEN Append(anchors, RegionKey(path, start, end))
                          ELSE anchors
    BY <1>2 DEF ReadAction
  <2>2. start \in Int /\ end \in Int
    OBVIOUS
  <2>3. RegionKey(path, start, end) \in Key /\ RegionKey(path, start, end).path = path
    BY <2>2, KeyType
  <2>4. ~Candidate
    BY <1>2 DEF ReadAction, Candidate
  <2> QED
    BY <2>1, <2>3, <2>4
<1>3. CASE Match
  <2>0. PICK path \in Files : \E line \in 1 .. Length[path] :
            AddRead(RegionKey(path, line - Before, line + After))
    BY <1>3 DEF Match
  <2>1. PICK line \in 1 .. Length[path] :
            AddRead(RegionKey(path, line - Before, line + After))
    BY <2>0
  <2>2. line - Before \in Int /\ line + After \in Int
    BY <1>1
  <2>3. RegionKey(path, line - Before, line + After) \in Key
    BY <2>2, KeyType
  <2>4. ~Candidate /\ ~ReadAction
    BY <1>3 DEF ReadAction, Candidate, Match
  <2> QED
    BY <2>1, <2>3, <2>4
<1>4. CASE Candidate
  <2>1. /\ candidates \in Seq(Files) /\ next \in Nat \ {0} /\ next <= Len(candidates)
        /\ AddRead(Beginning(candidates[next]))
    BY <1>4 DEF TypeInv, TypeOK, Candidate, Beginning
  <2>2. candidates[next] \in Files
    BY <2>1
  <2>3. Beginning(candidates[next]) \in Key
    BY <1>1, <2>2, KeyType DEF Beginning
  <2>4. ~ReadAction
    BY <1>4 DEF ReadAction, Candidate
  <2> QED
    BY <2>1, <2>2, <2>3, <2>4
<1> QED
  BY <1>2, <1>3, <1>4

\* All other steps leave it as it is.
LEMMA KeepsNew ==
    ASSUME [Next]_vars, ~ReadAction, ~Match, ~Candidate
    PROVE  UNCHANGED <<new, newCost>>
BY DEF Next, Build, InitialRead, InitialEnds, IdleAction, Search, MatchesEnd,
       ActionsEnd, CandidatesEnd, SeenCandidate, SeenCandidatesEnd, Anchor,
       AnchorsEnd, BuildRaises, AttemptReads, AttemptEdits, delta, vars

\* And all but one the list of anchors.
LEMMA KeepsAnchored ==
    ASSUME [Next]_vars, ~Anchor
    PROVE  UNCHANGED <<anchored, anchorCost>>
BY DEF Next, Build, InitialRead, InitialEnds, ReadAction, IdleAction, Search, Match,
       MatchesEnd, ActionsEnd, Candidate, CandidatesEnd, SeenCandidate,
       SeenCandidatesEnd, AnchorsEnd, BuildRaises, AttemptReads, AttemptEdits,
       delta, vars

\* The initial attempt has not begun, and the lists are empty.
LEMMA InitTypeInv == Init => TypeInv
<1> SUFFICES ASSUME Init PROVE TypeInv
  OBVIOUS
<1>1. /\ Tally(new, newCost, MaxNewTokens) /\ Tally(anchored, anchorCost, MaxAnchorTokens)
      /\ new \in Seq(Regions) /\ anchored \in Seq(Regions)
      /\ newCost \in Nat /\ anchorCost \in Nat
  BY NothingYet, ContextDeltaAssumption DEF Init, Tally
<1>2. candidates \in Seq(Files)
  BY DEF Init
<1>3. anchors \in Seq(Key) /\ skipped \in Seq(Key) /\ Len(skipped) <= 1
  BY DEF Init
<1>4. /\ actions \in 0 .. MaxActions /\ matches \in 0 .. MaxMatches
      /\ reads \in 0 .. MaxReads /\ next \in Nat \ {0}
  BY ContextDeltaAssumption DEF Init
<1>5. pc = "initial" /\ seen = {} /\ asked = {} /\ wanted = {} /\ edited = {}
  BY DEF Init
<1> QED
  BY <1>1, <1>2, <1>3, <1>4, <1>5 DEF TypeInv, TypeOK

\* Every step keeps the types, and each list paid for.
LEMMA NextTypeInv == TypeInv /\ [Next]_vars => TypeInv'
<1> SUFFICES ASSUME TypeInv, [Next]_vars PROVE TypeInv'
  OBVIOUS
<1>1. Tally(new, newCost, MaxNewTokens)'
  <2>1. CASE ReadAction \/ Match \/ Candidate
    BY <2>1, ReadsOfBuild, AddReadGrows DEF Grows
  <2>2. CASE ~(ReadAction \/ Match \/ Candidate)
    <3>1. new' = new /\ newCost' = newCost
      BY <2>2, KeepsNew
    <3> QED
      BY <3>1 DEF TypeInv
  <2> QED
    BY <2>1, <2>2
<1>2. Tally(anchored, anchorCost, MaxAnchorTokens)'
  <2>1. CASE Anchor
    BY <2>1, AnchorGrows
  <2>2. CASE ~Anchor
    <3>1. anchored' = anchored /\ anchorCost' = anchorCost
      BY <2>2, KeepsAnchored
    <3> QED
      BY <3>1 DEF TypeInv
  <2> QED
    BY <2>1, <2>2
<1>3. /\ new' \in Seq(Regions) /\ anchored' \in Seq(Regions)
      /\ newCost' \in Nat /\ anchorCost' \in Nat
  BY <1>1, <1>2, ContextDeltaAssumption DEF Tally
<1>4. wanted' \subseteq Key /\ anchors' \in Seq(Key)
  <2>1. wanted \subseteq Key /\ anchors \in Seq(Key)
    BY DEF TypeInv, TypeOK
  <2>2. CASE ReadAction
    BY <2>1, <2>2, ReadsOfBuild
  <2>3. CASE SeenCandidate
    <3>1. /\ candidates \in Seq(Files) /\ next \in Nat \ {0} /\ next <= Len(candidates)
      BY <2>3 DEF TypeInv, TypeOK, SeenCandidate
    <3>2. candidates[next] \in Files /\ CandidateEnd \in Int
      BY <3>1, ContextDeltaAssumption
    <3>3. RegionKey(candidates[next], 1, CandidateEnd) \in Key
      BY <3>2, KeyType
    <3>4. wanted' = wanted
      BY <2>3 DEF SeenCandidate, history
    <3>5. anchors' \in {anchors, Append(anchors, RegionKey(candidates[next], 1, CandidateEnd))}
      BY <2>3 DEF SeenCandidate
    <3> QED
      BY <2>1, <3>3, <3>4, <3>5
  <2>4. CASE ~ReadAction /\ ~SeenCandidate
    <3>1. UNCHANGED <<wanted, anchors>>
      BY <2>4 DEF Next, Build, InitialRead, InitialEnds, IdleAction, Search, Match,
         MatchesEnd, ActionsEnd, Candidate, CandidatesEnd, SeenCandidatesEnd, Anchor,
         AnchorsEnd, BuildRaises, AttemptReads, AttemptEdits, history, loops, vars
    <3> QED
      BY <2>1, <3>1
  <2> QED
    BY <2>2, <2>3, <2>4
<1>5. /\ actions' \in 0 .. MaxActions /\ matches' \in 0 .. MaxMatches
      /\ reads' \in 0 .. MaxReads /\ next' \in Nat \ {0}
  <2>1. /\ actions \in 0 .. MaxActions /\ matches \in 0 .. MaxMatches
        /\ reads \in 0 .. MaxReads /\ next \in Nat \ {0}
        /\ MaxActions \in Nat /\ MaxMatches \in Nat /\ MaxReads \in Nat
    BY ContextDeltaAssumption DEF TypeInv, TypeOK
  <2> DEFINE Steps(x, max) == x' = x \/ (x < max /\ x' = x + 1)
  <2>2. Steps(actions, MaxActions) /\ Steps(reads, MaxReads)
    BY DEF Next, Build, InitialRead, InitialEnds, ReadAction, IdleAction, Search, Match,
       MatchesEnd, ActionsEnd, Candidate, CandidatesEnd, SeenCandidate,
       SeenCandidatesEnd, Anchor, AnchorsEnd, BuildRaises, AttemptReads,
       AttemptEdits, loops, attempt, vars
  <2>3. Steps(matches, MaxMatches) \/ matches' = 0
    BY DEF Next, Build, InitialRead, InitialEnds, ReadAction, IdleAction, Search, Match,
       MatchesEnd, ActionsEnd, Candidate, CandidatesEnd, SeenCandidate,
       SeenCandidatesEnd, Anchor, AnchorsEnd, BuildRaises, AttemptReads,
       AttemptEdits, loops, vars
  <2>4. next' \in {next, next + 1, 1}
    BY DEF Next, Build, InitialRead, InitialEnds, ReadAction, IdleAction, Search, Match,
       MatchesEnd, ActionsEnd, Candidate, CandidatesEnd, SeenCandidate,
       SeenCandidatesEnd, Anchor, AnchorsEnd, BuildRaises, AttemptReads,
       AttemptEdits, loops, vars
  <2> QED
    BY <2>1, <2>2, <2>3, <2>4
<1>6. /\ pc' \in {"initial", "actions", "matches", "candidates", "seen candidates",
                  "anchors", "attempt", "raised"}
      /\ seen' \subseteq Files /\ asked' \subseteq Files /\ edited' \subseteq Files
      /\ candidates' = candidates
  <2>1. /\ pc \in {"initial", "actions", "matches", "candidates", "seen candidates",
                   "anchors", "attempt", "raised"}
        /\ seen \subseteq Files /\ asked \subseteq Files /\ edited \subseteq Files
    BY DEF TypeInv, TypeOK
  <2> QED
    BY <2>1 DEF Next, Build, InitialRead, InitialEnds, ReadAction, IdleAction, Search,
       Match, MatchesEnd, ActionsEnd, Candidate, CandidatesEnd, SeenCandidate,
       SeenCandidatesEnd, Anchor, AnchorsEnd, BuildRaises, AttemptReads,
       AttemptEdits, history, loops, delta, attempt, vars
<1>7. skipped' \in Seq(Key) /\ Len(skipped') <= 1
  <2>1. skipped \in Seq(Key) /\ Len(skipped) <= 1
    BY DEF TypeInv, TypeOK
  <2>2. CASE AttemptReads
    <3>1. ASSUME NEW path \in Files, NEW start \in 1 .. MaxLine, NEW end \in 1 .. MaxLine
          PROVE  [path |-> path, start |-> start, end |-> end] \in Key
      BY DEF Key
    <3>2. skipped' = <<>> \/ \E key \in Key : skipped' = <<key>>
      BY <2>2, <3>1 DEF AttemptReads
    <3>3. \A key \in Key : <<key>> \in Seq(Key) /\ Len(<<key>>) <= 1
      OBVIOUS
    <3>4. <<>> \in Seq(Key) /\ Len(<<>>) <= 1
      OBVIOUS
    <3> QED
      BY <3>2, <3>3, <3>4, Zenon
  <2>3. CASE AttemptEdits
    BY <2>3 DEF AttemptEdits
  <2>4. CASE ~AttemptReads /\ ~AttemptEdits
    <3>1. skipped' = skipped
      BY <2>4 DEF Next, Build, InitialRead, InitialEnds, ReadAction, IdleAction, Search,
         Match, MatchesEnd, ActionsEnd, Candidate, CandidatesEnd, SeenCandidate,
         SeenCandidatesEnd, Anchor, AnchorsEnd, BuildRaises, attempt, vars
    <3> QED
      BY <2>1, <3>1
  <2> QED
    BY <2>2, <2>3, <2>4
<1>8. TypeOK'
  BY <1>3, <1>4, <1>5, <1>6, <1>7 DEF TypeInv, TypeOK
<1> QED
  BY <1>1, <1>2, <1>8 DEF TypeInv

\* The builder of a recovery's evidence is well typed, and both lists are paid
\* for, region by region.
LEMMA RunTypeInv == Init /\ [][Next]_vars => []TypeInv
BY InitTypeInv, NextTypeInv, PTL

\* Regions, costs and loops have the shapes that TypeOK gives them in every
\* reachable state (ContextDeltaBuilder.build).
THEOREM DeltaTyped == Spec => []TypeOK
<1>1. TypeInv => TypeOK
  BY DEF TypeInv
<1> QED
  BY <1>1, RunTypeInv, PTL DEF Spec

-----------------------------------------------------------------------------
(* The caps.                                                               *)

\* A set takes one element more at most.
LEMMA OneElement ==
    ASSUME NEW S, IsFiniteSet(S), NEW x, NEW T, T = S \/ T = S \cup {x}
    PROVE  /\ Cardinality(S) \in Nat /\ Cardinality(T) \in Nat
           /\ Cardinality(S) <= Cardinality(T) /\ Cardinality(T) <= Cardinality(S) + 1
<1>1. Cardinality(S) \in Nat
  BY FS_CardinalityType
<1>2. Cardinality(S \cup {x}) = Cardinality(S) \/ Cardinality(S \cup {x}) = Cardinality(S) + 1
  BY FS_AddElement
<1> QED
  BY <1>1, <1>2

\* One more read adds one file at most, and leaves full what was full.
LEMMA GrowsByOne ==
    ASSUME TypeInv, NEW key \in Key, Grows(key)
    PROVE  /\ Cardinality(NewFiles) \in Nat /\ Cardinality(NewFiles') \in Nat
           /\ Cardinality(NewFiles) <= Cardinality(NewFiles')
           /\ Cardinality(NewFiles') <= Cardinality(NewFiles) + 1
           /\ Full => Full'
<1>1. IsFiniteSet(NewFiles) /\ newCost \in Nat /\ newCost' \in Nat
      /\ newCost <= newCost' /\ MaxNewTokens \in Nat /\ MaxNewFiles \in Nat
  BY ContextDeltaAssumption DEF TypeInv, Tally, Grows, NewFiles
<1>2. NewFiles' = NewFiles \/ NewFiles' = NewFiles \cup {key.path}
  BY DEF Grows, NewFiles
<1>3. /\ Cardinality(NewFiles) \in Nat /\ Cardinality(NewFiles') \in Nat
      /\ Cardinality(NewFiles) <= Cardinality(NewFiles')
      /\ Cardinality(NewFiles') <= Cardinality(NewFiles) + 1
  BY <1>1, <1>2, OneElement
<1>4. Full => Full'
  BY <1>1, <1>3 DEF Full
<1> QED
  BY <1>3, <1>4

\* Every step keeps the caps on files; TypeInv has those on tokens.
LEMMA NextCaps == TypeInv /\ CapsInv /\ [Next]_vars => CapsInv'
<1> SUFFICES ASSUME TypeInv, CapsInv, [Next]_vars PROVE CapsInv'
  OBVIOUS
<1>0. MaxNewFiles \in Nat /\ MaxAnchorFiles \in Nat
  BY ContextDeltaAssumption
<1>1. /\ Cardinality(NewFiles') <= MaxNewFiles
      /\ pc' = "matches" => Cardinality(NewFiles') < MaxNewFiles
  <2>1. CASE ReadAction \/ Match \/ Candidate
    <3>1. PICK key \in Key : Grows(key)
      BY <2>1, ReadsOfBuild, AddReadGrows
    <3>2. /\ Cardinality(NewFiles) \in Nat /\ Cardinality(NewFiles') \in Nat
          /\ Cardinality(NewFiles') <= Cardinality(NewFiles) + 1
      BY <3>1, GrowsByOne
    <3>3. Cardinality(NewFiles) < MaxNewFiles
      BY <1>0, <2>1, <3>2 DEF ReadAction, Match, Candidate, Full, CapsInv
    <3>4. pc' = "matches" => Cardinality(NewFiles') < MaxNewFiles
      BY <1>0, <2>1, <3>2 DEF ReadAction, Match, Candidate
    <3> QED
      BY <1>0, <3>2, <3>3, <3>4
  <2>2. CASE ~(ReadAction \/ Match \/ Candidate)
    <3>1. NewFiles' = NewFiles
      BY <2>2, KeepsNew DEF NewFiles
    <3>2. pc' = "matches" => pc = "matches" \/ Search
      BY <2>2 DEF Next, Build, InitialRead, InitialEnds, IdleAction, MatchesEnd,
         ActionsEnd, CandidatesEnd, SeenCandidate, SeenCandidatesEnd, Anchor,
         AnchorsEnd, BuildRaises, AttemptReads, AttemptEdits, vars
    <3>3. Search => Cardinality(NewFiles) < MaxNewFiles
      <4>1. Cardinality(NewFiles) \in Nat
        BY FS_CardinalityType DEF TypeInv, Tally, NewFiles
      <4> QED
        BY <1>0, <4>1 DEF Search, Full
    <3> QED
      BY <3>1, <3>2, <3>3 DEF CapsInv
  <2> QED
    BY <2>1, <2>2
<1>2. Cardinality(PathsOf(anchored)') <= MaxAnchorFiles
  <2>1. CASE Anchor
    <3>1. IsFiniteSet(PathsOf(anchored))
      BY DEF TypeInv, Tally
    <3>2. \/ PathsOf(anchored)' = PathsOf(anchored)
          \/ PathsOf(anchored)' = PathsOf(anchored) \cup {anchors[next].path}
      BY <2>1, AnchorGrows
    <3>3. /\ Cardinality(PathsOf(anchored)) \in Nat
          /\ Cardinality(PathsOf(anchored)') \in Nat
          /\ Cardinality(PathsOf(anchored)') <= Cardinality(PathsOf(anchored)) + 1
      BY <3>1, <3>2, OneElement
    <3>4. ~(Cardinality(PathsOf(anchored)) >= MaxAnchorFiles)
      BY <2>1 DEF Anchor, AnchorsFull
    <3> QED
      BY <1>0, <3>3, <3>4
  <2>2. CASE ~Anchor
    <3>1. anchored' = anchored
      BY <2>2, KeepsAnchored
    <3> QED
      BY <3>1 DEF CapsInv
  <2> QED
    BY <2>1, <2>2
<1> QED
  BY <1>1, <1>2 DEF CapsInv, NewFiles

\* The text of the regions keeps within the caps of the configuration, on files
\* and, but for three characters a region that the rounding of tokens lets
\* through, on tokens, whatever is searched for and read
\* (ContextDeltaBuilder.build, _add_read, _add_search_matches, _add_anchor_read).
THEOREM CapsKept == Spec => []WithinCaps
<1>1. Init => CapsInv
  <2>0. Cardinality(PathsOf(<<>>)) = 0
    BY NothingYet, Zenon
  <2>1. \A cap \in Nat : Cardinality(PathsOf(<<>>)) <= cap
    BY <2>0
  <2>2. MaxNewFiles \in Nat /\ MaxAnchorFiles \in Nat
    BY ContextDeltaAssumption
  <2> QED
    BY <2>1, <2>2 DEF Init, CapsInv, NewFiles
<1>2. ASSUME TypeInv, CapsInv PROVE WithinCaps
  <2>1. \A held, cost, cap, len \in Nat :
            held <= 4 * cost + 3 * len /\ cost \in 0 .. cap
                => held <= 4 * cap + 3 * len
    OBVIOUS
  <2>2. /\ Held(new) <= 4 * MaxNewTokens + 3 * Len(new)
        /\ Held(anchored) <= 4 * MaxAnchorTokens + 3 * Len(anchored)
    <3>0. new \in Seq(Regions) /\ anchored \in Seq(Regions)
      BY <1>2, Zenon DEF TypeInv, Tally
    <3>1. Len(new) \in Nat /\ Len(anchored) \in Nat
      BY <3>0
    <3>2. MaxNewTokens \in Nat /\ MaxAnchorTokens \in Nat
      BY ContextDeltaAssumption
    <3>3. newCost \in Nat /\ anchorCost \in Nat
      BY <1>2 DEF TypeInv, TypeOK
    <3>4. /\ Held(new) \in Nat /\ Held(new) <= 4 * newCost + 3 * Len(new)
          /\ newCost \in 0 .. MaxNewTokens
          /\ Held(anchored) \in Nat
          /\ Held(anchored) <= 4 * anchorCost + 3 * Len(anchored)
          /\ anchorCost \in 0 .. MaxAnchorTokens
      BY <1>2, Zenon DEF TypeInv, Tally
    <3>5. Held(new) <= 4 * MaxNewTokens + 3 * Len(new)
      BY <2>1, <3>1, <3>2, <3>3, <3>4
    <3>6. Held(anchored) <= 4 * MaxAnchorTokens + 3 * Len(anchored)
      BY <2>1, <3>1, <3>2, <3>3, <3>4
    <3> QED
      BY <3>5, <3>6
  <2>3. /\ Cardinality(NewFiles) <= MaxNewFiles
        /\ Cardinality(PathsOf(anchored)) <= MaxAnchorFiles
    BY <1>2, Zenon DEF CapsInv
  <2> QED
    BY <2>2, <2>3, Zenon DEF WithinCaps
<1>3. Init /\ [][Next]_vars => []CapsInv
  BY <1>1, NextCaps, RunTypeInv, PTL
<1> QED
  BY <1>2, <1>3, RunTypeInv, PTL DEF Spec

-----------------------------------------------------------------------------
(* What is new.                                                            *)

\* Every step keeps new and seen apart.
LEMMA NextSeen == TypeInv /\ SeenInv /\ [Next]_vars => SeenInv'
<1> SUFFICES ASSUME TypeInv, SeenInv, [Next]_vars PROVE SeenInv'
  OBVIOUS
<1>1. CASE InitialRead
  <2>1. PICK path \in Files : seen' = seen \cup {path} /\ asked' = asked \cup {path}
    BY <1>1 DEF InitialRead
  <2>2. /\ pc = "initial" /\ UNCHANGED <<pc, anchors, new, anchored>>
    BY <1>1 DEF InitialRead, loops, delta
  <2>3. new = <<>> /\ NewFiles' = {}
    BY <2>2, NothingYet DEF SeenInv, NewFiles
  <2>4. PathsOf(anchored)' \subseteq seen
    BY <2>2 DEF SeenInv
  <2>5. \A i \in DOMAIN anchors' : pc' # "initial" /\ anchors'[i].path \in seen'
    BY <2>2 DEF SeenInv
  <2> QED
    BY <2>1, <2>2, <2>3, <2>4, <2>5 DEF SeenInv
<1>2. CASE ~InitialRead
  <2>1. UNCHANGED <<seen, asked>> /\ (pc' = "initial" => pc = "initial")
    BY <1>2 DEF Next, Build, InitialEnds, ReadAction, IdleAction, Search, Match,
       MatchesEnd, ActionsEnd, Candidate, CandidatesEnd, SeenCandidate,
       SeenCandidatesEnd, Anchor, AnchorsEnd, BuildRaises, AttemptReads,
       AttemptEdits, history, vars
  <2>2. /\ pc' = "initial" => new' = <<>>
        /\ HistoryAware => NewFiles' \cap seen = {}
    <3>1. CASE ReadAction \/ Match \/ Candidate
      <4>1. PICK key \in Key : Grows(key)
        BY <3>1, ReadsOfBuild, AddReadGrows
      <4>2. NewFiles' = NewFiles
            \/ (~Withheld(key.path) /\ NewFiles' = NewFiles \cup {key.path})
        BY <4>1 DEF Grows, NewFiles
      <4>3. pc' # "initial"
        BY <2>1, <3>1 DEF ReadAction, Match, Candidate
      <4> QED
        BY <4>2, <4>3 DEF SeenInv, Withheld
    <3>2. CASE ~(ReadAction \/ Match \/ Candidate)
      BY <2>1, <3>2, KeepsNew DEF SeenInv, NewFiles
    <3> QED
      BY <3>1, <3>2
  <2>3. \A i \in DOMAIN anchors' : pc' # "initial" /\ anchors'[i].path \in seen
    <3>0. anchors \in Seq(Key)
      BY DEF TypeInv, TypeOK
    <3>1. ASSUME NEW key \in Key, key.path \in seen, anchors' = Append(anchors, key),
                 pc' # "initial"
          PROVE  \A i \in DOMAIN anchors' : pc' # "initial" /\ anchors'[i].path \in seen
      <4>1. \A i \in DOMAIN anchors' :
                \/ anchors'[i] = key
                \/ i \in DOMAIN anchors /\ anchors'[i] = anchors[i]
        BY <3>0, <3>1
      <4> QED
        BY <3>1, <4>1 DEF SeenInv
    <3>2. CASE anchors' = anchors
      BY <2>1, <3>2 DEF SeenInv
    <3>3. CASE ReadAction
      <4>1. PICK key \in Key : anchors' = IF key.path \in seen THEN Append(anchors, key)
                                          ELSE anchors
        BY <3>3, ReadsOfBuild
      <4>2. pc' # "initial"
        BY <3>3 DEF ReadAction
      <4> QED
        BY <3>1, <3>2, <4>1, <4>2
    <3>4. CASE SeenCandidate
      <4>1. /\ candidates \in Seq(Files) /\ next \in Nat \ {0} /\ next <= Len(candidates)
            /\ pc' # "initial"
        BY <3>4 DEF TypeInv, TypeOK, SeenCandidate
      <4>2. candidates[next] \in Files /\ CandidateEnd \in Int
        BY <4>1, ContextDeltaAssumption
      <4>3. /\ RegionKey(candidates[next], 1, CandidateEnd) \in Key
            /\ RegionKey(candidates[next], 1, CandidateEnd).path = candidates[next]
        BY <4>2, KeyType
      <4>4. anchors' = IF candidates[next] \in seen
                       THEN Append(anchors, RegionKey(candidates[next], 1, CandidateEnd))
                       ELSE anchors
        BY <3>4 DEF SeenCandidate
      <4> QED
        BY <3>1, <3>2, <4>1, <4>3, <4>4
    <3>5. CASE ~ReadAction /\ ~SeenCandidate
      <4>1. anchors' = anchors
        BY <1>2, <3>5 DEF Next, Build, InitialEnds, IdleAction, Search, Match,
           MatchesEnd, ActionsEnd, Candidate, CandidatesEnd, SeenCandidatesEnd,
           Anchor, AnchorsEnd, BuildRaises, AttemptReads, AttemptEdits, loops, vars
      <4> QED
        BY <3>2, <4>1
    <3> QED
      BY <3>3, <3>4, <3>5
  <2>4. PathsOf(anchored)' \subseteq seen
    <3>1. CASE Anchor
      <4>1. anchors \in Seq(Key) /\ next \in Nat \ {0} /\ next <= Len(anchors)
        BY <3>1 DEF TypeInv, TypeOK, Anchor
      <4>2. anchors[next].path \in seen
        BY <4>1 DEF SeenInv
      <4>3. \/ PathsOf(anchored)' = PathsOf(anchored)
            \/ PathsOf(anchored)' = PathsOf(anchored) \cup {anchors[next].path}
        BY <3>1, AnchorGrows
      <4> QED
        BY <4>2, <4>3 DEF SeenInv
    <3>2. CASE ~Anchor
      <4>1. anchored' = anchored
        BY <3>2, KeepsAnchored
      <4> QED
        BY <4>1 DEF SeenInv
    <3> QED
      BY <3>1, <3>2
  <2> QED
    BY <2>1, <2>2, <2>3, <2>4 DEF SeenInv
<1> QED
  BY <1>1, <1>2

\* New and seen are apart from the first state on.
LEMMA RunSeenInv == Init /\ [][Next]_vars => []SeenInv
<1>1. Init => SeenInv
  BY NothingYet DEF Init, SeenInv, NewFiles
<1> QED
  BY <1>1, NextSeen, RunTypeInv, PTL

\* Nothing is paid for twice, an anchor is of a file that a read of the initial
\* attempt named, and with history awareness nothing given as new is
\* (ExplorationHistory.is_new_file, ContextDeltaBuilder._add_read).
THEOREM NewWasUnread == Spec => []NewIsUnread
<1>1. TypeInv /\ SeenInv => NewIsUnread
  BY DEF TypeInv, Tally, SeenInv, NewIsUnread
<1> QED
  BY <1>1, RunTypeInv, RunSeenInv, PTL DEF Spec

-----------------------------------------------------------------------------
(* What was asked for.                                                     *)

\* The same after a step, of a key from before it.
GivenAfter(key) ==
    LinesOf(key) > 0 /\ ~(HistoryAware /\ key.path \in seen')
        => key \in Keys(new') \/ Full'
NotedAfter(key) == key.path \in seen' => \E i \in DOMAIN anchors' : anchors'[i] = key
RefreshedAfter(key) == LinesOf(key) > 0 => key \in Keys(anchored') \/ AnchorsFull'

\* What is given or noted stays so while the history is what it is.
LEMMA StaysGiven ==
    ASSUME TypeInv, [Next]_vars, ~InitialRead
    PROVE  /\ seen' = seen /\ candidates' = candidates
           /\ \A key : (Given(key) => GivenAfter(key)) /\ (Noted(key) => NotedAfter(key))
           /\ \A key : Refreshed(key) => RefreshedAfter(key)
<1>1. seen' = seen /\ candidates' = candidates
  BY DEF Next, Build, InitialEnds, ReadAction, IdleAction, Search, Match, MatchesEnd,
     ActionsEnd, Candidate, CandidatesEnd, SeenCandidate, SeenCandidatesEnd, Anchor,
     AnchorsEnd, BuildRaises, AttemptReads, AttemptEdits, history, loops, vars
<1>2. Keys(new) \subseteq Keys(new)' /\ (Full => Full')
  <2>1. CASE ReadAction \/ Match \/ Candidate
    <3>1. PICK key \in Key : Grows(key)
      BY <2>1, ReadsOfBuild, AddReadGrows
    <3> QED
      BY <3>1, GrowsByOne DEF Grows
  <2>2. CASE ~(ReadAction \/ Match \/ Candidate)
    BY <2>2, KeepsNew DEF Full, NewFiles
  <2> QED
    BY <2>1, <2>2
<1>3. \A key : Given(key) => GivenAfter(key)
  BY <1>1, <1>2 DEF Given, GivenAfter, Withheld
<1>4. \A key : Noted(key) => NotedAfter(key)
  <2>1. anchors' = anchors \/ \E key : anchors' = Append(anchors, key)
    BY DEF Next, Build, InitialEnds, ReadAction, IdleAction, Search, Match, MatchesEnd,
       ActionsEnd, Candidate, CandidatesEnd, SeenCandidate, SeenCandidatesEnd, Anchor,
       AnchorsEnd, BuildRaises, AttemptReads, AttemptEdits, loops, vars
  <2>2. anchors \in Seq(Key)
    BY DEF TypeInv, TypeOK
  <2>3. \A i \in DOMAIN anchors : i \in DOMAIN anchors' /\ anchors'[i] = anchors[i]
    BY <2>1, <2>2
  <2> QED
    BY <1>1, <2>3 DEF Noted, NotedAfter
<1>5. \A key : Refreshed(key) => RefreshedAfter(key)
  <2>1. CASE Anchor
    <3>1. /\ Keys(anchored) \subseteq Keys(anchored)' /\ anchorCost <= anchorCost'
          /\ \/ PathsOf(anchored)' = PathsOf(anchored)
             \/ PathsOf(anchored)' = PathsOf(anchored) \cup {anchors[next].path}
          /\ Tally(anchored, anchorCost, MaxAnchorTokens)'
      BY <2>1, AnchorGrows
    <3>2. /\ anchorCost \in Nat /\ anchorCost' \in Nat /\ MaxAnchorTokens \in Nat
          /\ IsFiniteSet(PathsOf(anchored)) /\ MaxAnchorFiles \in Nat
      BY <3>1, ContextDeltaAssumption DEF TypeInv, Tally
    <3>3. /\ Cardinality(PathsOf(anchored)) \in Nat
          /\ Cardinality(PathsOf(anchored)') \in Nat
          /\ Cardinality(PathsOf(anchored)) <= Cardinality(PathsOf(anchored)')
      BY <3>1, <3>2, OneElement
    <3>4. AnchorsFull => AnchorsFull'
      BY <3>1, <3>2, <3>3 DEF AnchorsFull
    <3> QED
      BY <3>1, <3>4 DEF Refreshed, RefreshedAfter
  <2>2. CASE ~Anchor
    BY <2>2, KeepsAnchored DEF Refreshed, RefreshedAfter, AnchorsFull
  <2> QED
    BY <2>1, <2>2
<1> QED
  BY <1>1, <1>3, <1>4, <1>5

\* A read that was asked for is given, unless a cap was reached.
LEMMA ReadIsGiven ==
    ASSUME TypeInv, NEW key \in Key, AddRead(key), seen' = seen
    PROVE  GivenAfter(key)
<1>1. Grows(key)
  BY AddReadGrows
<1>2. newCost' >= MaxNewTokens => Full'
  BY DEF Full
<1> QED
  BY <1>1, <1>2 DEF Grows, GivenAfter, Withheld

\* A region that is appended to the anchors is noted.
LEMMA AppendedIsNoted ==
    ASSUME TypeInv, NEW key \in Key,
           anchors' = IF key.path \in seen THEN Append(anchors, key) ELSE anchors,
           seen' = seen
    PROVE  NotedAfter(key)
<1>1. anchors \in Seq(Key)
  BY DEF TypeInv, TypeOK
<1>2. key.path \in seen =>
          Len(anchors) + 1 \in DOMAIN anchors' /\ anchors'[Len(anchors) + 1] = key
  BY <1>1
<1> QED
  BY <1>2 DEF NotedAfter

\* Which step leads from where to where.
LEMMA WhereTo ==
    ASSUME Next, ~InitialRead
    PROVE  /\ pc # "initial" \/ InitialEnds
           /\ pc' # "initial"
           /\ pc' \in {"actions", "matches"} => pc \in {"initial", "actions", "matches"}
           /\ pc' = "candidates" =>
                  \/ Candidate
                  \/ ActionsEnd /\ pc = "actions"
           /\ pc' = "seen candidates" => CandidatesEnd \/ SeenCandidate
           /\ pc' = "anchors" => SeenCandidatesEnd \/ Anchor
           /\ pc' = "attempt" =>
                  \/ AnchorsEnd
                  \/ pc = "attempt" /\ UNCHANGED <<loops, delta>>
           /\ pc' \in {"actions", "matches"} \/ ActionsEnd => next' = next
BY DEF Next, Build, InitialEnds, ReadAction, IdleAction, Search, Match, MatchesEnd,
   ActionsEnd, Candidate, CandidatesEnd, SeenCandidate, SeenCandidatesEnd, Anchor,
   AnchorsEnd, BuildRaises, AttemptReads, AttemptEdits, loops

\* Every step keeps what was asked for, up to where the loops stand.
LEMMA NextCover == TypeInv /\ CoverInv /\ [Next]_vars => CoverInv'
<1> SUFFICES ASSUME TypeInv, CoverInv, [Next]_vars PROVE CoverInv'
  OBVIOUS
<1>1. CASE UNCHANGED vars
  <2>1. UNCHANGED <<pc, wanted, next, candidates, seen, new, newCost, anchors,
                    anchored, anchorCost>>
    BY <1>1 DEF vars, history, loops, delta
  <2> QED
    BY <2>1 DEF CoverInv, Given, Noted, Refreshed, Beginning, Withheld, Full, NewFiles,
                AnchorsFull
<1>2. CASE InitialRead
  <2>1. pc = "initial" /\ pc' = pc /\ wanted' = wanted /\ next' = next
    BY <1>2 DEF InitialRead, loops
  <2> QED
    BY <2>1 DEF CoverInv
<1>3. CASE Next /\ ~InitialRead
  <2>0. /\ seen' = seen /\ candidates' = candidates /\ pc' # "initial"
        /\ candidates \in Seq(Files) /\ next \in Nat \ {0} /\ anchors \in Seq(Key)
        /\ wanted \subseteq Key /\ CandidateEnd \in Int
    <3>1. /\ candidates \in Seq(Files) /\ next \in Nat \ {0} /\ anchors \in Seq(Key)
          /\ wanted \subseteq Key
      BY DEF TypeInv, TypeOK
    <3>2. seen' = seen /\ candidates' = candidates
      BY <1>3, StaysGiven
    <3>3. pc' # "initial"
      BY <1>3, WhereTo
    <3> QED
      BY <3>1, <3>2, <3>3, ContextDeltaAssumption
  <2>a. \A key : (Given(key) => GivenAfter(key)) /\ (Noted(key) => NotedAfter(key))
    BY <1>3, StaysGiven
  <2>b. \A key : Refreshed(key) => RefreshedAfter(key)
    BY <1>3, StaysGiven
  <2>c. \A i \in DOMAIN candidates :
            /\ Beginning(candidates[i]) \in Key
            /\ Beginning(candidates[i]).path = candidates[i]
    BY <2>0, KeyType DEF Beginning
  <2>d. /\ next <= Len(candidates) => next \in DOMAIN candidates
        /\ \A i \in DOMAIN candidates : ~(i < 1) /\ (i < next + 1 => i < next \/ i = next)
                                       /\ (next > Len(candidates) => i < next)
    BY <2>0
  <2>1. \A key \in wanted' : GivenAfter(key) /\ NotedAfter(key)
    <3>1. CASE ReadAction
      <4>1. PICK key \in Key : /\ AddRead(key) /\ wanted' = wanted \cup {key}
                               /\ anchors' = IF key.path \in seen
                                             THEN Append(anchors, key) ELSE anchors
        BY <3>1, ReadsOfBuild
      <4>2. GivenAfter(key) /\ NotedAfter(key)
        BY <2>0, <4>1, ReadIsGiven, AppendedIsNoted
      <4>3. \A k \in wanted : GivenAfter(k) /\ NotedAfter(k)
        BY <2>a DEF CoverInv
      <4> QED
        BY <4>1, <4>2, <4>3
    <3>2. CASE ~ReadAction
      <4>1. wanted' = wanted
        BY <1>3, <3>2 DEF Next, Build, InitialEnds, IdleAction, Search, Match,
           MatchesEnd, ActionsEnd, Candidate, CandidatesEnd, SeenCandidate,
           SeenCandidatesEnd, Anchor, AnchorsEnd, BuildRaises, AttemptReads,
           AttemptEdits, history
      <4> QED
        BY <2>a, <4>1 DEF CoverInv
    <3> QED
      BY <3>1, <3>2
  <2>2. pc' \in {"actions", "matches"} => next' = 1
    BY <1>3, WhereTo DEF CoverInv
  <2>3. pc' = "candidates" =>
            \A i \in DOMAIN candidates : i < next' => GivenAfter(Beginning(candidates[i]))
    <3>1. CASE Candidate
      <4>1. pc = "candidates" /\ next' = next + 1 /\ next \in DOMAIN candidates
        BY <2>d, <3>1 DEF Candidate
      <4>2. GivenAfter(Beginning(candidates[next]))
        BY <2>0, <2>c, <3>1, <4>1, ReadsOfBuild, ReadIsGiven
      <4>3. \A i \in DOMAIN candidates : i < next => GivenAfter(Beginning(candidates[i]))
        BY <2>a, <4>1 DEF CoverInv
      <4>4. \A i \in DOMAIN candidates : i < next' => i < next \/ i = next
        BY <2>d, <4>1
      <4> QED
        BY <4>2, <4>3, <4>4
    <3>2. CASE ActionsEnd /\ pc = "actions"
      <4>1. next' = 1
        BY <1>3, <3>2, WhereTo DEF CoverInv
      <4> QED
        BY <2>d, <4>1
    <3> QED
      BY <1>3, <3>1, <3>2, WhereTo
  <2>4. pc' \in {"seen candidates", "anchors", "attempt"} =>
            \A i \in DOMAIN candidates : GivenAfter(Beginning(candidates[i]))
    <3>1. CASE CandidatesEnd
      <4>1. CASE Full
        BY <2>a, <4>1 DEF Given
      <4>2. CASE next > Len(candidates)
        <5>1. \A i \in DOMAIN candidates : i < next
          BY <2>d, <4>2
        <5> QED
          BY <2>a, <3>1, <5>1 DEF CoverInv, CandidatesEnd
      <4> QED
        BY <3>1, <4>1, <4>2 DEF CandidatesEnd
    <3>2. CASE pc \in {"seen candidates", "anchors", "attempt"}
      BY <2>a, <3>2 DEF CoverInv
    <3> QED
      BY <1>3, <3>1, <3>2, WhereTo DEF SeenCandidate, SeenCandidatesEnd, Anchor,
         AnchorsEnd
  <2>5. pc' = "seen candidates" =>
            \A i \in DOMAIN candidates : i < next' => NotedAfter(Beginning(candidates[i]))
    <3>1. CASE CandidatesEnd
      <4>1. next' = 1
        BY <3>1 DEF CandidatesEnd
      <4> QED
        BY <2>d, <4>1
    <3>2. CASE SeenCandidate
      <4>1. pc = "seen candidates" /\ next' = next + 1 /\ next \in DOMAIN candidates
        BY <2>d, <3>2 DEF SeenCandidate
      <4>2. anchors' = IF candidates[next] \in seen
                       THEN Append(anchors, Beginning(candidates[next])) ELSE anchors
        BY <3>2 DEF SeenCandidate, Beginning
      <4>3. NotedAfter(Beginning(candidates[next]))
        BY <2>0, <2>c, <4>1, <4>2, AppendedIsNoted
      <4>4. \A i \in DOMAIN candidates : i < next => NotedAfter(Beginning(candidates[i]))
        BY <2>a, <4>1 DEF CoverInv
      <4>5. \A i \in DOMAIN candidates : i < next' => i < next \/ i = next
        BY <2>d, <4>1
      <4> QED
        BY <4>3, <4>4, <4>5
    <3> QED
      BY <1>3, <3>1, <3>2, WhereTo
  <2>6. pc' \in {"anchors", "attempt"} =>
            \A i \in DOMAIN candidates : NotedAfter(Beginning(candidates[i]))
    <3>1. CASE SeenCandidatesEnd
      <4>1. \A i \in DOMAIN candidates : i < next
        BY <2>d, <3>1 DEF SeenCandidatesEnd
      <4> QED
        BY <2>a, <3>1, <4>1 DEF CoverInv, SeenCandidatesEnd
    <3>2. CASE pc \in {"anchors", "attempt"}
      BY <2>a, <3>2 DEF CoverInv
    <3> QED
      BY <1>3, <3>1, <3>2, WhereTo DEF Anchor, AnchorsEnd
  <2>7. pc' = "anchors" => \A i \in DOMAIN anchors' : i < next' => RefreshedAfter(anchors'[i])
    <3>1. CASE SeenCandidatesEnd
      <4>1. next' = 1 /\ anchors' = anchors
        BY <3>1 DEF SeenCandidatesEnd
      <4>2. \A i \in DOMAIN anchors : ~(i < 1)
        BY <2>0
      <4> QED
        BY <4>1, <4>2
    <3>2. CASE Anchor
      <4>1. pc = "anchors" /\ next' = next + 1 /\ anchors' = anchors
        BY <3>2 DEF Anchor
      <4>2. LinesOf(anchors[next]) > 0 =>
                anchors[next] \in Keys(anchored)' \/ anchorCost' >= MaxAnchorTokens
        BY <3>2, AnchorGrows
      <4>3. RefreshedAfter(anchors[next])
        BY <4>1, <4>2 DEF RefreshedAfter, AnchorsFull
      <4>4. \A i \in DOMAIN anchors : i < next => RefreshedAfter(anchors[i])
        BY <2>b, <4>1 DEF CoverInv
      <4>5. \A i \in DOMAIN anchors : i < next' => i < next \/ i = next
        BY <2>0, <4>1
      <4> QED
        BY <4>1, <4>3, <4>4, <4>5
    <3> QED
      BY <1>3, <3>1, <3>2, WhereTo
  <2>8. pc' = "attempt" => \A i \in DOMAIN anchors' : RefreshedAfter(anchors'[i])
    <3>1. CASE AnchorsEnd
      <4>1. anchors' = anchors /\ pc = "anchors"
        BY <3>1 DEF AnchorsEnd, loops
      <4>2. CASE AnchorsFull
        <5>1. \A key : Refreshed(key)
          BY <4>2 DEF Refreshed
        <5> QED
          BY <2>b, <4>1, <5>1
      <4>3. CASE next > Len(anchors)
        <5>1. \A i \in DOMAIN anchors : i < next
          BY <2>0, <4>3
        <5>2. \A i \in DOMAIN anchors : Refreshed(anchors[i])
          BY <4>1, <5>1 DEF CoverInv
        <5> QED
          BY <2>b, <4>1, <5>2
      <4> QED
        BY <3>1, <4>2, <4>3 DEF AnchorsEnd
    <3>2. CASE pc = "attempt" /\ UNCHANGED <<loops, delta>>
      <4>1. anchors' = anchors /\ \A i \in DOMAIN anchors : Refreshed(anchors[i])
        BY <3>2 DEF CoverInv, loops
      <4> QED
        BY <2>b, <4>1
    <3> QED
      BY <1>3, <3>1, <3>2, WhereTo
  <2> QED
    BY <2>0, <2>1, <2>2, <2>3, <2>4, <2>5, <2>6, <2>7, <2>8
    DEF CoverInv, Beginning, Given, GivenAfter, Withheld, Noted, NotedAfter, Refreshed,
        RefreshedAfter
<1> QED
  BY <1>1, <1>2, <1>3

\* What was asked for is there, from the first state on.
LEMMA RunCoverInv == Init /\ [][Next]_vars => []CoverInv
<1>1. Init => CoverInv
  BY DEF Init, CoverInv
<1> QED
  BY <1>1, NextCover, RunTypeInv, PTL

\* Unless a cap was reached, all that the plan reads and every candidate file is
\* in the evidence if it can be read: as new text, or as an anchor if its file
\* is withheld, whatever else failed (ContextDeltaBuilder.build).
THEOREM PlanIsCovered == Spec => []EvidenceCovered
<1>1. ASSUME TypeInv, CoverInv PROVE EvidenceCovered
  <2> SUFFICES ASSUME pc = "attempt",
                      NEW key \in wanted \cup {RegionKey(candidates[i], 1, CandidateEnd) :
                                                  i \in DOMAIN candidates},
                      LinesOf(key) > 0
               PROVE  IF Withheld(key.path)
                      THEN key \in Keys(anchored) \/ AnchorsFull
                      ELSE key \in Keys(new) \/ Full
    BY DEF EvidenceCovered
  <2>1. Given(key) /\ Noted(key)
    BY <1>1 DEF CoverInv, Beginning
  <2>2. CASE Withheld(key.path)
    <3>1. PICK i \in DOMAIN anchors : anchors[i] = key
      BY <2>1, <2>2 DEF Noted, Withheld
    <3>2. Refreshed(key)
      BY <1>1, <3>1 DEF CoverInv
    <3> QED
      BY <2>2, <3>2 DEF Refreshed
  <2>3. CASE ~Withheld(key.path)
    BY <2>1, <2>3 DEF Given
  <2> QED
    BY <2>2, <2>3
<1> QED
  BY <1>1, RunTypeInv, RunCoverInv, PTL DEF Spec
=============================================================================
