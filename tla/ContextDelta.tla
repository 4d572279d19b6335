----------------------------- MODULE ContextDelta -----------------------------
(***************************************************************************)
(* ContextDeltaBuilder (recovery/context_delta.py): which regions of the   *)
(* repository the recovery attempt is given, under a cap on new files and  *)
(* two token caps.  Before it, the reads of the initial attempt, which its *)
(* trajectory (logging/trajectory.py) and so ExplorationHistory            *)
(* (repository/history.py) remember; after it, what the recovery attempt   *)
(* does with the regions (agent/base.py): a read that overlaps one is      *)
(* skipped.  Paths are compared as they are written, but for backslashes.  *)
(*                                                                         *)
(* Text is counted in characters, all lines being equally long; a token is *)
(* four characters, rounded down for every region on its own.              *)
(***************************************************************************)
EXTENDS Integers, Sequences, FiniteSets, Functions

CONSTANTS
    Files,          \* the paths that occur in actions
    Length,         \* path -> lines of the file; 0 for what cannot be read
    Width,          \* characters of a numbered line with its line end
    HistoryAware,   \* recovery.history_aware
    MaxNewFiles, MaxNewTokens, MaxAnchorFiles, MaxAnchorTokens,
    MaxSpan,        \* 500 in the code: lines of one region
    CandidateEnd,   \* 300 in the code: candidate files are read up to this line
    Before, After,  \* 30 and 50 in the code: lines around a search match
    MaxLine,        \* bound: largest line number explored
    MaxSeen,        \* bound: different paths read by the initial attempt
    MaxActions,     \* recovery.max_search_actions
    MaxMatches,     \* bound: matches of one search
    MaxCandidates,  \* bound: candidate files
    MaxReads        \* bound: reads and edits of the attempt explored

ASSUME ContextDeltaAssumption ==
    /\ Length \in [Files -> Nat]
    /\ Width \in Nat /\ Width >= 9
    /\ HistoryAware \in BOOLEAN
    /\ {MaxNewFiles, MaxNewTokens, MaxAnchorFiles, MaxAnchorTokens,
        Before, After, MaxActions, MaxMatches, MaxCandidates, MaxReads,
        MaxSeen}
           \subseteq Nat
    /\ MaxSpan \in Nat \ {0} /\ CandidateEnd \in Nat \ {0} /\ MaxLine \in Nat \ {0}

VARIABLES
    pc,         \* "initial", "actions", "matches", "candidates", "seen candidates",
                \* "anchors", then "attempt" or "raised"
    seen,       \* history.files: the reads in the initial trajectory
    asked,      \* ghost: the files that reads of the initial attempt named
    actions,    \* search actions processed
    matches,    \* matches of the current search processed
    candidates, \* analysis.candidate_files, without repetition
    next,       \* index of the loops over candidates and over anchors
    anchors,    \* anchor_actions
    new,        \* delta.new_code_regions
    newCost,    \* delta.token_cost
    anchored,   \* delta.anchor_code_regions
    anchorCost, \* delta.anchor_token_cost
    wanted,     \* ghost: regions of the read actions processed
    edited,     \* ghost: files the recovery attempt has changed
    skipped,    \* ghost: the read that was skipped last, if any
    reads       \* reads and edits so far

delta == <<new, newCost, anchored, anchorCost>>
history == <<seen, asked, wanted>>
loops == <<actions, matches, candidates, next, anchors>>
attempt == <<edited, skipped, reads>>
vars == <<pc, history, loops, delta, attempt>>

Least(a, b) == IF a < b THEN a ELSE b
Greatest(a, b) == IF a > b THEN a ELSE b

\* Mutant: the first line is taken as it comes.
BugRegionKey(path, start, end) ==
    [path |-> path, start |-> start,
     end |-> Greatest(start, Least(start + MaxSpan - 1, end))]

\* The region of a read: at least one line, at most MaxSpan lines.
RegionKey(path, start, end) ==
    LET s == Greatest(1, start) IN
    [path |-> path, start |-> s, end |-> Greatest(s, Least(s + MaxSpan - 1, end))]

\* The lines the file has in the region.
LinesOf(key) == Greatest(0, Least(key.end, Length[key.path]) - key.start + 1)

Region(key, kept) ==
    [path |-> key.path, start |-> key.start, end |-> key.end, kept |-> kept]
KeyOf(region) == [path |-> region.path, start |-> region.start, end |-> region.end]
Keys(regions) == {KeyOf(regions[i]) : i \in DOMAIN regions}
PathsOf(regions) == {regions[i].path : i \in DOMAIN regions}

\* The characters of the text read for a region; the last line has no line end.
Text(key) == IF LinesOf(key) = 0 THEN 0 ELSE LinesOf(key) * Width - 1

\* estimated_tokens.
Estimate(key) == Greatest(1, Text(key) \div 4)

\* Mutant: the text is handed over as it was read, whatever remains.
BugKept(key, remaining) == Text(key)

\* The characters of a region that still fit; the rest is cut off.
Kept(key, remaining) ==
    IF Estimate(key) > remaining THEN Least(Text(key), 4 * remaining)
    ELSE Text(key)

\* What they are counted as.
Cost(key, remaining) ==
    IF Estimate(key) > remaining THEN Kept(key, remaining) \div 4
    ELSE Estimate(key)

\* delta.new_files, repetitions removed.
NewFiles == PathsOf(new)

Init ==
    /\ pc = "initial" /\ seen = {} /\ asked = {} /\ wanted = {}
    /\ actions = 0 /\ matches = 0 /\ next = 1
    /\ candidates \in {s \in UNION {[1 .. n -> Files] : n \in 0 .. MaxCandidates} :
                           IsInjective(s)}
    /\ anchors = <<>> /\ new = <<>> /\ newCost = 0
    /\ anchored = <<>> /\ anchorCost = 0
    /\ edited = {} /\ skipped = <<>> /\ reads = 0

-----------------------------------------------------------------------------
(* The initial attempt.                                                    *)

\* Mutant: the trajectory is written with the latest event alone.
BugInitialRead ==
    /\ pc = "initial" /\ Cardinality(asked) < MaxSeen
    /\ \E path \in Files : seen' = {path} /\ asked' = asked \cup {path}
    /\ UNCHANGED <<pc, wanted, loops, delta, attempt>>

\* A read that parsed is logged with its path, whether the model was shown the
\* file, the read failed, or the loop turned it down.  Searches, listings and
\* commands are logged without paths, whatever text they show.
InitialRead ==
    /\ pc = "initial" /\ Cardinality(asked) < MaxSeen
    /\ \E path \in Files :
           seen' = seen \cup {path} /\ asked' = asked \cup {path}
    /\ UNCHANGED <<pc, wanted, loops, delta, attempt>>

InitialEnds ==
    /\ pc = "initial" /\ pc' = "actions"
    /\ UNCHANGED <<history, loops, delta, attempt>>

-----------------------------------------------------------------------------
(* build.                                                                  *)

Withheld(path) == HistoryAware /\ path \in seen

\* Mutant: the regions already taken are not remembered.
BugAddReadTwice(key) ==
    LET remaining == MaxNewTokens - newCost
        kept == Kept(key, remaining) IN
    IF Withheld(key.path) \/ kept = 0
    THEN UNCHANGED <<new, newCost>>
    ELSE /\ new' = Append(new, Region(key, kept))
         /\ newCost' = newCost + Cost(key, remaining)

\* _add_read: nothing for a file of the history, a region already taken, or
\* when nothing is left of the region.
AddRead(key) ==
    LET remaining == MaxNewTokens - newCost
        kept == Kept(key, remaining) IN
    IF Withheld(key.path) \/ key \in Keys(new) \/ kept = 0
    THEN UNCHANGED <<new, newCost>>
    ELSE /\ new' = Append(new, Region(key, kept))
         /\ newCost' = newCost + Cost(key, remaining)

\* The test at the head of both loops.
Full == Cardinality(NewFiles) >= MaxNewFiles \/ newCost >= MaxNewTokens

\* One read action; a seen file is also noted as an anchor, unread so far.
ReadAction ==
    /\ pc = "actions" /\ actions < MaxActions /\ ~Full
    /\ \E path \in Files, start, end \in 1 .. MaxLine :
           /\ AddRead(RegionKey(path, start, end))
           /\ wanted' = wanted \cup {RegionKey(path, start, end)}
           /\ anchors' = IF path \in seen
                         THEN Append(anchors, RegionKey(path, start, end))
                         ELSE anchors
    /\ actions' = actions + 1
    /\ UNCHANGED <<pc, seen, asked, matches, candidates, next, anchored,
                   anchorCost, attempt>>

\* An action that is neither read nor search, or that raises what is caught.
IdleAction ==
    /\ pc = "actions" /\ actions < MaxActions /\ ~Full
    /\ actions' = actions + 1
    /\ UNCHANGED <<history, pc, matches, candidates, next, anchors, delta, attempt>>

Search ==
    /\ pc = "actions" /\ actions < MaxActions /\ ~Full
    /\ pc' = "matches" /\ matches' = 0 /\ actions' = actions + 1
    /\ UNCHANGED <<history, candidates, next, anchors, delta, attempt>>

\* Mutant: the search goes on when the files are full.
BugMatch ==
    /\ pc = "matches" /\ matches < MaxMatches
    /\ \E path \in Files : \E line \in 1 .. Length[path] :
           AddRead(RegionKey(path, line - Before, line + After))
    /\ matches' = matches + 1
    /\ UNCHANGED <<history, pc, actions, candidates, next, anchors, anchored,
                   anchorCost, attempt>>

\* The lines around one match are read; the search ends when the files are
\* full, tokens or not.
Match ==
    /\ pc = "matches" /\ matches < MaxMatches
    /\ \E path \in Files : \E line \in 1 .. Length[path] :
           AddRead(RegionKey(path, line - Before, line + After))
    /\ matches' = matches + 1
    /\ pc' = IF Cardinality(NewFiles') >= MaxNewFiles THEN "actions" ELSE pc
    /\ UNCHANGED <<history, actions, candidates, next, anchors, anchored,
                   anchorCost, attempt>>

\* No further match.
MatchesEnd ==
    /\ pc = "matches" /\ pc' = "actions"
    /\ UNCHANGED <<history, loops, delta, attempt>>

ActionsEnd ==
    /\ pc = "actions" /\ pc' = "candidates"
    /\ UNCHANGED <<history, loops, delta, attempt>>

\* Mutant: the first candidate that cannot be read ends the loop.
BugCandidate ==
    /\ pc = "candidates" /\ next <= Len(candidates) /\ ~Full
    /\ LET path == candidates[next] IN
           /\ AddRead(RegionKey(path, 1, CandidateEnd))
           /\ next' = IF Length[path] = 0 THEN Len(candidates) + 1 ELSE next + 1
    /\ UNCHANGED <<history, pc, actions, matches, candidates, anchors, anchored,
                   anchorCost, attempt>>

Candidate ==
    /\ pc = "candidates" /\ next <= Len(candidates) /\ ~Full
    /\ AddRead(RegionKey(candidates[next], 1, CandidateEnd))
    /\ next' = next + 1
    /\ UNCHANGED <<history, pc, actions, matches, candidates, anchors, anchored,
                   anchorCost, attempt>>

CandidatesEnd ==
    /\ pc = "candidates" /\ (Full \/ next > Len(candidates))
    /\ pc' = "seen candidates" /\ next' = 1
    /\ UNCHANGED <<history, actions, matches, candidates, anchors, delta, attempt>>

\* Then every candidate of the history becomes an anchor too.
SeenCandidate ==
    /\ pc = "seen candidates" /\ next <= Len(candidates)
    /\ anchors' = IF candidates[next] \in seen
                  THEN Append(anchors, RegionKey(candidates[next], 1, CandidateEnd))
                  ELSE anchors
    /\ next' = next + 1
    /\ UNCHANGED <<history, pc, actions, matches, candidates, delta, attempt>>

SeenCandidatesEnd ==
    /\ pc = "seen candidates" /\ next > Len(candidates)
    /\ pc' = "anchors" /\ next' = 1
    /\ UNCHANGED <<history, actions, matches, candidates, anchors, delta, attempt>>

AnchorsFull ==
    \/ Cardinality(PathsOf(anchored)) >= MaxAnchorFiles
    \/ anchorCost >= MaxAnchorTokens

\* _add_anchor_read: the current text of a file that was seen before.
Anchor ==
    /\ pc = "anchors" /\ next <= Len(anchors) /\ ~AnchorsFull
    /\ LET key == anchors[next]
           remaining == MaxAnchorTokens - anchorCost
           kept == Kept(key, remaining) IN
       IF key \in Keys(anchored) \/ kept = 0
       THEN UNCHANGED <<anchored, anchorCost>>
       ELSE /\ anchored' = Append(anchored, Region(key, kept))
            /\ anchorCost' = anchorCost + Cost(key, remaining)
    /\ next' = next + 1
    /\ UNCHANGED <<history, pc, actions, matches, candidates, anchors, new,
                   newCost, attempt>>

AnchorsEnd ==
    /\ pc = "anchors" /\ (AnchorsFull \/ next > Len(anchors))
    /\ pc' = "attempt"
    /\ UNCHANGED <<history, loops, delta, attempt>>

\* A line number that is null raises TypeError, which build does not catch.
BuildRaises ==
    /\ pc \in {"actions", "anchors"} /\ pc' = "raised"
    /\ UNCHANGED <<history, loops, delta, attempt>>

-----------------------------------------------------------------------------
(* The recovery attempt.                                                   *)

Preloaded == Range(anchored) \cup Range(new)

Overlaps(region, path, start, end) ==
    region.path = path /\ start <= region.end /\ end >= region.start

\* A read action: skipped when it overlaps what was given, unless it is the
\* correction read that a failed edit earns (module AgentLoop).
AttemptReads ==
    /\ pc = "attempt" /\ reads < MaxReads /\ reads' = reads + 1
    /\ \E path \in Files, start, end \in 1 .. MaxLine :
           /\ start <= end
           /\ \/ skipped' = <<>>
              \/ /\ \E r \in Preloaded : Overlaps(r, path, start, end)
                 /\ skipped' = <<[path |-> path, start |-> start, end |-> end]>>
    /\ UNCHANGED <<history, pc, loops, delta, edited>>

AttemptEdits ==
    /\ pc = "attempt" /\ reads < MaxReads /\ reads' = reads + 1
    /\ \E path \in Files : Length[path] > 0 /\ edited' = edited \cup {path}
    /\ skipped' = <<>>
    /\ UNCHANGED <<history, pc, loops, delta>>

Build ==
    \/ ReadAction \/ IdleAction \/ Search \/ Match \/ MatchesEnd \/ ActionsEnd
    \/ Candidate \/ CandidatesEnd \/ SeenCandidate \/ SeenCandidatesEnd
    \/ Anchor \/ AnchorsEnd \/ BuildRaises

Next == InitialRead \/ InitialEnds \/ Build \/ AttemptReads \/ AttemptEdits

Spec == Init /\ [][Next]_vars

-----------------------------------------------------------------------------
(* Properties.                                                             *)

Key == [path : Files, start : Nat, end : Nat]
Regions == [path : Files, start : Nat, end : Nat, kept : Nat \ {0}]

\* Type invariant.
TypeOK ==
    /\ pc \in {"initial", "actions", "matches", "candidates", "seen candidates",
              "anchors", "attempt", "raised"}
    /\ seen \subseteq Files /\ asked \subseteq Files /\ wanted \subseteq Key
    /\ actions \in 0 .. MaxActions /\ matches \in 0 .. MaxMatches
    /\ candidates \in Seq(Files) /\ next \in Nat \ {0} /\ anchors \in Seq(Key)
    /\ new \in Seq(Regions) /\ anchored \in Seq(Regions)
    /\ newCost \in Nat /\ anchorCost \in Nat
    /\ edited \subseteq Files /\ reads \in 0 .. MaxReads
    /\ skipped \in Seq(Key) /\ Len(skipped) <= 1

\* The characters that the regions hold, one by one, and their number.
Characters(regions) == UNION {{i} \X (1 .. regions[i].kept) : i \in DOMAIN regions}
Held(regions) == Cardinality(Characters(regions))

\* The text of the regions, as opposed to what the builder has counted, keeps
\* within the token caps but for the rounding, up to three characters a region,
\* and their files within the file caps, searches that add many regions to one
\* list included.  (What a region brings along, the symbols, dependencies and
\* test paths, is not counted at all.)
WithinCaps ==
    /\ Held(new) <= 4 * MaxNewTokens + 3 * Len(new)
    /\ Held(anchored) <= 4 * MaxAnchorTokens + 3 * Len(anchored)
    /\ Cardinality(NewFiles) <= MaxNewFiles
    /\ Cardinality(PathsOf(anchored)) <= MaxAnchorFiles

\* Within a list no region is paid for twice.  An anchor is of a file that a
\* read of the initial attempt named; with history awareness nothing given as
\* new is, so that no file is both (history.is_new_file, against all of the
\* trajectory; what searches and commands showed is not in it).
NewIsUnread ==
    /\ Cardinality(Keys(new)) = Len(new)
    /\ Cardinality(Keys(anchored)) = Len(anchored)
    /\ PathsOf(anchored) \subseteq asked
    /\ HistoryAware => NewFiles \cap asked = {}

\* Unless a cap was reached, every region the plan reads and every candidate
\* file from its first line is in the evidence if it can be read: as new text,
\* or as an anchor if its file is withheld, though the only read of the file in
\* the initial attempt may have shown nothing, and whatever other actions and
\* candidates failed.
EvidenceCovered ==
    pc = "attempt" =>
        \A key \in wanted \cup {RegionKey(candidates[i], 1, CandidateEnd) :
                                   i \in DOMAIN candidates} :
            LinesOf(key) > 0 =>
                IF Withheld(key.path)
                THEN key \in Keys(anchored) \/ AnchorsFull
                ELSE key \in Keys(new) \/ Full

\* A read is answered "this exact current region is already present in the
\* recovery evidence" only if its lines are there and the file is unchanged.
SkippedIsPresent ==
    skipped # <<>> =>
        LET read == skipped[1] IN
        /\ read.path \notin edited
        /\ \A line \in read.start .. Least(read.end, Length[read.path]) :
               \E r \in Preloaded :
                   /\ r.path = read.path /\ line >= r.start
                   /\ (line - r.start + 1) * Width - 1 <= r.kept
=============================================================================
