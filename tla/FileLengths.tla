----------------------------- MODULE FileLengths -----------------------------
(***************************************************************************)
(* scripts/check-file-length.mjs: a source file over the limit must be on  *)
(* a baseline, which CI compares with the one of the base branch           *)
(* (.github/workflows/ci.yml:68-77), so that it can only shrink.           *)
(*                                                                         *)
(* A request is checked against the main branch it was opened on, but      *)
(* merged into main as it is by then: a length changes by the difference,  *)
(* a baseline entry that both sides changed is a conflict.                 *)
(***************************************************************************)
EXTENDS Integers, FiniteSets

CONSTANTS SourceFiles, Requests,
          Limit,     \* LIMIT
          MaxLength, \* bound: the longest file
          MaxMerges  \* bound: requests merged

ASSUME LengthsAssumption == Limit \in Nat /\ MaxLength \in Nat

VARIABLES gatePc,  \* "idle" or "open"
          main,    \* lengths (0: not tracked) and baseline of the main branch
          request, \* open request -> the main it was checked against, and its tree
          apart,   \* history: files that merges changed unseen by each other's check
          merges

lengthVars == <<gatePc, main, request, apart, merges>>

NoBaseline == << >>
NotOpen == << >>

(* parseBaseline: an entry records an integer above the limit.              *)
Baselines == [SourceFiles -> {0} \cup Limit + 1 .. MaxLength]
Lengths == [SourceFiles -> 0 .. MaxLength]

-----------------------------------------------------------------------------
oversize(lengths) == {f \in SourceFiles : lengths[f] > Limit}
Listed(baseline) == {f \in SourceFiles : baseline[f] # 0}

problemsOf(lengths, baseline) ==
    {<<f, "unlisted">> : f \in oversize(lengths) \ Listed(baseline)}
    \cup {<<f, "grew">> : f \in {g \in oversize(lengths) \cap Listed(baseline) : lengths[g] > baseline[g]}}
    \cup {<<f, "shrank">> : f \in {g \in oversize(lengths) \cap Listed(baseline) : lengths[g] < baseline[g]}}
    \cup {<<f, "obsolete">> : f \in Listed(baseline) \ oversize(lengths)}

(* Mutant: only new entries are looked for.                                 *)
wideningNew(baseline, base) == {<<f, "new">> : f \in Listed(baseline) \ Listed(base)}

widening(baseline, base) ==
    {<<f, "new">> : f \in Listed(baseline) \ Listed(base)}
    \cup {<<f, "raised">> : f \in {g \in Listed(baseline) \cap Listed(base) : baseline[g] > base[g]}}

(* A tree without a baseline, or with an entry that is none, ends the       *)
(* script with an error; a base without one imposes nothing.                *)
Passes(tree, base) ==
    /\ tree.baseline # NoBaseline
    /\ problemsOf(tree.lengths, tree.baseline) = {}
    /\ base.baseline # NoBaseline => widening(tree.baseline, base.baseline) = {}

-----------------------------------------------------------------------------
LengthsIdle ==
    /\ gatePc = "idle" /\ main = << >> /\ request = << >> /\ apart = {} /\ merges = 0

LengthsInit ==
    /\ gatePc = "open"
    /\ main \in [lengths : Lengths, baseline : {NoBaseline}]
    /\ request = [r \in Requests |-> NotOpen]
    /\ apart = {} /\ merges = 0

OpenRequest(r) ==
    /\ request[r] = NotOpen
    /\ \E lengths \in Lengths, baseline \in Baselines :
           /\ Passes([lengths |-> lengths, baseline |-> baseline], main)
           /\ request' = [request EXCEPT ![r] = [base |-> main, lengths |-> lengths, baseline |-> baseline]]
    /\ UNCHANGED <<gatePc, main, apart, merges>>

(* git: both sides' changes; an entry both changed is a conflict, and so is *)
(* a baseline that both introduced.                                         *)
Merged(r) ==
    LET mine == request[r]
        Entry(f) == IF mine.baseline[f] # mine.base.baseline[f] THEN mine.baseline[f] ELSE main.baseline[f]
    IN  [lengths  |-> [f \in SourceFiles |-> main.lengths[f] + mine.lengths[f] - mine.base.lengths[f]],
         baseline |-> IF mine.base.baseline = NoBaseline THEN mine.baseline
                      ELSE [f \in SourceFiles |-> Entry(f)]]
Conflict(r) ==
    LET base == request[r].base.baseline
    IN  IF base = NoBaseline THEN main.baseline # NoBaseline
        ELSE \E f \in SourceFiles : main.baseline[f] # base[f] /\ request[r].baseline[f] # base[f]

(* A file whose length both sides changed was checked by neither; one that  *)
(* is, with its entry, as the request had it was checked by the request.    *)
ChangedApart(r) ==
    LET base == request[r].base.lengths
    IN  {f \in SourceFiles : base[f] # main.lengths[f] /\ base[f] # request[r].lengths[f]}
MergedAsChecked(r) ==
    {f \in SourceFiles : /\ Merged(r).lengths[f] = request[r].lengths[f]
                         /\ Merged(r).baseline[f] = request[r].baseline[f]}

Merge(r) ==
    /\ request[r] # NotOpen /\ merges < MaxMerges
    /\ ~Conflict(r)
    /\ \A f \in SourceFiles : Merged(r).lengths[f] \in 0 .. MaxLength
    /\ main' = Merged(r)
    /\ apart' = (apart \cup ChangedApart(r)) \ MergedAsChecked(r)
    /\ request' = [request EXCEPT ![r] = NotOpen]
    /\ merges' = merges + 1
    /\ UNCHANGED gatePc

LengthsNext == \E r \in Requests : OpenRequest(r) \/ Merge(r)

-----------------------------------------------------------------------------
(* Once main has a baseline, requests checked side by side cannot widen it: *)
(* no entry is added or raised, ever; and a file longer than its entry      *)
(* allows got there by requests that were not checked together.             *)
OffendersOnlyShrink ==
    [][main # << >> /\ main.baseline # NoBaseline =>
          \A f \in SourceFiles :
              LET allowed == main'.baseline[f]
              IN  /\ allowed # 0 => allowed <= main.baseline[f]
                  /\ main'.lengths[f] > Limit /\ main'.lengths[f] > allowed => f \in apart']_main
=============================================================================
