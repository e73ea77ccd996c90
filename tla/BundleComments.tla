---------------------------- MODULE BundleComments ----------------------------
(***************************************************************************)
(* scripts/strip-bundle-comments.mjs: the last step of a build removes the *)
(* comments of dist/**/index.mjs and index.cjs, after proving that each    *)
(* bundle is still the same program.                                       *)
(*                                                                         *)
(* A bundle is a sequence of units: code ("word", "operator", "bracket"),  *)
(* "space", "newline" and comments: "block" on a line, "spanning" over     *)
(* lines, "line" up to the next newline, and those that are kept, "kept    *)
(* block", "kept spanning" and "kept line" (licences, the markers of       *)
(* esbuild).                                                               *)
(***************************************************************************)
EXTENDS Integers, Sequences, FiniteSets, SequencesExt, Positions

CONSTANT Builds \* what tsup may write: sequences of bundles

VARIABLES stripPc,  \* "idle", "read", "write", "refused", "done", "killed"
          strip,    \* "stripComments", or a strip that joins lines, as a test passes
          built,    \* the bundles as built
          onDisk,   \* the bundles as they are
          writes,   \* what is still to be written: bundle -> text
          writing,  \* the bundle writeFileSync has truncated, 0 if none
          torn      \* the bundles whose write was cut off

stripVars == <<stripPc, strip, built, onDisk, writes, writing, torn>>

Tokens == {"word", "operator", "bracket"}
Kept == {"kept block", "kept spanning", "kept line"}
Comments == {"block", "spanning", "line"} \cup Kept
Units == Tokens \cup {"space", "newline"} \cup Comments

IsLineComment(unit) == unit \in {"line", "kept line"}
Breaks(unit) == unit \in {"newline", "spanning", "kept spanning"}

(* A line comment ends with its line.                                       *)
IsBundle(units) ==
    /\ units \in Seq(Units)
    /\ \A i \in DOMAIN units :
           IsLineComment(units[i]) => i = Len(units) \/ units[i + 1] = "newline"

ASSUME BundlesAssumption ==
    \A bundles \in Builds : /\ bundles \in Seq(Seq(Units))
                            /\ \A f \in DOMAIN bundles : IsBundle(bundles[f])

LargestOf(S, default) == IF S = {} THEN default ELSE CHOOSE i \in S : \A k \in S : k <= i
SmallestOf(S, default) == IF S = {} THEN default ELSE CHOOSE i \in S : \A k \in S : i <= k

-----------------------------------------------------------------------------
(* Only a bracket, a comma, a semicolon or whitespace never joins.          *)
Joins(unit) == unit \notin {"bracket", "space", "newline"}
needsSpace(left, right) ==
    left # << >> /\ right # << >> /\ Joins(Last(left)) /\ Joins(Head(right))

(* Mutant: a comment that spans lines leaves no line break.                 *)
SeparatorFlat(lineBreak, kept, rest) == IF needsSpace(kept, rest) THEN <<"space">> ELSE << >>

Separator(lineBreak, kept, rest) ==
    IF lineBreak THEN <<"newline">> ELSE IF needsSpace(kept, rest) THEN <<"space">> ELSE << >>

(* The comment at pos goes: with its line when it owned it, else with the   *)
(* blanks before it, and a break or a space stays where one has to.  A      *)
(* comment that spans lines shares its first and its last one.              *)
WithoutComment(output, pos) ==
    LET Blank(from, to) == \A i \in from .. to : output[i] = "space"
        breakBefore == LargestOf({i \in 1 .. pos - 1 : Breaks(output[i])}, 0)
        breakAfter == SmallestOf({i \in pos + 1 .. Len(output) : Breaks(output[i])}, Len(output) + 1)
        nothingBefore == /\ breakBefore = 0 \/ output[breakBefore] = "newline"
                         /\ Blank(breakBefore + 1, pos - 1)
        nothingAfter == /\ breakAfter > Len(output) \/ output[breakAfter] = "newline"
                        /\ Blank(pos + 1, breakAfter - 1)
        lineBreak == ~nothingBefore /\ ~nothingAfter /\ output[pos] = "spanning"
        kept == SubSeq(output, 1, LargestOf({i \in 1 .. pos - 1 : output[i] # "space"}, 0))
        rest == SubSeq(output, pos + 1, Len(output))
    IN  IF nothingBefore /\ nothingAfter
        THEN SubSeq(output, 1, breakBefore) \o SubSeq(output, breakAfter + 1, Len(output))
        ELSE kept \o Separator(lineBreak, kept, rest) \o rest

(* The comments that go, from the last to the first.                        *)
Gone(units) == {i \in DOMAIN units : units[i] \in Comments \ Kept}
Dropped(source) == Reverse(Sorted(Gone(source)))

stripComments(source) ==
    LET ranges == Dropped(source)
        output[n \in 0 .. Len(ranges)] ==
            IF n = 0 THEN source ELSE WithoutComment(output[n - 1], ranges[n])
    IN  output[Len(ranges)]

(* A broken strip: comments and the breaks next to them vanish.             *)
BrokenStrip(source) == SelectSeq(source, LAMBDA unit : unit \notin Comments \cup {"newline"})

Applied(source) == IF strip = "stripComments" THEN stripComments(source) ELSE BrokenStrip(source)

-----------------------------------------------------------------------------
(* The program the parser reads: its tokens, which of them are fused with   *)
(* the one before (nothing stands between them and they join), and before   *)
(* which of them a line break counts.  What follows a line comment on its   *)
(* line is no code.                                                         *)
Program(source) ==
    LET Code(i) == /\ source[i] \in Tokens
                   /\ ~\E k \in 1 .. i - 1 : /\ IsLineComment(source[k])
                                             /\ \A j \in k + 1 .. i - 1 : source[j] # "newline"
        code == Sorted({i \in DOMAIN source : Code(i)})
        Fused(n) == /\ n > 1 /\ code[n - 1] = code[n] - 1
                    /\ source[code[n]] = source[code[n] - 1] /\ Joins(source[code[n]])
        Broken(n) == n > 1 /\ \E k \in code[n - 1] + 1 .. code[n] - 1 : Breaks(source[k])
    IN  [n \in DOMAIN code |-> <<source[code[n]], Fused(n), Broken(n)>>]

sameProgram(before, after) == Program(before) = Program(after)

-----------------------------------------------------------------------------
StripIdle == stripPc = "idle" /\ strip = "none" /\ built = << >> /\ onDisk = << >> /\ writes = << >>
             /\ writing = 0 /\ torn = {}

StripInit ==
    /\ stripPc = "read" /\ writes = << >> /\ writing = 0 /\ torn = {}
    /\ strip \in {"stripComments", "broken"}
    /\ built \in Builds
    /\ onDisk = built

(* What strip makes of the bundles it changes.                              *)
Changed == {f \in DOMAIN built : Applied(onDisk[f]) # onDisk[f]}

(* Mutant: no comparison.                                                   *)
stripDirectoryUnchecked ==
    /\ stripPc = "read"
    /\ stripPc' = "write" /\ writes' = [f \in Changed |-> Applied(onDisk[f])]
    /\ UNCHANGED <<strip, built, onDisk, writing, torn>>

(* Every bundle is read and stripped, and every changed one compared,       *)
(* before the first is written.                                             *)
stripDirectory ==
    /\ stripPc = "read"
    /\ IF \A f \in Changed : sameProgram(onDisk[f], Applied(onDisk[f]))
       THEN stripPc' = "write" /\ writes' = [f \in Changed |-> Applied(onDisk[f])]
       ELSE stripPc' = "refused" /\ UNCHANGED writes
    /\ UNCHANGED <<strip, built, onDisk, writing, torn>>

(* They are written one after the other, in the order of their paths.       *)
(* writeFileSync first truncates the file ...                               *)
TruncateBundle ==
    /\ stripPc = "write" /\ writing = 0 /\ DOMAIN writes # {}
    /\ writing' = SmallestOf(DOMAIN writes, 0)
    /\ onDisk' = [onDisk EXCEPT ![writing'] = << >>]
    /\ UNCHANGED <<stripPc, strip, built, writes, torn>>

(* ... and then writes the text.                                            *)
WriteBundle ==
    /\ stripPc = "write" /\ writing # 0
    /\ onDisk' = [onDisk EXCEPT ![writing] = writes[writing]]
    /\ writes' = [f \in DOMAIN writes \ {writing} |-> writes[f]]
    /\ writing' = 0
    /\ UNCHANGED <<stripPc, strip, built, torn>>

StripDone ==
    /\ stripPc = "write" /\ DOMAIN writes = {}
    /\ stripPc' = "done"
    /\ UNCHANGED <<strip, built, onDisk, writes, writing, torn>>

(* The script is killed, or a write throws.  Within a write any part of the *)
(* text may have reached the disk.                                          *)
StripKilled ==
    /\ stripPc = "write"
    /\ stripPc' = "killed" /\ writing' = 0
    /\ IF writing = 0 THEN UNCHANGED <<onDisk, torn>>
       ELSE /\ \E n \in 0 .. Len(writes[writing]) :
                   onDisk' = [onDisk EXCEPT ![writing] = SubSeq(writes[writing], 1, n)]
            /\ torn' = torn \cup {writing}
    /\ UNCHANGED <<strip, built, writes>>

(* The script may run again, on the bundles as they are.                    *)
StripAgain == stripPc \in {"killed", "done"} /\ stripPc' = "read" /\ writes' = << >>
              /\ UNCHANGED <<strip, built, onDisk, writing, torn>>

StripNext == \/ stripDirectory \/ TruncateBundle \/ WriteBundle \/ StripDone
             \/ StripKilled \/ StripAgain

-----------------------------------------------------------------------------
(* Whichever strip runs, as often as it runs and at whatever point of a     *)
(* write it is killed, each bundle holds the program that was built, save   *)
(* those whose own write was cut off or is under way.                       *)
BundlesKeepTheirProgram ==
    \A f \in DOMAIN built \ (torn \cup {writing}) : sameProgram(built[f], onDisk[f])

(* The real strip is never refused, which would break every release: it     *)
(* fuses no tokens and drops no break that counts.  It leaves no comment it *)
(* should remove, and a second run finds nothing to write, not even in a    *)
(* bundle that was cut off: the script takes that for a stripped one.       *)
StripIsAccepted ==
    strip = "stripComments" =>
        /\ stripPc # "refused"
        /\ stripPc = "done" => \A f \in DOMAIN onDisk : Dropped(onDisk[f]) = << >>
        /\ \A f \in DOMAIN onDisk : onDisk[f] # built[f] => stripComments(onDisk[f]) = onDisk[f]
=============================================================================
