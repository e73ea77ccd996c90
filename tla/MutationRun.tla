----------------------------- MODULE MutationRun -----------------------------
(***************************************************************************)
(* scripts/mutate-const-tables.mjs: every entry of a constant table is cut *)
(* out of its file, or its number raised, and a test command judges the    *)
(* result.  The source file on disk is the shared state: the script must   *)
(* put it back however the run ends.                                       *)
(*                                                                         *)
(* A file is the text of one table: tokens "(" and ")", ",", notes         *)
(* (comments), names and numbers, each with what it holds.                 *)
(***************************************************************************)
EXTENDS Integers, Sequences, SequencesExt, Positions

CONSTANTS Texts,     \* the tables a file may hold
          Names,     \* what they list besides numbers
          FileCount, \* how many files are mutated, one after the other
          MaxNumber  \* the largest number whose successor is exact

ASSUME MutationAssumption == FileCount \in Nat

VARIABLES mutPc,      \* "idle", "read", "baseline", "mutant", "finally", an exit
          source,     \* the files as they were
          disk,       \* the files as they are
          current,    \* the file the loop is at
          left,       \* the mutants of it that are not judged yet
          pinned,     \* the lists, one entry changed, that some test fails on
          green,      \* the files on which the command passes unmutated
          survivors,  \* what the script will print
          unstarted   \* history: the lists no test fails on whose command could not be started

mutVars == <<mutPc, source, disk, current, left, pinned, green, survivors, unstarted>>
Files == 1 .. FileCount

-----------------------------------------------------------------------------
(* The mutants of a text.                                                   *)

TableTokens ==
    ({"(", ")", ",", "note"} \X {""}) \cup ({"name"} \X Names) \cup ({"number"} \X Nat)

IsEntry(token) == token[1] \in {"name", "number"}
Notes(text, i, k) == \A l \in i + 1 .. k - 1 : text[l][1] = "note"

(* A text is a list if it has commas between its entries, or after the last *)
(* one, and no others.                                                      *)
MayFollow(a, b) ==
    IF IsEntry(a) THEN b[1] \in {",", ")"} ELSE a[1] # ")" /\ (IsEntry(b) \/ b[1] = ")")

IsList(text) ==
    /\ Len(text) > 1 /\ text[1][1] = "(" /\ text[Len(text)][1] = ")"
    /\ \A i, k \in DOMAIN text :
          i < k /\ text[i][1] # "note" /\ text[k][1] # "note" /\ Notes(text, i, k) =>
              MayFollow(text[i], text[k])

(* The tables are those of files that compile.                              *)
ASSUME TextsAssumption == \A text \in Texts : text \in Seq(TableTokens) /\ IsList(text)

Entries(text) == Sorted({i \in DOMAIN text : IsEntry(text[i])})
Cut(text, from, to) == SubSeq(text, 1, from - 1) \o SubSeq(text, to, Len(text))

(* The full start of an entry takes in the notes before it: it is where the *)
(* comma, or the bracket, before it ends.                                   *)
FullStart(text, at) ==
    1 + CHOOSE i \in 1 .. at - 1 :
            text[i][1] \in {"(", ","} /\ Notes(text, i, at)

(* Where the list ends, a trailing comma included.                          *)
ListEnd(text) ==
    1 + CHOOSE i \in DOMAIN text :
            /\ IsEntry(text[i]) \/ text[i][1] = ","
            /\ \A k \in i + 1 .. Len(text) : text[k][1] \in {"note", ")"}

(* Mutant: the entry goes, the comma behind it stays.                       *)
withoutEntryOnly(text, entries, n) == Cut(text, FullStart(text, entries[n]), entries[n] + 1)

withoutEntry(text, entries, n) ==
    IF n < Len(entries)
    THEN Cut(text, FullStart(text, entries[n]), FullStart(text, entries[n + 1]))
    ELSE Cut(text, IF n = 1 THEN FullStart(text, entries[n]) ELSE entries[n - 1] + 1, ListEnd(text))

Bumpable(token) == token[1] = "number" /\ token[2] < MaxNumber
withNumberBumped(text, at) == [text EXCEPT ![at][2] = @ + 1]

(* In this order, the odd numbers are the removals and the even ones, which *)
(* not every entry has, the raised numbers.                                 *)
mutantsOf(text) ==
    LET entries == Entries(text)
        order == Sorted({2 * n - 1 : n \in DOMAIN entries} \cup
                        {2 * n : n \in {k \in DOMAIN entries : Bumpable(text[entries[k]])}})
    IN  [m \in DOMAIN order |->
            IF order[m] % 2 = 1 THEN withoutEntry(text, entries, (order[m] + 1) \div 2)
            ELSE withNumberBumped(text, entries[order[m] \div 2])]

(* What a text means: its entries.  Variants: the lists that differ from    *)
(* one in one entry.                                                        *)
ListOf(text) == [n \in DOMAIN Entries(text) |-> text[Entries(text)[n]]]

Variants(list) ==
    {RemoveAt(list, n) : n \in DOMAIN list} \cup
    {[list EXCEPT ![n][2] = @ + 1] : n \in {k \in DOMAIN list : Bumpable(list[k])}}

-----------------------------------------------------------------------------
Running == {"baseline", "mutant"}   \* the run awaits a command

MutIdle ==
    /\ mutPc = "idle" /\ source = << >> /\ disk = << >> /\ current = 1 /\ left = << >>
    /\ pinned = {} /\ green = {} /\ survivors = << >> /\ unstarted = {}

MutInit ==
    /\ mutPc = "read" /\ current = 1 /\ left = << >>
    /\ source \in [Files -> Texts]
    /\ disk = source
    /\ LET all == UNION {Variants(ListOf(source[f])) : f \in Files}
       IN  pinned \in {all} \cup {all \ {list} : list \in all}
    /\ green \in SUBSET Files
    /\ survivors = << >> /\ unstarted = {}

fixed == <<source, pinned, green>>

(* How the command may end on what the disk holds: the tests' verdict (no   *)
(* list at all fails them), a signal, or it could not be started.           *)
Verdict == IF disk[current] = source[current] THEN current \in green
           ELSE IsList(disk[current]) /\ ListOf(disk[current]) \notin pinned
Outcomes == {IF Verdict THEN "passed" ELSE "failed", "signal", "not started"}
Unjudged(outcome) ==
    IF outcome = "not started" /\ Verdict THEN {ListOf(disk[current])} ELSE {}

ReadFile ==
    /\ mutPc = "read"
    /\ IF current > FileCount
       THEN mutPc' = (IF survivors = << >> THEN "exit 0" ELSE "exit 1") /\ UNCHANGED left
       ELSE /\ left' = mutantsOf(source[current])
            /\ mutPc' = IF left' = << >> THEN "finally" ELSE "baseline"
    /\ UNCHANGED <<fixed, disk, current, survivors, unstarted>>

WriteNext(todo) ==
    IF todo = << >> THEN mutPc' = "finally" /\ UNCHANGED <<disk, left>>
    ELSE /\ mutPc' = "mutant"
         /\ disk' = [disk EXCEPT ![current] = Head(todo)]
         /\ left' = Tail(todo)

(* A throw inside the loop: the finally block restores, main exits with 2.  *)
Thrown ==
    /\ mutPc' = "exit 2"
    /\ disk' = [disk EXCEPT ![current] = source[current]]
    /\ UNCHANGED left

requirePassing ==
    /\ mutPc = "baseline"
    /\ \E outcome \in Outcomes : IF outcome = "passed" THEN WriteNext(left) ELSE Thrown
    /\ UNCHANGED <<fixed, current, survivors, unstarted>>

(* Mutant: a command that was interrupted counts as a failed test.          *)
JudgeMutantInterrupted ==
    /\ mutPc = "mutant"
    /\ \E outcome \in Outcomes :
           /\ WriteNext(left)
           /\ survivors' = IF outcome = "passed" THEN Append(survivors, disk[current]) ELSE survivors
           /\ unstarted' = unstarted \cup Unjudged(outcome)
    /\ UNCHANGED <<fixed, current>>

(* Only a passing command is a survivor: one that could not be started      *)
(* counts as a failed test.                                                 *)
JudgeMutant ==
    /\ mutPc = "mutant"
    /\ \E outcome \in Outcomes :
           /\ IF outcome = "signal" THEN Thrown ELSE WriteNext(left)
           /\ survivors' = IF outcome = "passed" THEN Append(survivors, disk[current]) ELSE survivors
           /\ unstarted' = unstarted \cup Unjudged(outcome)
    /\ UNCHANGED <<fixed, current>>

Finally ==
    /\ mutPc = "finally"
    /\ disk' = [disk EXCEPT ![current] = source[current]]
    /\ current' = current + 1
    /\ mutPc' = "read"
    /\ UNCHANGED <<fixed, left, survivors, unstarted>>

(* Mutant: an interrupt only ends the process.                              *)
onSignalExits ==
    /\ mutPc \in Running
    /\ mutPc' = "exit 2"
    /\ UNCHANGED <<fixed, disk, current, left, survivors, unstarted>>

(* SIGINT or SIGTERM, seen while a command runs: the command is killed and  *)
(* the file restored.                                                       *)
onSignal ==
    /\ mutPc \in Running
    /\ Thrown
    /\ UNCHANGED <<fixed, current, survivors, unstarted>>

MutNext == ReadFile \/ requirePassing \/ JudgeMutant \/ Finally \/ onSignal

-----------------------------------------------------------------------------
(* However a run ends, by itself, by an interrupt or by a command that was  *)
(* killed, the files are as they were; while it runs one of them differs.   *)
SourceRestored ==
    \A f \in DOMAIN disk : disk[f] # source[f] => f = current /\ mutPc \in {"mutant", "finally"}

(* The mutants of a table, as text with notes and commas in it, are the     *)
(* lists that differ from it in one entry, each of them still a list and    *)
(* none left out or the table itself.                                       *)
MutantsAreVariants ==
    \A f \in DOMAIN source :
        LET mutants == ToSet(mutantsOf(source[f]))
        IN  /\ {ListOf(m) : m \in mutants} = Variants(ListOf(source[f]))
            /\ \A m \in mutants : IsList(m) /\ m # source[f]

(* The report is the truth about the tests, mutant by mutant: at the end    *)
(* every list that differs in one entry and that no test fails on is        *)
(* printed, unless its own command could not be started, and nothing else   *)
(* is; the exit status is 1 if and only if something is printed; and the    *)
(* tests pass on every table as it is.                                      *)
ExitTellsTheTruth ==
    mutPc \in {"exit 0", "exit 1"} =>
        LET printed == {ListOf(m) : m \in ToSet(survivors)}
            slipped == (UNION {Variants(ListOf(source[f])) : f \in DOMAIN source}) \ pinned
        IN  /\ slipped \ unstarted \subseteq printed /\ printed \subseteq slipped
            /\ mutPc = "exit 1" <=> printed # {}
            /\ \A f \in DOMAIN source : ListOf(source[f]) # << >> => f \in green
=============================================================================
