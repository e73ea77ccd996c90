------------------------------- MODULE Release -------------------------------
(***************************************************************************)
(* How a version reaches npm: .github/workflows/release.yml runs on a tag, *)
(* with the gates of scripts/check-published-surface.mjs (the changelog)   *)
(* and scripts/check-api-surface.mjs (the declarations) before it          *)
(* publishes.  A run can be interrupted anywhere and started again; main   *)
(* moves on and further tags are pushed meanwhile.                         *)
(*                                                                         *)
(* A changelog is a sequence of lines <<kind, version>>: "heading" and     *)
(* "link" (its definition) of a version, "text", and "note" (the heading of*)
(* the compatibility note).                                                *)
(***************************************************************************)
EXTENDS Integers, Sequences, FiniteSets, SequencesExt

CONSTANTS Versions,  \* numbers, ordered as versions are
          Apis,      \* what the declarations of a tree can be, normalized
          Bodies,    \* what a developer writes into a new section
          MaxCommits \* bound

(* Versions are positive: 0 stands for no version.                          *)
Lines == {"heading", "link", "text", "note"} \X Nat
ASSUME ReleaseAssumption == Versions \subseteq Nat \ {0} /\ Bodies \subseteq Seq(Lines)

VARIABLES relPc,      \* "idle", "waiting", or the step the run is at
          tree,       \* main: its version, declarations and changelog
          tagged,     \* tag -> the tree it points to
          npm,        \* published version -> its declarations
          published,  \* version -> the notes of its GitHub release
          running,    \* the tag of the current run
          fetched,    \* the tags its checkout brought
          notes,      \* release-notes.md
          commits

releaseVars == <<relPc, tree, tagged, npm, published, running, fetched, notes, commits>>

Steps == {"verify", "extract", "prepublish", "surface", "publish", "github"}
With(f, k, v) == [x \in DOMAIN f \cup {k} |-> IF x = k THEN v ELSE f[x]]

-----------------------------------------------------------------------------
IsHeading(line) == line[1] = "heading"

(* From the first heading of the version to the next heading: releaseNotes, *)
(* changelogSection and the awk of the workflow read the file alike.        *)
Bounds(changelog, v) ==
    LET start == SelectInSeq(changelog, LAMBDA line : line = <<"heading", v>>)
        rest  == SubSeq(changelog, start + 1, Len(changelog))
        end   == SelectInSeq(rest, IsHeading)
    IN  [start |-> start, rest |-> rest, end |-> end]

(* Mutant: the section does not end at the next heading.                    *)
changelogSectionToEnd(changelog, v) == Bounds(changelog, v).rest

changelogSection(changelog, v) ==
    LET b == Bounds(changelog, v) IN IF b.end = 0 THEN b.rest ELSE SubSeq(b.rest, 1, b.end - 1)

HasSection(changelog, v) == Bounds(changelog, v).start # 0
hasCompatibilityNote(section) == \E i \in DOMAIN section : section[i][1] = "note"

(* The 40 characters asked for: a single line of any kind has them.         *)
LongEnough(section) == section # << >>

(* checkChangelog: what it reports on a tree, given the tags it can see.    *)
documented(changelog) == {line[2] : line \in {l \in ToSet(changelog) : IsHeading(l)}}
checkChangelog(t, visible) ==
    IF ~HasSection(t.changelog, t.version) THEN {<<t.version, "no heading">>}
    ELSE {<<v, "empty">> : v \in {d \in documented(t.changelog) :
                                      ~LongEnough(changelogSection(t.changelog, d))}}
         \cup {<<v, "no link">> : v \in {d \in documented(t.changelog) :
                                      <<"link", d>> \notin ToSet(t.changelog)}}
         \cup {<<v, "missing">> : v \in visible \ documented(t.changelog)}

previousVersion(releases, v) ==
    LET below == {p \in releases : p < v}
    IN  IF below = {} THEN 0 ELSE CHOOSE p \in below : \A q \in below : q <= p

compareDist(before, after) == before # after

(* check-api-surface.mjs: another surface than the version before needs the *)
(* note; the bump decides nothing.                                          *)
SurfacePasses(t) ==
    LET previous == previousVersion(DOMAIN npm, t.version)
        differs  == previous # 0 /\ compareDist(npm[previous], t.api)
    IN  differs => /\ HasSection(t.changelog, t.version)
                   /\ hasCompatibilityNote(changelogSection(t.changelog, t.version))

-----------------------------------------------------------------------------
ReleaseIdle ==
    /\ relPc = "idle" /\ tree = << >> /\ tagged = << >> /\ npm = << >> /\ published = << >>
    /\ running = 0 /\ fetched = {} /\ notes = << >> /\ commits = 0

ReleaseInit ==
    /\ relPc = "waiting"
    /\ \E v \in Versions, api \in Apis, body \in Bodies :
           tree = [version |-> v, api |-> api, changelog |-> <<<<"heading", v>>>> \o body \o <<<<"link", v>>>>]
    /\ tagged = << >> /\ npm = << >> /\ published = << >>
    /\ running = 0 /\ fetched = {} /\ notes = << >> /\ commits = 0

(* A section goes on top, and the heading below it may be lost with the     *)
(* edit; the declarations may change.                                       *)
Commit ==
    /\ relPc # "idle" /\ commits < MaxCommits
    /\ commits' = commits + 1
    /\ \E v \in Versions, api \in Apis, body \in Bodies :
       \E below \in {tree.changelog, Tail(tree.changelog)} :
           tree' = [version |-> v, api |-> api,
                    changelog |-> <<<<"heading", v>>>> \o body \o below \o <<<<"link", v>>>>]
    /\ UNCHANGED <<relPc, tagged, npm, published, running, fetched, notes>>

(* The first version is published from a maintainer's machine, where        *)
(* prepublishOnly runs the changelog gate, before its tag is pushed.        *)
FirstRelease ==
    /\ relPc # "idle" /\ DOMAIN npm = {} /\ DOMAIN tagged = {}
    /\ checkChangelog(tree, {}) = {}
    /\ npm' = With(npm, tree.version, tree.api)
    /\ UNCHANGED <<relPc, tree, tagged, published, running, fetched, notes, commits>>

PushTag(v) ==
    /\ relPc # "idle" /\ v \notin DOMAIN tagged
    /\ tagged' = With(tagged, v, tree)
    /\ UNCHANGED <<relPc, tree, npm, published, running, fetched, notes, commits>>

(* One run at a time; a tag runs when it is pushed, and by hand again.      *)
StartRun(v) ==
    /\ relPc = "waiting" /\ v \in DOMAIN tagged
    /\ relPc' = "verify"
    /\ running' = v /\ fetched' = DOMAIN tagged /\ notes' = << >>
    /\ UNCHANGED <<tree, tagged, npm, published, commits>>

Checked == tagged[running]
StepTo(step) == relPc' = step
Rest == <<tree, tagged, running, fetched, commits>>

VerifyTag ==
    /\ relPc = "verify" /\ Checked.version = running /\ StepTo("extract")
    /\ UNCHANGED <<Rest, npm, published, notes>>

ExtractNotes ==
    /\ relPc = "extract"
    /\ HasSection(Checked.changelog, running)
    /\ notes' = changelogSection(Checked.changelog, running)
    /\ notes' # << >>
    /\ StepTo("prepublish")
    /\ UNCHANGED <<Rest, npm, published>>

(* git fetch --tags may fail: the tags of the checkout are all there is.    *)
PrepublishOnly ==
    /\ relPc = "prepublish"
    /\ \E visible \in {fetched, DOMAIN tagged} : checkChangelog(Checked, visible) = {}
    /\ StepTo("surface")
    /\ UNCHANGED <<Rest, npm, published, notes>>

CheckSurface ==
    /\ relPc = "surface" /\ SurfacePasses(Checked) /\ StepTo("publish")
    /\ UNCHANGED <<Rest, npm, published, notes>>

(* Skipped when the version is there; npm knows the package's publisher     *)
(* only once the package exists.                                            *)
Publish ==
    /\ relPc = "publish"
    /\ \/ running \in DOMAIN npm /\ UNCHANGED npm
       \/ running \notin DOMAIN npm /\ npm # << >> /\ npm' = With(npm, running, Checked.api)
    /\ StepTo("github")
    /\ UNCHANGED <<Rest, published, notes>>

CreateGitHubRelease ==
    /\ relPc = "github" /\ running \notin DOMAIN published
    /\ published' = With(published, running, notes)
    /\ StepTo("waiting")
    /\ UNCHANGED <<Rest, npm, notes>>

(* A gate that fails, a step that fails and an interruption all end a run.  *)
RunFails ==
    /\ relPc \in Steps /\ StepTo("waiting")
    /\ UNCHANGED <<Rest, npm, published, notes>>

ReleaseNext ==
    \/ Commit \/ FirstRelease \/ VerifyTag \/ ExtractNotes \/ PrepublishOnly \/ CheckSurface
    \/ Publish \/ CreateGitHubRelease \/ RunFails
    \/ \E v \in Versions : PushTag(v) \/ StartRun(v)

-----------------------------------------------------------------------------
(* The lines under the first heading of a version, up to another heading.   *)
Under(changelog, v) ==
    {i \in DOMAIN changelog :
        \E h \in 1 .. i - 1 : /\ changelog[h] = <<"heading", v>>
                              /\ \A k \in 1 .. h - 1 : changelog[k] # <<"heading", v>>
                              /\ \A k \in h + 1 .. i : ~IsHeading(changelog[k])}

(* What reaches npm through the workflow, after however many runs: a        *)
(* version whose declarations differ from the highest one published below   *)
(* it says so under its own heading; its changelog has a section for each   *)
(* version tagged by then; and a GitHub release exists only for a published *)
(* version and repeats the lines under that heading.                        *)
ReleasesAreDocumented ==
    [][/\ \A v \in DOMAIN npm' \ DOMAIN npm : npm # << >> =>
              LET log == tagged[v].changelog
                  before == {p \in DOMAIN npm : p < v}
              IN  /\ \A p \in before :
                         (\A q \in before : q <= p) /\ npm[p] # npm'[v]
                         => \E i \in Under(log, v) : log[i][1] = "note"
                  /\ \A w \in fetched : \E i \in DOMAIN log : log[i] = <<"heading", w>>
       /\ \A v \in DOMAIN published' \ DOMAIN published :
              /\ v \in DOMAIN npm
              /\ Under(tagged[v].changelog, v) # {}
              /\ ToSet(published'[v]) = {tagged[v].changelog[i] : i \in Under(tagged[v].changelog, v)}
      ]_<<npm, published>>
=============================================================================
