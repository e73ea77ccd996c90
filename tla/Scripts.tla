------------------------------- MODULE Scripts -------------------------------
(***************************************************************************)
(* The scripts of the repository (scripts/, package.json) and the release  *)
(* workflow share no state with each other: a behaviour is one of them at  *)
(* work while the others are idle.                                         *)
(***************************************************************************)
EXTENDS MutationRun, BundleComments, FileLengths, LinkCheck, Release, Benchmark

VARIABLE script
scriptsVars == <<script, mutVars, stripVars, lengthVars, linkVars, releaseVars, benchVars>>

Init ==
    \/ /\ script = "mutation:const-tables" /\ MutInit
       /\ StripIdle /\ LengthsIdle /\ LinksIdle /\ ReleaseIdle /\ BenchIdle
    \/ /\ script = "strip-bundle-comments" /\ StripInit
       /\ MutIdle /\ LengthsIdle /\ LinksIdle /\ ReleaseIdle /\ BenchIdle
    \/ /\ script = "check:file-length" /\ LengthsInit
       /\ MutIdle /\ StripIdle /\ LinksIdle /\ ReleaseIdle /\ BenchIdle
    \/ /\ script = "check:published" /\ LinksInit
       /\ MutIdle /\ StripIdle /\ LengthsIdle /\ ReleaseIdle /\ BenchIdle
    \/ /\ script = "release" /\ ReleaseInit
       /\ MutIdle /\ StripIdle /\ LengthsIdle /\ LinksIdle /\ BenchIdle
    \/ /\ script = "benchmark" /\ BenchInit
       /\ MutIdle /\ StripIdle /\ LengthsIdle /\ LinksIdle /\ ReleaseIdle

Next ==
    /\ UNCHANGED script
    /\ \/ /\ script = "mutation:const-tables" /\ MutNext
          /\ UNCHANGED <<stripVars, lengthVars, linkVars, releaseVars, benchVars>>
       \/ /\ script = "strip-bundle-comments" /\ StripNext
          /\ UNCHANGED <<mutVars, lengthVars, linkVars, releaseVars, benchVars>>
       \/ /\ script = "check:file-length" /\ LengthsNext
          /\ UNCHANGED <<mutVars, stripVars, linkVars, releaseVars, benchVars>>
       \/ /\ script = "check:published" /\ LinkNext
          /\ UNCHANGED <<mutVars, stripVars, lengthVars, releaseVars, benchVars>>
       \/ /\ script = "release" /\ ReleaseNext
          /\ UNCHANGED <<mutVars, stripVars, lengthVars, linkVars, benchVars>>
       \/ /\ script = "benchmark" /\ BenchNext
          /\ UNCHANGED <<mutVars, stripVars, lengthVars, linkVars, releaseVars>>

Spec == Init /\ [][Next]_scriptsVars
=============================================================================
