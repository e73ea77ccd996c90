\* The repository's scripts, one at a time.
SPECIFICATION Spec
CONSTANTS
    Texts <- MCTexts
    Names = {"a", "b"}
    FileCount = 2
    MaxNumber = 9
    Builds <- MCBuilds
    SourceFiles = {"f", "g"}
    Requests = {r1, r2}
    Limit = 1
    MaxLength = 3
    MaxMerges = 3
    Urls = {"a", "b", "c", "d"}
    Hosts <- MCHosts
    Sites <- MCSites
    Readmes <- MCReadmes
    MaxRedirects = 2
    Versions = {1, 2}
    Apis = {"A", "B"}
    Bodies <- MCBodies
    MaxCommits = 2
    JobCount = 4
    InFlight = 3
    Slots = 3
INVARIANT SourceRestored
INVARIANT MutantsAreVariants
INVARIANT ExitTellsTheTruth
INVARIANT BundlesKeepTheirProgram
 
INVARIANT LinkVerdicts
INVARIANT RedisLeftAsFound
PROPERTY OffendersOnlyShrink
PROPERTY ReleasesAreDocumented
CHECK_DEADLOCK FALSE
