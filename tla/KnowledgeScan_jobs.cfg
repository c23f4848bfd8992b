SPECIFICATION FairSpec
CONSTANTS
    MaxJobs = 3
    MaxLive = 2
    MaxCrashes = 1
    Kinds <- AllKinds
INVARIANT OneGeneration
INVARIANT HitsAreEntities
INVARIANT DeletedLeavesNothing
INVARIANT EndAnnounced
PROPERTY ScanningEnds
\* all jobs done
CHECK_DEADLOCK FALSE
