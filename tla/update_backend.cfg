CONSTANTS
    Strategy <- MCBackend
    MaxVersion <- MCMaxVersion
    MaxJobs <- MCMaxJobs
SPECIFICATION FairSpec
INVARIANTS
    IntactCopy
    VersionTracksDisk
    FailureReported
PROPERTIES
    StoreRefined
    FailureKeepsLive
    UpdatesTerminate
