CONSTANTS
    Strategy <- MCFrontend
    MaxVersion <- MCMaxVersion
    MaxJobs <- MCMaxJobs
SPECIFICATION Spec
INVARIANTS
    IntactCopy
    VersionTracksDisk
PROPERTIES
    FailureKeepsLive
