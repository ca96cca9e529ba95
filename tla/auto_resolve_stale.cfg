CONSTANTS
    Strategy <- MCBackend
    MaxVersion <- MCMaxVersion
    MaxJobs <- MCMaxJobs
SPECIFICATION HostSpec
INVARIANT
    VersionTracksDisk
