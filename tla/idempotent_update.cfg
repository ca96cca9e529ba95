CONSTANTS
    Strategy <- MCBackend
    MaxVersion <- MCMaxVersion
    MaxJobs <- MCMaxJobs
SPECIFICATION Spec
INVARIANT
    IdempotentUpdate
