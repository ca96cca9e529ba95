CONSTANTS
    Strategy <- MCFrontend
    MaxVersion <- MCMaxVersion
    MaxJobs <- MCMaxJobs
SPECIFICATION FairSpec
PROPERTY
    UpdatesTerminate
