CONSTANTS
    Strategy <- MCBackend
    MaxVersion <- MCMaxVersion
    MaxJobs <- MCMaxJobs
SPECIFICATION PluginSpec
INVARIANT
    PluginErrorFaithful
