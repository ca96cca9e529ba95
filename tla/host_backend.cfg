CONSTANTS
    Strategy <- MCBackend
    MaxVersion <- MCMaxVersion
    MaxJobs <- MCMaxJobs
SPECIFICATION HostFair
PROPERTIES
    PluginReturns
