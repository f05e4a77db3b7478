CONSTANTS
    Host <- MCHost
    MaxSolve <- MCMaxSolve
    MaxSpi <- MCMaxSpi
    MaxRestarts <- MCMaxRestarts
    MaxLoss <- MCMaxLoss
    MaxGen <- OneGen
    Initiators <- OneInitiator
    Restarting <- NoHost
    Userspace <- BothHosts
    TokenTfm <- PlainTfm
    Hchains <- OneChain
    AnchorStock <- TwoAnchors
    FwProtection <- FwOn
    FwConfig <- FwPlainConfig
SPECIFICATION FwFairSpec
PROPERTY BexCompletes
