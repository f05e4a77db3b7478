CONSTANTS
    Host <- MCHost
    MaxGen <- OneGen
    MaxSolve <- MCMaxSolve
    MaxSpi <- MCMaxSpi
    MaxRestarts <- MCMaxRestarts
    MaxLoss <- MCMaxLoss
    Initiators <- OneInitiator
    Restarting <- NoHost
    Userspace <- BothHosts
    TokenTfm <- PlainTfm
    Hchains <- OneChain
    AnchorStock <- TwoAnchors
SPECIFICATION Spec
INVARIANT SAsMatch
