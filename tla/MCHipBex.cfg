CONSTANTS
    Host <- MCHost
    MaxGen <- MCMaxGen
    MaxSolve <- MCMaxSolve
    MaxSpi <- MCMaxSpi
    MaxRestarts <- MCMaxRestarts
    MaxLoss <- MCMaxLoss
    Initiators <- OneInitiator
    Restarting <- Responder
    Userspace <- NoHost
    TokenTfm <- NoTfm
    Hchains <- OneChain
    AnchorStock <- NoStock
SPECIFICATION Spec
INVARIANT TypeOK
INVARIANT SAsMatch
PROPERTY BexRefinesSession
