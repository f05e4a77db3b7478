CONSTANTS
    Host <- MCHost
    MaxSolve <- MCMaxSolve
    MaxSpi <- MCMaxSpi
    MaxRestarts <- MCMaxRestarts
    MaxLoss <- MCMaxLoss
    MaxGen <- MCMaxGen
    Initiators <- OneInitiator
    Restarting <- OneInitiator
    Userspace <- NoHost
    TokenTfm <- NoTfm
    Hchains <- OneChain
    AnchorStock <- NoStock
SPECIFICATION Spec
PROPERTY RejectedI2KeepsEstablished
