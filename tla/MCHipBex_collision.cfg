CONSTANTS
    Host <- MCHost
    MaxSolve <- MCMaxSolve
    MaxSpi <- MCMaxSpi
    MaxRestarts <- MCMaxRestarts
    MaxLoss <- MCMaxLoss
    MaxGen <- MCMaxGen
    Initiators <- BothHosts
    Restarting <- NoHost
    Userspace <- NoHost
    TokenTfm <- NoTfm
    Hchains <- OneChain
    AnchorStock <- NoStock
SPECIFICATION Spec
INVARIANT KeysAgree
