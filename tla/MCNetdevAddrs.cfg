CONSTANTS
    Addr <- MCAddr
    V4 <- MCV4
    Ignored <- MCIgnored
    Alias <- MCAlias
    Ifaces <- MCIfaces
    WhiteList <- Listed
    Junk <- MCJunk
    MaxInit <- MCMaxInit
    MaxQueue <- MCMaxQueue
    MaxAssigned <- MCMaxAssigned
    MaxBatch <- OneMsg
    WaitInterval <- MCWait
    MaxRestarts <- OneRestart
SPECIFICATION Spec
INVARIANT TypeOK NoStaleAddress
CONSTRAINT CountBound
