CONSTANTS
    NumChains <- MCNumChains
    ChainLen <- MCChainLen
    Window <- MCWindow
    SeqWidth <- MCSeqWidth
    MaxSeq <- MCMaxSeq
    MaxUpdates <- MCMaxUpdates
    MaxRetrans <- MCMaxRetrans
    MaxDup <- MCMaxDup
    MaxLoss <- MCMaxLoss
    Piggyback = FALSE
    Attacker = FALSE
SPECIFICATION FairSpec
INVARIANT TypeOK
INVARIANT FirewallCanFollow
PROPERTY FirewallFollowsSender
