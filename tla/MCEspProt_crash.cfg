CONSTANTS
    NumChains <- MCNumChains
    ChainLen <- MCChainLen
    Window <- MCWindow
    SeqWidth <- MCSeqWidth
    MaxSeq <- MCMaxSeq
    MaxUpdates <- MCMaxUpdates
    MaxRetrans <- MCMaxRetrans
    MaxDup <- MCMaxDup
    MaxLoss <- MCMaxLoss
    Piggyback = TRUE
    Attacker = FALSE
SPECIFICATION Spec
INVARIANT NoCrash
