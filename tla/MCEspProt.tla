------------------------------ MODULE MCEspProt ------------------------------
(* Model-checking instance of EspProt: three chains of two elements, so   *)
(* that S announces and switches chains twice, and a window of two.       *)
EXTENDS EspProt

MCNumChains  == 3
MCChainLen   == 2
MCWindow     == 2
MCSeqWidth   == 3
MCMaxSeq     == 6
MCMaxUpdates == 2
MCMaxRetrans == 1
MCMaxDup     == 1
MCMaxLoss    == 1
NoDup        == 0

=============================================================================
