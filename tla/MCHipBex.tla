------------------------------ MODULE MCHipBex ------------------------------
(* Model-checking instance of HipBex: two hosts with HITs 1 < 2.  Host 1  *)
(* alone initiates unless a configuration says otherwise.                 *)
EXTENDS HipBex

MCHost        == {1, 2}
MCMaxGen      == 3
MCMaxSolve    == 3
MCMaxSpi      == 4
MCMaxRestarts == 1
MCMaxLoss     == 2
OneInitiator  == {1}
BothHosts     == {1, 2}
Responder     == {2}
NoHost        == {}
OneGen        == 1
\* ESP-protection configurations: protection off, or both hosts' firewalls
\* on PLAIN with one chain, or on PARALLEL with different chain counts.
NoTfm         == [h \in MCHost |-> 0]
PlainTfm      == [h \in MCHost |-> 1]
ParallelTfm   == [h \in MCHost |-> 2]
OneChain      == [h \in MCHost |-> 1]
MixedChains   == [h \in MCHost |-> h + 1]
NoStock       == [h \in MCHost |-> 0]
\* Two anchors each: one for the first I2 or R2 and one for a rebuilt one.
TwoAnchors    == [h \in MCHost |-> 2]
=============================================================================
