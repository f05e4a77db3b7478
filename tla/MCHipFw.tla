------------------------------- MODULE MCHipFw -------------------------------
(* Model-checking instance of HipFw: the hosts of MCHipBex, and a firewall *)
(* on the path with ESP protection on, PLAIN, one chain.                  *)
EXTENDS HipFw, MCHipBex

FwOn     == TRUE
\* A config file that selects PLAIN and leaves the chain count unset.
FwPlainConfig == [token_transform |-> 1, num_parallel_hchains |-> NotSet, file |-> TRUE]
ZeroLoss   == 0
RespOnlyTfm == [h \in MCHost |-> IF h = 2 THEN 1 ELSE 0]
=============================================================================
