--------------------------- MODULE MCNetdevAddrs ---------------------------
(* Model values for the address cache: one IPv4 address A4, an IPv6     *)
(* address B6, an IPv6 address X6 whose first 32 bits equal A4, and a    *)
(* link-local IPv6 address L6 that filter_address ignores; two           *)
(* interfaces.                                                           *)
EXTENDS NetdevAddrs

A4 == 1
B6 == 2
X6 == 3
L6 == 4
MCAddr     == {A4, B6, X6, L6}
MCV4       == {A4}
MCIgnored  == {L6}
MCAlias    == {<<X6, A4>>}
NoAlias    == {}
MCIfaces   == {1, 2, 3}
Listed     == {1, 2}
AllIfaces  == {}
MCJunk     == {0, 1}
MCMaxInit  == 2
MCMaxQueue == 2
MCMaxAssigned == 2
OneMsg     == 1
TwoMsgs    == 2
MCWait     == 3
OneRestart == 1

\* address_count drifts upwards (see CountMatches), so it is bounded here.
MaxCount   == 3
CountBound == address_count <= MaxCount
=============================================================================
