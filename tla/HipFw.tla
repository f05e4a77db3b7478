------------------------------- MODULE HipFw -------------------------------
(***************************************************************************)
(* The base exchange of HipBex with a HIP firewall (hipfw) on the path     *)
(* between the two hosts, tracking the ESP-protection parameters of the    *)
(* exchange (hipfw/esp_prot_conntrack.c): esp_prot_conntrack_R1_tfms       *)
(* records the transforms the R1 offers, esp_prot_conntrack_I2_anchor      *)
(* sets up the esp_tuple of the I2's direction with the initiator's        *)
(* anchors, esp_prot_conntrack_R2_anchor stores the responder's anchors in  *)
(* the esp_tuple of the R2's direction.  The firewall later verifies the   *)
(* hash-chain tokens of ESP packets against these anchors (EspProt).       *)
(*                                                                         *)
(* Every control packet passes the firewall before it reaches the other    *)
(* host.  The network may lose a packet before the firewall (Lose) or      *)
(* after it (FwLose).  The firewall tracks the one HIT pair of the two     *)
(* hosts; its connection exists from the first I1, before which no other   *)
(* packet exists, so the model starts with it.                             *)
(***************************************************************************)
EXTENDS HipBex

CONSTANTS
    FwProtection, \* hip_esp_protection of the firewall
    FwConfig      \* the token_config settings of its config file, or NoConfig

\* A setting absent from the config file, and no config file at all.
NotSet   == -1
NoConfig == [token_transform |-> NotSet, num_parallel_hchains |-> NotSet, file |-> FALSE]

\* The transforms after _PARALLEL, which hipd never negotiates in this tree.
CUMULATIVE == 3
PARA_CUMUL == 4
TREE       == 5

\* esp_prot_token_config: without a config file, PLAIN with one chain.
\* Otherwise a missing token_transform is UNUSED; the chain count is 1 but
\* for PARALLEL (default 2) and PARA_CUMUL (default 1), which take it from
\* the file as it is; an unknown transform, UNUSED included, fails.  The
\* hash-length sanity checks pass on the defaults.
esp_prot_token_config(cfg) ==
    LET t    == IF cfg.token_transform = NotSet THEN UNUSED ELSE cfg.token_transform
        n(d) == IF cfg.num_parallel_hchains = NotSet THEN d ELSE cfg.num_parallel_hchains
    IN  CASE ~cfg.file                        -> [err |-> 0, tfm |-> 1, hchains |-> 1]
          [] t \in {1, CUMULATIVE, TREE}      -> [err |-> 0, tfm |-> t, hchains |-> 1]
          [] t = 2                            -> [err |-> 0, tfm |-> t, hchains |-> n(2)]
          [] t = PARA_CUMUL                   -> [err |-> 0, tfm |-> t, hchains |-> n(1)]
          [] OTHER                            -> [err |-> -1, tfm |-> t, hchains |-> 0]

\* esp_prot_conntrack_init: the token configuration must succeed, and the
\* configured transform is the one marked is_used.  The firewall runs with
\* a chain transform hipd negotiates (PLAIN or PARALLEL).
FwSetup   == esp_prot_token_config(FwConfig)
FwTfm     == FwSetup.tfm
FwHchains == FwSetup.hchains

ASSUME FwProtection \in BOOLEAN /\ FwSetup.err = 0
       /\ FwTfm \in Tfms /\ FwHchains \in Nat \ {0}

VARIABLE
    conn   \* the connection: tfms (esp_prot_tfms of the R1), and esp[h], the
           \* esp_tuples of the direction whose packets h sends

allvars == <<vars, conn>>

\* The ESP-protection part of an esp_tuple: esp_prot_tfm and the active
\* anchors, one per parallel chain (first_active_anchors is the same copy).
\* calloc leaves it UNUSED with zero anchors.
NewEspTuple == [tfm |-> UNUSED, active |-> [i \in 1..FwHchains |-> NoAnchor]]

FwInit == conn = [tfms |-> <<>>, esp |-> [h \in Host |-> <<>>]]

\* The loop of esp_prot_conntrack_I2_anchor and _R2_anchor over the
\* firewall's parallel chains: the number of leading ESP_PROT_ANCHOR
\* parameters with transform t that it stores before one is missing or has
\* another transform (the parameter after the last anchor is not one).
AnchorRun(ps, t) ==
    LET good(i) == i <= Len(ps) /\ ps[i].tfm = t
    IN  IF \A i \in 1..FwHchains : good(i) THEN FwHchains
        ELSE Min({i \in 1..FwHchains : ~good(i)}) - 1

\* esp_prot_conntrack_R1_tfms: with protection on, reset the connection's
\* transforms and store the R1's, each one the firewall does not use
\* replaced by UNUSED.
esp_prot_conntrack_R1_tfms(c, m) ==
    IF ~FwProtection THEN c
    ELSE [c EXCEPT !.tfms = [i \in DOMAIN m.tfms |->
                                IF m.tfms[i] = FwTfm THEN m.tfms[i] ELSE UNUSED]]

\* esp_prot_conntrack_I2_anchor: with protection on and an anchor in the
\* I2, the I2's direction must have no esp_tuple yet (-1); the anchor's
\* transform must be one the R1 offered (1) and not UNUSED (1); then one
\* anchor per chain with that transform is stored (-1 if one is missing)
\* and the new esp_tuple is appended.  On an error the tuple is freed.
esp_prot_conntrack_I2_anchor(c, m) ==
    LET d == m.src
        t == m.prot[1].tfm
    IN  CASE ~FwProtection \/ m.prot = <<>>        -> [err |-> 0, conn |-> c]
          [] c.esp[d] # <<>>                        -> [err |-> -1, conn |-> c]
          [] ~esp_prot_check_transform(c.tfms, t)   -> [err |-> 1, conn |-> c]
          [] t = UNUSED                             -> [err |-> 1, conn |-> c]
          [] AnchorRun(m.prot, t) < FwHchains       -> [err |-> -1, conn |-> c]
          [] OTHER ->
               [err |-> 0,
                conn |-> [c EXCEPT !.esp[d] = Append(@,
                            [tfm |-> t, active |-> [i \in 1..FwHchains |-> m.prot[i].a]])]]

\* esp_prot_conntrack_R2_anchor: with protection on and an anchor in the
\* R2 whose transform the R1 offered, the R2's direction must hold exactly
\* one esp_tuple (-1 for several; with none, tuple->esp_tuples->next is a
\* NULL dereference, which the model never reaches because an accepted I2
\* creates it).  The transform is written to it; UNUSED then fails (1),
\* otherwise the anchors are copied one by one, and a missing one fails
\* (-1) with the ones before it already overwritten.
esp_prot_conntrack_R2_anchor(c, m) ==
    LET d == m.src
        t == m.prot[1].tfm
        put(k) == [c EXCEPT !.esp[d] = <<[@[1] EXCEPT !.tfm = t,
                      !.active = [i \in 1..FwHchains |->
                                     IF i <= k THEN m.prot[i].a ELSE @[i]]]>>]
    IN  CASE ~FwProtection \/ m.prot = <<>>        -> [err |-> 0, conn |-> c]
          [] ~esp_prot_check_transform(c.tfms, t)   -> [err |-> 1, conn |-> c]
          [] Len(c.esp[d]) > 1                      -> [err |-> -1, conn |-> c]
          [] t = UNUSED                             -> [err |-> 1, conn |-> put(0)]
          [] AnchorRun(m.prot, t) < FwHchains       ->
               [err |-> -1, conn |-> put(AnchorRun(m.prot, t))]
          [] OTHER                                  -> [err |-> 0, conn |-> put(FwHchains)]

\* The firewall's handling of a control packet (the conntrack handlers of
\* hipfw, not in this tree): the esp_prot_conntrack function of the packet
\* type is called, and a nonzero result drops the packet ("DROPPING").  An
\* accepted I2 also sets up the esp_tuple of the reply direction, where the
\* SPI it announces is used (spec 4.H: the I2 captures the SPI).
FwFilter(c, m) ==
    CASE m.type = "R1" -> [err |-> 0, conn |-> esp_prot_conntrack_R1_tfms(c, m)]
      [] m.type = "I2" ->
           LET r == esp_prot_conntrack_I2_anchor(c, m)
           IN  IF r.err # 0 THEN r
               ELSE [r EXCEPT !.conn.esp[Peer(m.src)] =
                                 IF @ = <<>> THEN <<NewEspTuple>> ELSE @]
      [] m.type = "R2" -> esp_prot_conntrack_R2_anchor(c, m)
      [] OTHER -> [err |-> 0, conn |-> c]

-----------------------------------------------------------------------------

\* The firewall handles a packet in flight; if it accepts it, the
\* destination host receives it (Recv of HipBex), otherwise it is dropped
\* there.  The packet stays in flight: the network may deliver it again.
FwDeliver(m) ==
    LET r == FwFilter(conn, m) IN
    /\ conn' = r.conn
    /\ IF r.err = 0 THEN Recv(m) ELSE UNCHANGED vars

\* The firewall accepts a packet, and the network behind it loses it.
FwLose(m) ==
    LET r == FwFilter(conn, m) IN
    /\ losses < MaxLoss
    /\ r.err = 0
    /\ conn' = r.conn
    /\ net' = net \ {m}
    /\ losses' = losses + 1
    /\ UNCHANGED <<ha, sa, r1gen, spiNext, jNext, restarts, adb>>

FwNext ==
    \/ /\ \/ \E h \in Initiators : TriggerBexMsg(h) \/ HandleAcquire(h)
          \/ \E h \in Host : Retransmit(h) \/ RotateR1(h) \/ Restart(h)
          \/ Lose
       /\ UNCHANGED conn
    \/ \E m \in net : FwDeliver(m) \/ FwLose(m)

FwSpec == Init /\ FwInit /\ [][FwNext]_allvars

\* Host h receives, through the firewall, a packet of type t.
FwDeliverAt(h, t) == \E m \in net : m.dst = h /\ m.type = t /\ FwDeliver(m)

\* The fairness of HipBex's FairSpec, with delivery through the firewall:
\* the firewall handles every packet that keeps arriving, and so does the
\* host it lets the packet through to.
FwFairSpec ==
    /\ FwSpec
    /\ \A h \in Initiators : WF_allvars(HandleAcquire(h) /\ UNCHANGED conn)
    /\ \A h \in Host, t \in Types : WF_allvars(FwDeliverAt(h, t))
    /\ \A h \in Host : WF_allvars(Retransmit(h) /\ UNCHANGED conn)

=============================================================================
