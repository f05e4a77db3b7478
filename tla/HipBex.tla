------------------------------- MODULE HipBex -------------------------------
(***************************************************************************)
(* The HIP base exchange I1 -> R1 -> I2 -> R2 between two hosts, as the    *)
(* daemon's control-packet input path implements it (libhipl/input.c):    *)
(* hip_receive_control_packet, packet_to_drop and the handler chains      *)
(* check_*/handle_* per packet type, hip_setup_ipsec_sa and                *)
(* hip_update_retransmissions, plus the BEX trigger of libhipl/netdev.c.   *)
(*                                                                         *)
(* Each host holds at most one host association (HA) with its peer.  The  *)
(* network is a set of messages: receiving a message does not remove it,  *)
(* so every message may be delivered any number of times (duplication and *)
(* reordering); Lose removes it.  HITs are the host identifiers, ordered  *)
(* as integers, which is what hip_hit_is_bigger compares.                 *)
(*                                                                         *)
(* Cryptography is abstracted to identities: the puzzle I of an R1 is the *)
(* generation of the responder's R1 cache, a solution J is <<I, n>> with *)
(* n fresh (J starts from RAND_bytes) and solves exactly the puzzle it    *)
(* was computed for, the keying material is                              *)
(* the pair <<I, J>> (the DH secret is common to both sides), and an HMAC *)
(* is the key material it was computed with.  Signatures always verify:   *)
(* both hosts are honest, the adversary only delays, duplicates, reorders *)
(* and drops packets.                                                      *)
(*                                                                         *)
(* The ESP-protection parameters of the exchange (esp_prot_hipd_msg.c)    *)
(* are part of the same chains: the R1 carries the responder's transforms, *)
(* the I2 and the R2 the anchors of the sender's hash chains, and the SA  *)
(* pair carries the transform and the anchors hip_add_sa hands to the     *)
(* userspace sadb (esp_prot_sa_add).  An anchor is <<h, k>>, the k-th one  *)
(* host h took from its anchor database; <<0, 0>> is the all-zero anchor. *)
(***************************************************************************)
EXTENDS Integers, FiniteSets, SequencesExt

CONSTANTS
    Host,         \* the two HITs, as integers
    MaxGen,       \* bound on R1 cache generations (rotations + restarts)
    MaxSolve,     \* bound on puzzles solved (each draws a fresh random J)
    MaxSpi,       \* bound on SPIs acquired over the whole run
    MaxRestarts,  \* bound on daemon restarts
    MaxLoss,      \* bound on packets lost by the network
    Initiators,   \* hosts whose applications trigger a base exchange
    Restarting,   \* hosts whose daemon may restart
    Userspace,    \* hosts with hip_use_userspace_ipsec
    TokenTfm,     \* TokenTfm[h]: token_transform of h's firewall (0: protection off)
    Hchains,      \* Hchains[h]: esp_prot_num_parallel_hchains of h
    AnchorStock   \* AnchorStock[h]: anchors in h's anchor database

ASSUME /\ Cardinality(Host) = 2 /\ Host \subseteq Nat
       /\ Initiators \subseteq Host /\ Restarting \subseteq Host
       /\ Userspace \subseteq Host /\ TokenTfm \in [Host -> 0..2]
       /\ Hchains \in [Host -> Nat \ {0}] /\ AnchorStock \in [Host -> Nat]

VARIABLES
    ha,        \* ha[h]: host h's association with its peer (state "NONE": none)
    sa,        \* sa[h]: the inbound and outbound SA pair installed by h
    net,       \* the set of control packets in flight
    r1gen,     \* r1gen[h]: generation of h's R1 cache (the puzzle I it issues)
    spiNext,   \* next SPI to hand out (hip_acquire_spi)
    jNext,     \* next fresh random value for a puzzle solution J
    restarts,  \* number of daemon restarts so far
    losses,    \* number of packets the network has lost so far
    adb        \* adb[h]: anchors host h has taken from its anchor database

vars == <<ha, sa, net, r1gen, spiNext, jNext, restarts, losses, adb>>

Peer(h) == CHOOSE p \in Host : p # h

\* hip_hit_is_bigger(a, b)
hit_is_bigger(a, b) == a > b

\* The enum hip_state values the base exchange reaches; FAILED and the
\* CLOSING/CLOSED states of a close, and the firewall-only ones, are not.
States == {"NONE", "UNASSOCIATED", "I1_SENT", "I2_SENT", "R2_SENT", "ESTABLISHED"}
Types  == {"I1", "R1", "I2", "R2"}
Gens   == 1..MaxGen
Nonces == 1..MaxSolve
Sols   == Gens \X Nonces
NoSol  == <<0, 0>>
NoKeys == <<0, NoSol>>
Spis   == 1..MaxSpi

\* ESP-protection transforms: ESP_PROT_TFM_UNUSED, _PLAIN and _PARALLEL.
UNUSED   == 0
Tfms     == 0..2
NoAnchor == <<0, 0>>
Anchors  == {NoAnchor} \cup UNION {{h} \X (1..AnchorStock[h]) : h \in Host}
MaxHchains == Max({Hchains[h] : h \in Host})
\* An ESP_PROT_ANCHOR parameter: its transform and one anchor.  A message
\* carries a sequence of them, one per parallel hash chain.
ProtParam  == [tfm : Tfms, a : Anchors]
ProtParams == UNION {[1..k -> ProtParam] : k \in 0..MaxHchains}
\* The ESP-protection context esp_prot_sa_add passes with an SA: the
\* transform, and the anchors when it is not UNUSED.
EspCtx == Tfms \X UNION {[1..k -> Anchors] : k \in 0..MaxHchains}
NoCtx  == <<UNUSED, <<>>>>

\* hip_solve_puzzle / hip_verify_cookie: J solves I iff it was computed for I
Solves(i, j) == j[1] = i

Msg == [type : Types, src : Host, dst : Host, puz : Gens \cup {0},
        sol : (Gens \cup {0}) \X (Sols \cup {NoSol}), spi : Spis \cup {0},
        hmac : (Gens \X Sols) \cup {NoKeys},
        tfms : UNION {[1..k -> Tfms] : k \in 0..2}, prot : ProtParams]

Packet(t, s, d) == [type |-> t, src |-> s, dst |-> d, puz |-> 0,
                    sol |-> <<0, NoSol>>, spi |-> 0, hmac |-> NoKeys,
                    tfms |-> <<>>, prot |-> <<>>]

\* A host association as hip_hadb_create_state leaves it.  puzzle_i and
\* puzzle_solution, the keying material, spi_inbound_current,
\* spi_outbound_new, the retransmission slots hip_msg_retrans, and the
\* ESP-protection fields esp_prot_transform, esp_prot_param,
\* esp_local_anchors and esp_peer_anchors (zeroed, one per parallel chain).
NewHA(h, st, spi) ==
    [state |-> st, puzzle_i |-> 0, puzzle_solution |-> NoSol,
     keys |-> NoKeys, spi_in |-> spi, spi_out |-> 0, retrans |-> {},
     esp_prot_transform |-> UNUSED, esp_prot_param |-> 0,
     local |-> [i \in 1..Hchains[h] |-> NoAnchor],
     peer  |-> [i \in 1..Hchains[h] |-> NoAnchor]]
NoHA(h) == NewHA(h, "NONE", 0)
NoSA  == [in |-> <<0, NoKeys, NoCtx>>, out |-> <<0, NoKeys, NoCtx>>]

Init ==
    /\ ha = [h \in Host |-> NoHA(h)]
    /\ sa = [h \in Host |-> NoSA]
    /\ net = {}
    /\ r1gen = [h \in Host |-> 1]
    /\ spiNext = 1
    /\ jNext = 1
    /\ restarts = 0
    /\ losses = 0
    /\ adb = [h \in Host |-> 0]

-----------------------------------------------------------------------------
(* Triggering a base exchange (netdev.c)                                   *)

\* netdev_trigger_bex: create the HA if there is none, then send_i1 unless an
\* I1 is already queued for retransmission.  hip_send_i1 (output.c, not in
\* this tree) sends the I1, queues it, and moves UNASSOCIATED to I1_SENT.
netdev_trigger_bex(h) ==
    LET p   == Peer(h)
        e   == IF ha[h].state = "NONE" THEN NewHA(h, "UNASSOCIATED", 0) ELSE ha[h]
        i1  == Packet("I1", h, p)
        st  == IF e.state = "UNASSOCIATED" THEN "I1_SENT" ELSE e.state
    IN  IF \E m \in e.retrans : m.type = "I1"
        THEN /\ ha' = [ha EXCEPT ![h] = e]
             /\ UNCHANGED net
        ELSE /\ ha' = [ha EXCEPT ![h] = [e EXCEPT !.state = st,
                                                  !.retrans = @ \cup {i1}]]
             /\ net' = net \cup {i1}

\* hip_netdev_trigger_bex_msg: a user request, whatever the HA's state
TriggerBexMsg(h) ==
    /\ netdev_trigger_bex(h)
    /\ UNCHANGED <<sa, r1gen, spiNext, jNext, restarts, losses, adb>>

\* netdev_handle_acquire: a kernel ACQUIRE triggers only while not ESTABLISHED
HandleAcquire(h) ==
    /\ ha[h].state # "ESTABLISHED"
    /\ netdev_trigger_bex(h)
    /\ UNCHANGED <<sa, r1gen, spiNext, jNext, restarts, losses, adb>>


-----------------------------------------------------------------------------
(* ESP-protection parameters of the base exchange (esp_prot_hipd_msg.c)   *)

\* esp_prot_transforms and esp_prot_num_parallel_hchains, as h's firewall
\* sets them (esp_prot_set_preferred_transforms): its token transform
\* first, then UNUSED, which is always sent; UNUSED alone when protection
\* is off.
esp_prot_transforms(h) ==
    IF TokenTfm[h] = UNUSED THEN <<UNUSED>> ELSE <<TokenTfm[h], UNUSED>>

\* esp_prot_check_transform: the transform is one of the list's.
esp_prot_check_transform(list, t) == t \in Range(list)

\* esp_prot_select_transform: the first of h's own transforms, in h's order
\* of preference, that the peer offers; UNUSED if there is none.
esp_prot_select_transform(h, offered) ==
    LET own == esp_prot_transforms(h)
        k   == SelectInSeq(own, LAMBDA t : t \in Range(offered))
    IN  IF k = 0 THEN UNUSED ELSE own[k]

\* esp_prot_r1_add_transforms: the R1 carries h's transforms when h uses
\* userspace IPsec, and no ESP_PROT_TRANSFORMS parameter otherwise.
esp_prot_r1_add_transforms(h) ==
    IF h \in Userspace THEN esp_prot_transforms(h) ELSE <<>>

\* esp_prot_r1_handle_transforms: record whether the R1 offered transforms
\* and select one; UNUSED without userspace IPsec or without the parameter.
esp_prot_r1_handle_transforms(h, e, m) ==
    CASE h \notin Userspace -> [e EXCEPT !.esp_prot_transform = UNUSED]
      [] m.tfms # <<>> ->
           [e EXCEPT !.esp_prot_param = 1,
                     !.esp_prot_transform = esp_prot_select_transform(h, m.tfms)]
      [] OTHER -> [e EXCEPT !.esp_prot_param = 0, !.esp_prot_transform = UNUSED]

\* The anchors h takes from its anchor database (anchor_db_get_anchor), one
\* per parallel chain, after the ones it has already taken.
NextAnchors(h) == [i \in 1..Hchains[h] |-> <<h, adb[h] + i>>]

\* The ESP_PROT_ANCHOR parameters for the anchors as, and the one that
\* announces the fallback to UNUSED (no anchor).
AnchorParams(t, as) == [i \in DOMAIN as |-> [tfm |-> t, a |-> as[i]]]
FallbackParam == <<[tfm |-> UNUSED, a |-> NoAnchor]>>

\* Shared by esp_prot_i2_add_anchor and esp_prot_r2_add_anchor: with a
\* transform agreed and enough anchors in the database, take one per chain,
\* put them in the message and store them as esp_local_anchors; with too
\* few, fall back to UNUSED and tell the peer so.  The result is the new
\* HA, the parameters and the number of anchors taken.
AddAnchors(h, e) ==
    IF AnchorStock[h] - adb[h] >= Hchains[h]
    THEN [ha |-> [e EXCEPT !.local = NextAnchors(h)],
          prot |-> AnchorParams(e.esp_prot_transform, NextAnchors(h)),
          taken |-> Hchains[h]]
    ELSE [ha |-> [e EXCEPT !.esp_prot_transform = UNUSED],
          prot |-> FallbackParam, taken |-> 0]

\* esp_prot_i2_add_anchor, run when the I2 is built.  Without an agreed
\* transform, the I2 answers an R1 that offered transforms with an UNUSED
\* anchor parameter, and otherwise carries none.
esp_prot_i2_add_anchor(h, e) ==
    CASE e.esp_prot_transform > UNUSED -> AddAnchors(h, e)
      [] e.esp_prot_param = 1 ->
           [ha |-> [e EXCEPT !.esp_prot_transform = UNUSED],
            prot |-> FallbackParam, taken |-> 0]
      [] OTHER ->
           [ha |-> [e EXCEPT !.esp_prot_transform = UNUSED],
            prot |-> <<>>, taken |-> 0]

\* esp_prot_r2_add_anchor, run when the R2 is built: like the I2 case, but
\* without an agreed transform nothing is added.
esp_prot_r2_add_anchor(h, e) ==
    IF e.esp_prot_transform > UNUSED
    THEN AddAnchors(h, e)
    ELSE [ha |-> [e EXCEPT !.esp_prot_transform = UNUSED],
          prot |-> <<>>, taken |-> 0]

\* The loop of esp_prot_i2_handle_anchor and esp_prot_r2_handle_anchor
\* that stores the peer's anchors: for each of h's parallel chains the
\* next parameter must be an ESP_PROT_ANCHOR with the agreed transform t
\* (past the last anchor comes the HMAC, which is not); the anchors read
\* before a mismatch are stored, and the mismatch fails the handler.
StorePeerAnchors(h, e, ps, t) ==
    LET good(i) == i <= Len(ps) /\ ps[i].tfm = t
        k == IF \A i \in 1..Hchains[h] : good(i) THEN Hchains[h]
             ELSE Min({i \in 1..Hchains[h] : ~good(i)}) - 1
    IN  [ok |-> k = Hchains[h],
         ha |-> [e EXCEPT !.peer = [i \in 1..Hchains[h] |->
                                       IF i <= k THEN ps[i].a ELSE @[i]]]]

\* esp_prot_i2_handle_anchor: with userspace IPsec and a transform besides
\* UNUSED, take the transform of the first anchor parameter if h supports
\* it, and store the peer's anchors unless it is UNUSED; in every other
\* case fall back to UNUSED.  Fails on a missing or mismatching anchor.
esp_prot_i2_handle_anchor(h, e, m) ==
    LET unused == [ok |-> TRUE, ha |-> [e EXCEPT !.esp_prot_transform = UNUSED]]
        t      == m.prot[1].tfm
    IN  CASE h \notin Userspace \/ Len(esp_prot_transforms(h)) <= 1 -> unused
          [] m.prot = <<>> -> unused
          [] ~esp_prot_check_transform(esp_prot_transforms(h), t) -> unused
          [] t = UNUSED -> unused
          [] OTHER ->
               StorePeerAnchors(h, [e EXCEPT !.esp_prot_transform = t], m.prot, t)

\* esp_prot_r2_handle_anchor: only when a transform was agreed, and only an
\* anchor with that transform is taken; anything else (no anchor, the
\* peer's fallback to UNUSED, another transform) falls back to UNUSED.
esp_prot_r2_handle_anchor(h, e, m) ==
    LET unused == [ok |-> TRUE, ha |-> [e EXCEPT !.esp_prot_transform = UNUSED]]
    IN  CASE e.esp_prot_transform = UNUSED -> unused
          [] m.prot = <<>> -> unused
          [] m.prot[1].tfm # e.esp_prot_transform -> unused
          [] OTHER -> StorePeerAnchors(h, e, m.prot, e.esp_prot_transform)

\* esp_prot_sa_add for an SA of the base exchange: the transform, and the
\* local anchors for the outbound SA or the peer's for the inbound one when
\* the transform is not UNUSED.
esp_prot_sa_add(e, anchors) ==
    IF e.esp_prot_transform > UNUSED
    THEN <<e.esp_prot_transform, anchors>>
    ELSE NoCtx

-----------------------------------------------------------------------------
(* Control packet input (input.c)                                          *)

\* Variant of packet_to_drop whose I2_SENT case falls through to the
\* R2_SENT and ESTABLISHED cases (a missing break).
packet_to_drop_fallthrough(h, t) ==
    ha[h].state \in {"I2_SENT", "R2_SENT", "ESTABLISHED"} /\ t \in {"R1", "R2"}

\* packet_to_drop: in R2_SENT and ESTABLISHED a late R1 or R2 is dropped
\* (R2_SENT falls through to the ESTABLISHED case); in I2_SENT only the
\* shotgun case drops R1, and shotgun mode is off.
packet_to_drop(h, t) ==
    ha[h].state \in {"R2_SENT", "ESTABLISHED"} /\ t \in {"R1", "R2"}

\* hip_update_retransmissions: an incoming I1 clears our queued I1 only when
\* our HIT is the bigger one; an R1, I2 or R2 clears every queued packet.
hip_update_retransmissions(e, h, t) ==
    CASE e.state = "NONE" -> e
      [] t = "I1" -> [e EXCEPT !.retrans =
                        IF hit_is_bigger(h, Peer(h))
                        THEN {m \in @ : m.type # "I1"} ELSE @]
      [] OTHER -> [e EXCEPT !.retrans = {}]

\* hip_handle_i1: in I1_SENT, an I1 from a peer with the bigger HIT is dropped
hip_handle_i1_drops(h, m) ==
    ha[h].state = "I1_SENT" /\ hit_is_bigger(m.src, h)

\* The I1 chain (hip_check_i1, hip_handle_i1, then the stateless R1 from the
\* R1 cache and hip_update_retransmissions).  An I1 never creates an HA.
RecvI1(m) ==
    LET h == m.dst IN
    /\ m.type = "I1"
    /\ IF hip_handle_i1_drops(h, m)
       THEN UNCHANGED <<ha, net>>
       ELSE /\ ha' = [ha EXCEPT ![h] = hip_update_retransmissions(@, h, "I1")]
            /\ net' = net \cup {[Packet("R1", h, m.src)
                                    EXCEPT !.puz = r1gen[h],
                                           !.tfms = esp_prot_r1_add_transforms(h)]}
    /\ UNCHANGED <<sa, r1gen, spiNext, jNext, restarts, losses, adb>>

\* produce_keying_material: the keymat is drawn from the DH secret (common
\* to both sides), the two HITs and the puzzle's I and J; each side draws
\* its in and out keys in the order given by we_are_HITg, so both hold
\* the same keys, identified here by I and J.
produce_keying_material(i, j) == <<i, j>>

\* Variant of hip_handle_r1 that runs produce_keying_material before the
\* new puzzle_solution is stored, so the keys use the previous one.
hip_handle_r1_keys_first(e, m) ==
    LET retransmission == e.state = "I2_SENT"
        i == IF retransmission THEN e.puzzle_i ELSE m.puz
        j == IF retransmission THEN e.puzzle_solution ELSE <<m.puz, jNext>>
    IN  [e EXCEPT !.puzzle_i = i, !.puzzle_solution = j,
                  !.keys = <<i, e.puzzle_solution>>]

\* Variant of hip_handle_r1 that solves the puzzle of every R1 afresh,
\* also when the HA is already in I2_SENT.
hip_handle_r1_resolves(e, m) ==
    [e EXCEPT !.puzzle_i = m.puz, !.puzzle_solution = <<m.puz, jNext>>,
              !.keys = <<m.puz, <<m.puz, jNext>>>>]

\* hip_handle_r1: unless this is a retransmission (the HA is already in
\* I2_SENT), solve the R1's puzzle with a fresh J and store I and J in the
\* HA; produce_keying_material then derives the keys from the STORED
\* puzzle_i and puzzle_solution.
hip_handle_r1(e, m) ==
    LET retransmission == e.state = "I2_SENT"
        i == IF retransmission THEN e.puzzle_i ELSE m.puz
        j == IF retransmission THEN e.puzzle_solution ELSE <<m.puz, jNext>>
    IN  [e EXCEPT !.puzzle_i = i, !.puzzle_solution = j,
                  !.keys = produce_keying_material(i, j)]

\* hip_build_solution: the SOLUTION parameter of the I2 copies the PUZZLE of
\* the R1 being answered and takes J from the HA's stored solution.
hip_build_solution(e, m) == <<m.puz, e.puzzle_solution>>

\* The R1 chain, registered for I1_SENT and I2_SENT: hip_check_r1,
\* hip_handle_r1, hip_update_retransmissions (clears the queue), then
\* hip_build_solution and the I2 send that queues the I2 and enters
\* I2_SENT.  The initiator's inbound SPI is acquired with its first I2.
\* esp_prot_r1_handle_transforms selects the transform, and the I2 built
\* for every R1 takes fresh anchors (esp_prot_i2_add_anchor).
RecvR1(m) ==
    LET h   == m.dst
        e   == ha[h]
        retransmission == e.state = "I2_SENT"
        spi == IF e.spi_in = 0 THEN spiNext ELSE e.spi_in
        e1  == hip_handle_r1(esp_prot_r1_handle_transforms(h, e, m), m)
        add == esp_prot_i2_add_anchor(h, e1)
        i2  == [Packet("I2", h, m.src) EXCEPT !.sol = hip_build_solution(e1, m),
                                               !.spi = spi, !.hmac = e1.keys,
                                               !.prot = add.prot]
    IN
    /\ m.type = "R1"
    /\ IF packet_to_drop(h, "R1") \/ e.state \notin {"I1_SENT", "I2_SENT"}
       THEN UNCHANGED <<ha, net, spiNext, jNext, adb>>
       ELSE /\ e.spi_in = 0 => spiNext <= MaxSpi
            /\ ~retransmission => jNext <= MaxSolve
            /\ jNext' = IF retransmission THEN jNext ELSE jNext + 1
            /\ ha' = [ha EXCEPT ![h] =
                    [hip_update_retransmissions(add.ha, h, "R1")
                        EXCEPT !.state = "I2_SENT", !.spi_in = spi,
                               !.retrans = @ \cup {i2}]]
            /\ adb' = [adb EXCEPT ![h] = @ + add.taken]
            /\ spiNext' = IF e.spi_in = 0 THEN spiNext + 1 ELSE spiNext
            /\ net' = net \cup {i2}
    /\ UNCHANGED <<sa, r1gen, restarts, losses>>

\* Variant of i2_is_retransmission that compares the I2's SPI with the HA's
\* inbound SPI instead of the recorded outbound one.
i2_is_retransmission_in(e, m) == e.state # "NONE" /\ e.spi_in = m.spi

\* i2_is_retransmission: the I2 repeats the ESP_INFO (new SPI, keymat index)
\* already recorded in the HA; the keymat index is always the default one.
i2_is_retransmission(e, m) == e.state # "NONE" /\ e.spi_out = m.spi

\* hip_verify_cookie (cookie.c, not in this tree): the I must be the puzzle
\* of the current R1 cache and J must solve it.
hip_verify_cookie(h, m) == m.sol[1] = r1gen[h] /\ Solves(m.sol[1], m.sol[2])

\* hip_verify_packet_hmac: the HMAC parameter verifies iff it was computed
\* with the keys the receiver holds.
hip_verify_packet_hmac(m, keys) == m.hmac = keys

\* hip_handle_i2_in_i2_sent, registered for I2_SENT only: the I2 of a peer
\* with the bigger HIT is dropped.
hip_handle_i2_in_i2_sent(h, m) ==
    ha[h].state = "I2_SENT" /\ hit_is_bigger(m.src, h)

\* hip_handle_i2 and hip_handle_r2: record the peer's SPI from ESP_INFO,
\* handle the ESP-protection anchor (esp_prot_i2_handle_anchor,
\* esp_prot_r2_handle_anchor) and enter ESTABLISHED.  A failed anchor
\* aborts the chain with the SPI and the anchors read so far recorded.
hip_handle_i2(h, e, m) ==
    LET r == esp_prot_i2_handle_anchor(h, [e EXCEPT !.spi_out = m.spi], m)
    IN  [r EXCEPT !.ha = IF r.ok THEN [@ EXCEPT !.state = "ESTABLISHED"] ELSE @]

hip_handle_r2(h, e, m) ==
    LET r == esp_prot_r2_handle_anchor(h, [e EXCEPT !.spi_out = m.spi], m)
    IN  [r EXCEPT !.ha = IF r.ok THEN [@ EXCEPT !.state = "ESTABLISHED"] ELSE @]

\* hip_setup_ipsec_sa: delete the old SA pair and create the new one from
\* the HA's SPIs and keys, with the ESP-protection context of each.
hip_setup_ipsec_sa(e) ==
    [in  |-> <<e.spi_in, e.keys, esp_prot_sa_add(e, e.peer)>>,
     out |-> <<e.spi_out, e.keys, esp_prot_sa_add(e, e.local)>>]

\* The I2 chain, registered for every state.  hip_handle_i2_in_i2_sent drops
\* the I2 of a peer with the bigger HIT.  hip_check_i2 then, unless the I2 is
\* a retransmission, deletes the existing HA (and its SAs) and inserts a new
\* one BEFORE checking anything; it verifies the cookie, produces the keying
\* material from the I2's SOLUTION (kept on a retransmission) and verifies
\* the HMAC.  hip_handle_i2 records the peer's SPI and anchors and enters
\* ESTABLISHED (a failed anchor aborts the chain there),
\* hip_update_retransmissions clears the queue, and the R2 is built with
\* fresh anchors (esp_prot_r2_add_anchor), sent and queued.  Following
\* spec 4.F (send R2, then install the outbound SA), hip_setup_ipsec_sa
\* replaces the SA pair with the anchors the R2 announced.  A responder HA
\* acquires its inbound SPI when it is created.
RecvI2(m) ==
    LET h     == m.dst
        e     == ha[h]
        retx  == i2_is_retransmission(e, m)
        base  == IF retx THEN e ELSE NewHA(h, "UNASSOCIATED", spiNext)
        keys  == IF retx THEN e.keys ELSE produce_keying_material(m.sol[1], m.sol[2])
        sa0   == IF retx THEN sa[h] ELSE NoSA
        hd    == hip_handle_i2(h, [base EXCEPT !.keys = keys], m)
        add   == esp_prot_r2_add_anchor(h, hd.ha)
        r2    == [Packet("R2", h, m.src) EXCEPT !.spi = base.spi_in, !.hmac = keys,
                                                !.prot = add.prot]
    IN
    /\ m.type = "I2"
    /\ IF hip_handle_i2_in_i2_sent(h, m)
       THEN UNCHANGED <<ha, sa, net, spiNext, adb>>
       ELSE /\ ~retx => spiNext <= MaxSpi
            /\ spiNext' = IF retx THEN spiNext ELSE spiNext + 1
            /\ CASE ~hip_verify_cookie(h, m) ->
                      /\ ha' = [ha EXCEPT ![h] = base]
                      /\ sa' = [sa EXCEPT ![h] = sa0]
                      /\ UNCHANGED <<net, adb>>
                 [] ~hip_verify_packet_hmac(m, keys) ->
                      /\ ha' = [ha EXCEPT ![h] = [base EXCEPT !.keys = keys]]
                      /\ sa' = [sa EXCEPT ![h] = sa0]
                      /\ UNCHANGED <<net, adb>>
                 [] ~hd.ok ->
                      /\ ha' = [ha EXCEPT ![h] = hd.ha]
                      /\ sa' = [sa EXCEPT ![h] = sa0]
                      /\ UNCHANGED <<net, adb>>
                 [] OTHER ->
                      /\ ha' = [ha EXCEPT ![h] =
                              [hip_update_retransmissions(add.ha, h, "I2")
                                  EXCEPT !.retrans = @ \cup {r2}]]
                      /\ sa' = [sa EXCEPT ![h] = hip_setup_ipsec_sa(add.ha)]
                      /\ adb' = [adb EXCEPT ![h] = @ + add.taken]
                      /\ net' = net \cup {r2}
    /\ UNCHANGED <<r1gen, jNext, restarts, losses>>

\* hip_check_r2: HMAC2 is verified with the HA's keying material.
hip_check_r2(e, m) == m.hmac = e.keys

\* The R2 chain, registered for I2_SENT: hip_check_r2 verifies HMAC2 with
\* the HA's keys, hip_handle_r2 records the peer's SPI and anchors and
\* enters ESTABLISHED (a failed anchor aborts the chain there),
\* hip_setup_ipsec_sa replaces the SA pair and hip_update_retransmissions
\* clears the queue.
RecvR2(m) ==
    LET h == m.dst
        e == ha[h]
    IN
    /\ m.type = "R2"
    /\ IF packet_to_drop(h, "R2") \/ e.state # "I2_SENT" \/ ~hip_check_r2(e, m)
       THEN UNCHANGED <<ha, sa>>
       ELSE LET hd == hip_handle_r2(h, e, m) IN
            IF ~hd.ok
            THEN /\ ha' = [ha EXCEPT ![h] = hd.ha]
                 /\ UNCHANGED sa
            ELSE /\ ha' = [ha EXCEPT ![h] = hip_update_retransmissions(hd.ha, h, "R2")]
                 /\ sa' = [sa EXCEPT ![h] = hip_setup_ipsec_sa(hd.ha)]
    /\ UNCHANGED <<net, r1gen, spiNext, jNext, restarts, losses, adb>>

-----------------------------------------------------------------------------
(* Timers, the network and the daemon's life cycle                         *)

\* The retransmission timer resends a queued packet.
Retransmit(h) ==
    /\ \E m \in ha[h].retrans : net' = net \cup {m}
    /\ net' # net
    /\ UNCHANGED <<ha, sa, r1gen, spiNext, jNext, restarts, losses, adb>>

\* The network loses a packet.
Lose ==
    /\ losses < MaxLoss
    /\ \E m \in net : net' = net \ {m}
    /\ losses' = losses + 1
    /\ UNCHANGED <<ha, sa, r1gen, spiNext, jNext, restarts, adb>>

\* The maintenance timer regenerates the R1 cache with a fresh puzzle I.
RotateR1(h) ==
    /\ r1gen[h] < MaxGen
    /\ r1gen' = [r1gen EXCEPT ![h] = @ + 1]
    /\ UNCHANGED <<ha, sa, net, spiNext, jNext, restarts, losses, adb>>

\* The daemon restarts: associations and SAs are in memory only and are
\* lost; the R1 cache is precreated anew.
Restart(h) ==
    /\ h \in Restarting
    /\ restarts < MaxRestarts
    /\ r1gen[h] < MaxGen
    /\ ha' = [ha EXCEPT ![h] = NoHA(h)]
    /\ sa' = [sa EXCEPT ![h] = NoSA]
    /\ r1gen' = [r1gen EXCEPT ![h] = @ + 1]
    /\ restarts' = restarts + 1
    /\ UNCHANGED <<net, spiNext, jNext, losses, adb>>

Recv(m) == RecvI1(m) \/ RecvR1(m) \/ RecvI2(m) \/ RecvR2(m)

Receive == \E m \in net : Recv(m)

\* Host h receives a packet of type t.
ReceiveAt(h, t) == \E m \in net : m.dst = h /\ m.type = t /\ Recv(m)

Next ==
    \/ \E h \in Initiators : TriggerBexMsg(h) \/ HandleAcquire(h)
    \/ Receive
    \/ \E h \in Host : Retransmit(h) \/ RotateR1(h) \/ Restart(h)
    \/ Lose

Spec == Init /\ [][Next]_vars

\* The daemon's event loop handles every packet that reaches it: a packet
\* of a given type that keeps arriving at a host is eventually processed
\* there.  The retransmission timer keeps firing while a packet is queued.
\* An initiator's application keeps sending to the peer, so the kernel keeps
\* raising ACQUIREs until the SAs are installed.
FairSpec ==
    /\ Spec
    /\ \A h \in Initiators : WF_vars(HandleAcquire(h))
    /\ \A h \in Host, t \in Types : WF_vars(ReceiveAt(h, t))
    /\ \A h \in Host : WF_vars(Retransmit(h))

-----------------------------------------------------------------------------
(* Properties                                                              *)

\* Every variable holds a value of its intended type.
TypeOK ==
    /\ ha \in [Host -> [state : States, puzzle_i : Gens \cup {0},
                        puzzle_solution : Sols \cup {NoSol},
                        keys : (Gens \X Sols) \cup {NoKeys},
                        spi_in : Spis \cup {0}, spi_out : Spis \cup {0},
                        retrans : SUBSET Msg,
                        esp_prot_transform : Tfms, esp_prot_param : {0, 1},
                        local : Seq(Anchors), peer : Seq(Anchors)]]
    /\ \A h \in Host : Len(ha[h].local) = Hchains[h] /\ Len(ha[h].peer) = Hchains[h]
    /\ sa \in [Host -> [in : (Spis \cup {0}) \X ((Gens \X Sols) \cup {NoKeys}) \X EspCtx,
                        out : (Spis \cup {0}) \X ((Gens \X Sols) \cup {NoKeys}) \X EspCtx]]
    /\ net \subseteq Msg
    /\ r1gen \in [Host -> Gens]
    /\ spiNext \in 1..(MaxSpi + 1)
    /\ jNext \in 1..(MaxSolve + 1)
    /\ restarts \in 0..MaxRestarts
    /\ losses \in 0..MaxLoss
    /\ \A h \in Host : adb[h] \in 0..AnchorStock[h]

\* Two established hosts hold the same keying material.
KeysAgree ==
    \A h \in Host :
        ha[h].state = "ESTABLISHED" /\ ha[Peer(h)].state = "ESTABLISHED"
            => ha[h].keys = ha[Peer(h)].keys

\* When both are established, each one's outbound SA is the other's inbound:
\* the same SPI, the same keys and, with ESP protection, the same transform
\* and hash-chain anchors (hip_setup_ipsec_sa with esp_prot_sa_add), so the
\* receiver can verify the sender's first protected packet.
SAsMatch ==
    \A h \in Host :
        ha[h].state = "ESTABLISHED" /\ ha[Peer(h)].state = "ESTABLISHED"
            => sa[h].out = sa[Peer(h)].in


\* Spec 7: a packet rejected by the check phase does not alter the HA, and
\* the HA is committed only after every check has passed.  An I2 that
\* hip_check_i2 rejects never takes down an established association.
RejectedI2KeepsEstablished ==
    [][\A m \in net :
         RecvI2(m) /\ ha[m.dst].state = "ESTABLISHED"
           /\ ha'[m.dst].state # "ESTABLISHED" => ha'[m.dst] = ha[m.dst]
      ]_vars

\* Once an initiator has sent its I1, both hosts eventually hold established
\* associations with the same keys, whatever the network loses (within
\* MaxLoss) or duplicates.
BexCompletes ==
    \A h \in Initiators :
        ha[h].state = "I1_SENT" ~>
            \A x \in Host : ha[x].state = "ESTABLISHED" /\ ha[x].keys = ha[h].keys

\* The refinement mapping onto BexSession, for a single initiator: the
\* session it has committed to is the keying material hip_handle_r1
\* stored in its HA, from the I2_SENT it enters with the first I2; a host
\* holds a session while its HA is ESTABLISHED.
SessInitiator == CHOOSE h \in Initiators : TRUE
Committed ==
    IF ha[SessInitiator].state \in {"I2_SENT", "ESTABLISHED"}
    THEN ha[SessInitiator].keys ELSE NoKeys
EstKeys == [h \in Host |-> IF ha[h].state = "ESTABLISHED" THEN ha[h].keys ELSE NoKeys]

Session == INSTANCE BexSession
               WITH I <- SessInitiator, R <- Peer(SessInitiator),
                    Keys <- Gens \X Sols, sess <- Committed, est <- EstKeys

\* The base exchange implements BexSession: through duplicated, reordered,
\* stale and lost packets, R1 cache rotations and responder restarts, the
\* initiator never changes the session it committed to while its HA is in
\* I2_SENT or ESTABLISHED, and every HA that hip_handle_i2 or hip_handle_r2
\* makes ESTABLISHED holds exactly that session.
BexRefinesSession == Session!Spec

\* The base exchange implements BexSession with its liveness: under the
\* fairness of FairSpec, the initiator eventually commits to a session and
\* both hosts eventually establish the session it committed to.
BexRefinesLiveSession == Session!LiveSpec

=============================================================================
