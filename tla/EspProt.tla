------------------------------ MODULE EspProt ------------------------------
(***************************************************************************)
(* The ESP-protection anchor update between two hosts and the firewall    *)
(* between them, for one direction of ESP traffic in PLAIN mode (one hash *)
(* chain at a time).                                                       *)
(*                                                                         *)
(* The sender S discloses the elements of its active hash chain in ESP    *)
(* packets; the firewall verifies each against its stored anchors         *)
(* (esp_prot_conntrack_verify).  Before S may switch to its next chain,   *)
(* the next anchor travels in an UPDATE (SEQ, ESP_PROT_ANCHOR) from S's   *)
(* hipd to the receiver R's hipd, which answers with an UPDATE (ACK,      *)
(* ESP_INFO).  The firewall caches the anchor on the first packet         *)
(* (esp_prot_conntrack_cache_anchor) and installs it as next anchor on    *)
(* the ACK (esp_prot_conntrack_update_anchor); S's hipd hands the anchor  *)
(* to its sadb when it gets the ACK (esp_prot_handle_second_update_packet, *)
(* esp_prot_sa_add), and the sadb switches when the active chain is used  *)
(* up, telling hipd (esp_prot_handle_anchor_change_msg).                   *)
(*                                                                         *)
(* Hash chains are abstract: chain c has the anchor <<c, 0>> and the       *)
(* elements <<c, 1>> .. <<c, ChainLen>>, and hashing <<c, i>> gives        *)
(* <<c, i - 1>>.  Anchor value 0 stands for the all-zero anchor.           *)
(***************************************************************************)
EXTENDS Integers, Sequences, SequencesExt

CONSTANTS
    NumChains,   \* hash chains of S: chain 1 is announced in the BEX
    ChainLen,    \* elements per chain
    Window,      \* window_size of the firewall's verifier
    SeqWidth,    \* bits of the ESP sequence number (32 in the code)
    MaxSeq,      \* ESP packets S sends
    MaxUpdates,  \* UPDATEs with SEQ that S's hipd sends
    MaxRetrans,  \* retransmissions of one UPDATE
    MaxDup,      \* packets the network delivers twice
    MaxLoss,     \* packets the network loses
    Piggyback,   \* UPDATEs with SEQ are also sent while no update anchor is set
    Attacker     \* a node on the path re-sends seen ESP packets with another seq

ASSUME /\ NumChains \in Nat \ {0} /\ ChainLen \in Nat \ {0}
       /\ MaxSeq < 2^SeqWidth
       /\ Piggyback \in BOOLEAN /\ Attacker \in BOOLEAN

VARIABLES
    local_anchor, local_update,   \* S's hipd: esp_local_anchors, esp_local_update_anchors
    update_id_out, acked, upd_out, rtx,  \* S's UPDATE sequence, last acked, last sent, retransmissions
    uc, upos, unext, eseq, trig, chg,    \* S's sadb: chain, last element used, next anchor,
                                         \* ESP seq, update triggered, anchor change pending
    peer_anchor, peer_update,     \* R's hipd: esp_peer_anchors, esp_peer_update_anchors
    fw_active, fw_first, fw_next, seq_no, cache, crashed,  \* the firewall's esp_tuple
    ctl, dlv, esp,                \* control packets to and past the firewall, ESP packets
    dups, losses

hipd_vars == <<local_anchor, local_update, update_id_out, acked, upd_out, rtx>>
sadb_vars == <<uc, upos, unext, eseq, trig, chg>>
peer_vars == <<peer_anchor, peer_update>>
fw_vars   == <<fw_active, fw_first, fw_next, seq_no, cache, crashed>>
net_vars  == <<ctl, dlv, esp, dups, losses>>
vars == <<hipd_vars, sadb_vars, peer_vars, fw_vars, net_vars>>

Chains  == 1..NumChains
Anchors == 0..NumChains
Tokens  == Chains \X (1..ChainLen)
Ids     == 1..MaxUpdates
Seqs    == 1..MaxSeq

\* Control packets: a first UPDATE carries SEQ and the anchors, the answer
\* carries the ACK of that SEQ (in field seq) and ESP_INFO.
Ctl == [type : {"UPD"}, seq : Ids, active : Chains, next : Anchors]
         \cup [type : {"ACK"}, seq : Ids, active : {0}, next : {0}]
Ack(id) == [type |-> "ACK", seq |-> id, active |-> 0, next |-> 0]
CacheItem == [seq : Ids, active : Chains, next : Anchors]

\* Unsigned arithmetic of the ESP sequence number.
U(x) == x % (2^SeqWidth)

Init ==
    /\ local_anchor = 1 /\ local_update = 0
    /\ update_id_out = 0 /\ acked = 0 /\ upd_out = Ack(1) /\ rtx = 0
    /\ uc = 1 /\ upos = 0 /\ unext = 0 /\ eseq = 0 /\ trig = FALSE /\ chg = 0
    /\ peer_anchor = 1 /\ peer_update = 0
    /\ fw_active = <<1, 0>> /\ fw_first = 1 /\ fw_next = 0 /\ seq_no = 0
    /\ cache = <<>> /\ crashed = FALSE
    /\ ctl = {} /\ dlv = {} /\ esp = {} /\ dups = 0 /\ losses = 0

\* Receiving m takes it off the wire, unless the network duplicated it.
Take(m, wire) ==
    \/ wire' = wire \ {m} /\ UNCHANGED dups
    \/ dups < MaxDup /\ dups' = dups + 1 /\ UNCHANGED wire

-----------------------------------------------------------------------------
(* S's hipd                                                                *)

\* esp_prot_handle_trigger_update_msg: take anchor a as the update anchor,
\* unless one is still set (then the call fails and changes nothing).  The
\* non-light branch sends nothing: its UPDATE trigger is a TODO in the code.
esp_prot_handle_trigger_update_msg(a) ==
    IF local_update = 0 THEN local_update' = a ELSE UNCHANGED local_update

\* The sadb asks for its next chain to be announced, once per chain.  hipd
\* reads its socket in order, so a pending anchor change is handled first.
Trigger ==
    /\ ~trig /\ chg = 0 /\ uc < NumChains
    /\ trig' = TRUE
    /\ esp_prot_handle_trigger_update_msg(uc + 1)
    /\ UNCHANGED <<local_anchor, update_id_out, acked, upd_out, rtx>>
    /\ UNCHANGED <<uc, upos, unext, eseq, chg>>
    /\ UNCHANGED <<peer_vars, fw_vars, net_vars>>

\* Variant that numbers the UPDATE with the last id instead of the next.
esp_prot_update_add_anchor_last_id(id) ==
    [type |-> "UPD", seq |-> id - 1, active |-> local_anchor, next |-> local_update]

\* esp_prot_update_add_anchor: an UPDATE with SEQ carries the active local
\* anchor and the update anchor, which is zero when none is set.
esp_prot_update_add_anchor(id) ==
    [type |-> "UPD", seq |-> id, active |-> local_anchor, next |-> local_update]

\* hipd sends an UPDATE with SEQ when the last one is acknowledged: a pure
\* anchor update, once for each update anchor, or (Piggyback) any other
\* UPDATE, which carries the anchors all the same.
SendUpdate ==
    /\ acked = update_id_out /\ update_id_out < MaxUpdates
    /\ Piggyback \/ local_update \notin {0, upd_out.next}
    /\ LET m == esp_prot_update_add_anchor(update_id_out + 1)
       IN  /\ ctl' = ctl \cup {m}
           /\ upd_out' = m
    /\ update_id_out' = update_id_out + 1
    /\ rtx' = 0
    /\ UNCHANGED <<local_anchor, local_update, acked>>
    /\ UNCHANGED <<sadb_vars, peer_vars, fw_vars, dlv, esp, dups, losses>>

\* The retransmission timer resends the queued UPDATE until its count runs
\* out or hip_update_retransmissions clears it.
Retransmit ==
    /\ update_id_out > 0 /\ rtx < MaxRetrans
    /\ upd_out \notin ctl
    /\ ctl' = ctl \cup {upd_out}
    /\ rtx' = rtx + 1
    /\ UNCHANGED <<local_anchor, local_update, update_id_out, acked, upd_out>>
    /\ UNCHANGED <<sadb_vars, peer_vars, fw_vars, dlv, esp, dups, losses>>

\* esp_prot_sa_add for an update of the outbound SA: the sadb is given the
\* update anchor that is set when the call is made.
esp_prot_sa_add == unext' = local_update

\* The class of an UPDATE by its SEQ, ACK and ESP_INFO (spec 4.F): ours
\* carry SEQ and the anchors (first) or ACK and ESP_INFO (third).
UpdateClass(m) == IF m.type = "UPD" THEN "FIRST" ELSE "THIRD"

\* update_retrans_is_invalid: an incoming second packet invalidates a
\* queued first one, an incoming third packet a queued second one.
update_retrans_is_invalid(m, queued) ==
    \/ UpdateClass(m) = "SECOND" /\ UpdateClass(queued) = "FIRST"
    \/ UpdateClass(m) = "THIRD" /\ UpdateClass(queued) = "SECOND"

\* hip_clear_retransmission: the queued UPDATE's remaining count is zeroed.
hip_clear_retransmission == rtx' = MaxRetrans

\* The ACK of the outstanding UPDATE: esp_prot_handle_second_update_packet
\* calls hip_add_sa, which hands the next anchor to the sadb.  Then
\* hip_update_retransmissions clears the queued UPDATE if the ACK
\* invalidates it (hip_clear_retransmission zeroes its count).
RecvAck(m) ==
    /\ m \in dlv /\ m.type = "ACK"
    /\ Take(m, dlv)
    /\ IF m.seq = update_id_out /\ acked < update_id_out
       THEN /\ acked' = m.seq
            /\ esp_prot_sa_add
       ELSE UNCHANGED <<acked, unext>>
    /\ IF update_retrans_is_invalid(m, upd_out)
       THEN hip_clear_retransmission ELSE UNCHANGED rtx
    /\ UNCHANGED <<local_anchor, local_update, update_id_out, upd_out>>
    /\ UNCHANGED <<uc, upos, eseq, trig, chg>>
    /\ UNCHANGED <<peer_vars, fw_vars, ctl, esp, losses>>

\* esp_prot_handle_anchor_change_msg for the outbound direction: the sadb
\* switched to anchor a, which must be the update anchor; it becomes the
\* active local anchor and the update anchor is cleared.
esp_prot_handle_anchor_change_msg(a) ==
    IF local_update = a
    THEN local_anchor' = local_update /\ local_update' = 0
    ELSE UNCHANGED <<local_anchor, local_update>>

AnchorChange ==
    /\ chg # 0
    /\ esp_prot_handle_anchor_change_msg(chg)
    /\ chg' = 0
    /\ UNCHANGED <<update_id_out, acked, upd_out, rtx>>
    /\ UNCHANGED <<uc, upos, unext, eseq, trig>>
    /\ UNCHANGED <<peer_vars, fw_vars, net_vars>>

-----------------------------------------------------------------------------
(* S's sadb                                                                *)

\* The next element S discloses: the next one of the active chain, or the
\* first one of the next chain when the active one is used up.
NextToken == IF upos < ChainLen THEN <<uc, upos + 1>> ELSE <<unext, 1>>

\* S sends an ESP packet with the next sequence number and hash element.
\* Switching chains notifies hipd of the anchor change.
SendData ==
    /\ eseq < MaxSeq
    /\ upos < ChainLen \/ unext # 0
    /\ LET t == NextToken
       IN  /\ esp' = esp \cup {[seq |-> eseq + 1, tok |-> t]}
           /\ uc' = t[1] /\ upos' = t[2]
    /\ eseq' = eseq + 1
    /\ IF upos = ChainLen
       THEN unext' = 0 /\ trig' = FALSE /\ chg' = unext
       ELSE UNCHANGED <<unext, trig, chg>>
    /\ UNCHANGED <<hipd_vars, peer_vars, fw_vars, ctl, dlv, dups, losses>>

-----------------------------------------------------------------------------
(* R's hipd                                                                *)

\* esp_prot_update_handle_anchor accepts the anchors when no update anchor
\* of the peer is set and the active one matches, when the packet's active
\* anchor is the stored update anchor (the peer moved on), or when the
\* active anchor matches (a newer update for it).
AnchorAccepted(m) ==
    IF peer_update = 0 THEN m.active = peer_anchor
    ELSE peer_update = m.active \/ m.active = peer_anchor

esp_prot_update_handle_anchor(m) ==
    /\ peer_anchor' = IF peer_update # 0 /\ peer_update = m.active
                      THEN peer_update ELSE peer_anchor
    /\ peer_update' = m.next

\* esp_prot_handle_first_update_packet: handle the anchors, then answer
\* with ACK and ESP_INFO (esp_prot_send_update_response).
RecvUpdate(m) ==
    /\ m \in dlv /\ m.type = "UPD"
    /\ Take(m, dlv)
    /\ IF AnchorAccepted(m)
       THEN /\ esp_prot_update_handle_anchor(m)
            /\ ctl' = ctl \cup {Ack(m.seq)}
       ELSE UNCHANGED <<peer_vars, ctl>>
    /\ UNCHANGED <<hipd_vars, sadb_vars, fw_vars, esp, losses>>

-----------------------------------------------------------------------------
(* The firewall                                                            *)

\* esp_prot_conntrack_find_esp_tuple: the esp_tuple is found by the first
\* active anchor it stored, which must equal the packet's active anchor.
find_esp_tuple(a) == fw_first = a

\* esp_prot_conntrack_cache_anchor: the anchors go into a new item at the
\* head of the esp_tuple's anchor_cache; a zero next anchor is stored as
\* NULL.  Nothing checks for an item with the same seq.
cache_anchor(m) ==
    cache' = <<[seq |-> m.seq, active |-> m.active, next |-> m.next]>> \o cache

\* The first cached item with the acknowledged seq, 0 if there is none.
AckedItem(m) == SelectInSeq(cache, LAMBDA it : it.seq = m.seq)

\* Variant that deletes the matching item without copying its next anchor.
update_anchor_no_copy(m) ==
    /\ cache' = RemoveAt(cache, AckedItem(m))
    /\ UNCHANGED <<fw_next, crashed>>

\* esp_prot_conntrack_update_anchor, for an item that was found: if the
\* item's active anchor is still the first active anchor, its next anchor
\* is copied into the esp_tuple (a memcpy from the item's next anchor, which
\* is NULL when the UPDATE had none: the firewall crashes); the item is then
\* deleted from the cache.
update_anchor(m) ==
    LET it == cache[AckedItem(m)]
    IN  IF it.active = fw_first /\ it.next = 0
        THEN crashed' = TRUE /\ UNCHANGED <<fw_next, cache>>
        ELSE /\ fw_next' = IF it.active = fw_first THEN it.next ELSE fw_next
             /\ cache' = RemoveAt(cache, AckedItem(m))
             /\ UNCHANGED crashed

\* esp_prot_conntrack_update classifies the UPDATE by its parameters: a
\* first packet (SEQ and ANCHOR) is cached, an ACK with ESP_INFO updates the
\* anchor.  A packet it fails on is dropped; one it handles is forwarded.
esp_prot_conntrack_update(m) ==
    CASE m.type = "UPD" /\ find_esp_tuple(m.active) ->
             /\ cache_anchor(m) /\ dlv' = dlv \cup {m}
             /\ UNCHANGED <<fw_next, crashed>>
      [] m.type = "ACK" /\ AckedItem(m) # 0 ->
             /\ update_anchor(m)
             /\ dlv' = IF crashed' THEN dlv ELSE dlv \cup {m}
      [] OTHER -> UNCHANGED <<cache, fw_next, crashed, dlv>>

FwUpdate(m) ==
    /\ ~crashed /\ m \in ctl
    /\ Take(m, ctl)
    /\ esp_prot_conntrack_update(m)
    /\ UNCHANGED <<fw_active, fw_first, seq_no>>
    /\ UNCHANGED <<hipd_vars, sadb_vars, peer_vars, esp, losses>>

\* hchain_verify: hashing the element tok between 1 and tolerance times
\* gives the anchor.
hchain_verify(tok, anchor, tolerance) ==
    /\ tok[1] = anchor[1]
    /\ 0 < tok[2] - anchor[2] /\ tok[2] - anchor[2] <= tolerance

\* esp_prot_verify_hchain_element: 0 when tok verifies against the active
\* anchor, 1 when it verifies against the next anchor, -1 otherwise.
verify_hchain_element(tok, tolerance) ==
    CASE hchain_verify(tok, fw_active, tolerance)      -> 0
      [] hchain_verify(tok, <<fw_next, 0>>, tolerance) -> 1
      [] OTHER                                         -> -1

\* Variant whose window excludes num_verify = window_size.
esp_prot_conntrack_verify_narrow(p) ==
    LET d == U(p.seq - seq_no)
        r == verify_hchain_element(p.tok, d)
    IN  IF 0 < d /\ d < Window /\ r >= 0
        THEN /\ fw_active' = p.tok
             /\ fw_first' = IF r = 1 THEN fw_next ELSE fw_first
             /\ seq_no' = p.seq
        ELSE UNCHANGED <<fw_active, fw_first, seq_no>>

\* esp_prot_conntrack_verify for a chain transform: the packet is verified
\* with num_verify = esp_seq - seq_no (unsigned) if 0 < num_verify <=
\* window_size.  The verified element becomes the active anchor; on a
\* change to the next chain the next anchor becomes the first active anchor.
\* next_anchors is left as it is.  A packet that fails is dropped.
esp_prot_conntrack_verify(p) ==
    LET d == U(p.seq - seq_no)
        r == verify_hchain_element(p.tok, d)
    IN  IF 0 < d /\ d <= Window /\ r >= 0
        THEN /\ fw_active' = p.tok
             /\ fw_first' = IF r = 1 THEN fw_next ELSE fw_first
             /\ seq_no' = p.seq
        ELSE UNCHANGED <<fw_active, fw_first, seq_no>>

\* The ESP packets that reach the firewall: those S sent, and with an
\* Attacker on the path, their hash elements under any sequence number.
Arriving == IF Attacker THEN [seq : Seqs, tok : {q.tok : q \in esp}] ELSE esp

FwEsp(p) ==
    /\ ~crashed /\ p \in Arriving
    /\ esp_prot_conntrack_verify(p)
    /\ UNCHANGED <<fw_next, cache, crashed>>
    /\ UNCHANGED <<hipd_vars, sadb_vars, peer_vars, net_vars>>

-----------------------------------------------------------------------------

\* The network loses a control packet or an ESP packet.
Lose ==
    /\ losses < MaxLoss
    /\ losses' = losses + 1
    /\ \/ \E m \in ctl : ctl' = ctl \ {m} /\ UNCHANGED <<dlv, esp>>
       \/ \E m \in dlv : dlv' = dlv \ {m} /\ UNCHANGED <<ctl, esp>>
       \/ \E p \in esp : esp' = esp \ {p} /\ UNCHANGED <<ctl, dlv>>
    /\ UNCHANGED <<hipd_vars, sadb_vars, peer_vars, fw_vars, dups>>

Next ==
    \/ Trigger \/ SendUpdate \/ Retransmit \/ AnchorChange \/ SendData
    \/ \E m \in dlv : RecvAck(m) \/ RecvUpdate(m)
    \/ \E m \in ctl : FwUpdate(m)
    \/ \E p \in Arriving : FwEsp(p)
    \/ Lose

Spec == Init /\ [][Next]_vars

\* The firewall handles every ESP packet that keeps arriving.
FairSpec == Spec /\ \A p \in [seq : Seqs, tok : Tokens] : WF_vars(FwEsp(p))

-----------------------------------------------------------------------------
(* Properties                                                              *)

TypeOK ==
    /\ local_anchor \in Chains /\ local_update \in Anchors
    /\ update_id_out \in 0..MaxUpdates /\ acked \in 0..update_id_out
    /\ upd_out \in Ctl /\ rtx \in 0..MaxRetrans
    /\ uc \in Chains /\ upos \in 0..ChainLen /\ unext \in Anchors
    /\ eseq \in 0..MaxSeq /\ trig \in BOOLEAN /\ chg \in Anchors
    /\ peer_anchor \in Anchors /\ peer_update \in Anchors
    /\ fw_active \in Tokens \cup {<<c, 0>> : c \in Chains}
    /\ fw_first \in Chains /\ fw_next \in Anchors /\ seq_no \in 0..MaxSeq
    /\ cache \in Seq(CacheItem) /\ crashed \in BOOLEAN
    /\ ctl \subseteq Ctl /\ dlv \subseteq Ctl
    /\ esp \subseteq [seq : Seqs, tok : Tokens]

\* The sadb of S never holds a chain the firewall could not verify: the
\* next anchor it was given on the ACK is the firewall's next anchor, and
\* the chain it discloses is the firewall's current or next chain.  Both
\* hosts' hipd and the firewall's cache and ACK handling take part.
FirewallCanFollow ==
    ~crashed =>
        /\ unext # 0 => unext = fw_next
        /\ uc \in {fw_first, fw_next}

\* The firewall never crashes while tracking anchor updates.
NoCrash == ~crashed

\* Every hash element the firewall accepts comes after the one it accepted
\* before: a packet replayed with a fresh ESP sequence number is dropped.
NoTokenReplay ==
    [][fw_active' # fw_active =>
          \/ fw_active'[1] > fw_active[1]
          \/ fw_active'[1] = fw_active[1] /\ fw_active'[2] > fw_active[2]]_vars

\* At most one anchor update is pending per esp_tuple (spec 4.I and 8).
CacheAtMostOne == Len(cache) <= 1

\* S has sent a packet of chain c that is still on its way.
SentOn(c) == \E p \in esp : p.tok[1] = c

\* Whenever a packet of S's chain c is on its way, the firewall eventually
\* verifies packets of chain c, unless every such packet is lost: the
\* anchor update has installed the chain as the firewall's next anchor
\* before S switched to it.
FirewallFollowsSender ==
    \A c \in Chains : SentOn(c) ~> (fw_first >= c \/ ~SentOn(c))

=============================================================================
