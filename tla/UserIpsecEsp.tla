---------------------------- MODULE UserIpsecEsp ----------------------------
(***************************************************************************)
(* The userspace BEET-mode ESP encoding of hipfw (hipfw/user_ipsec_esp.c): *)
(* hip_beet_mode_output turns the transport payload of an outbound HIT     *)
(* packet into an ESP packet, hip_beet_mode_input turns a received ESP     *)
(* packet back into the inner IPv6 packet.  payload_encrypt and            *)
(* payload_decrypt do the padding, the ESP tail, the CBC cipher and the    *)
(* truncated HMAC.                                                         *)
(*                                                                         *)
(* Buffers are functions from byte offsets to symbolic bytes.  The cipher  *)
(* and the HMAC are modelled by what they do: a block cipher maps each     *)
(* byte b of a whole number of blocks to <<"enc", b>> and back, an HMAC    *)
(* of data is a digest whose bytes name the data.  Lengths are uint16_t    *)
(* as in the code.                                                         *)
(*                                                                         *)
(* The state is one SA pair set up by hipd: the outbound entry of the      *)
(* sender with its sequence counter, the ESP packets on the wire, and the  *)
(* results hip_beet_mode_input gave on the receiver.                      *)
(***************************************************************************)
EXTENDS Integers, Sequences, SequencesExt

CONSTANTS
    Tfms,        \* ESP transforms (entry->ealg) of the SA
    TokenLens,   \* lengths of the ESP-protection hash put after the ESP header
    PayloadLens, \* lengths of the transport payload of the inner packet
    MaxSent      \* packets the sender encodes

AllTfms == {"3DES_SHA1", "3DES_MD5", "BLOWFISH_SHA1", "NULL_SHA1",
            "NULL_MD5", "AES_SHA1"}

ASSUME /\ Tfms \subseteq AllTfms /\ TokenLens \subseteq Nat /\ PayloadLens \subseteq Nat
       /\ MaxSent \in Nat

VARIABLES
    sa,          \* the SA pair: ealg, hash length, outer header
    sequence,    \* entry->sequence of the outbound SA
    wire,        \* ESP packets sent: payload length, packet length, ESP bytes
    delivered    \* payload length and what hip_beet_mode_input gave for it

vars == <<sa, sequence, wire, delivered>>

U16(x) == x % 65536

ICV_LENGTH == 12
EspHdrLen  == 8     \* sizeof(struct hip_esp): SPI and sequence number
EspTailLen == 2     \* sizeof(struct hip_esp_tail): pad length, next header
Ip4HdrLen  == 20
UdpHdrLen  == 8
Ip6HdrLen  == 40

\* The outer headers hip_beet_mode_output puts before the ESP header.
Outers == {"ipv4", "ipv4_udp", "ipv6"}
OuterLen(o) == CASE o = "ipv4" -> Ip4HdrLen
                 [] o = "ipv4_udp" -> Ip4HdrLen + UdpHdrLen
                 [] o = "ipv6" -> Ip6HdrLen

\* esp_prot_get_data_offset: the payload starts after the ESP header and
\* the ESP-protection hash.
DataOffset(tok) == EspHdrLen + tok

\* Every byte is a pair <<kind, value>>: "data" payload bytes, "hdr" and
\* "tok" bytes of the ESP header and hash, "iv", "num" (a pad byte or the
\* pad length), "next" (the next-header field), "enc" (ciphertext of a
\* byte), "mac" (a digest byte).  A read past the end of a received packet
\* finds what an earlier packet left in the buffer.
Stale == <<"stale", 0>>

-----------------------------------------------------------------------------
(* Byte buffers                                                            *)

\* The bytes s written into buf from offset off on.
Write(buf, off, s) ==
    [i \in DOMAIN buf \cup (off .. off + Len(s) - 1) |->
        IF off <= i /\ i < off + Len(s) THEN s[i - off + 1] ELSE buf[i]]

\* The n bytes of buf from offset off on.
Read(buf, off, n) ==
    [k \in 1 .. n |-> IF off + k - 1 \in DOMAIN buf THEN buf[off + k - 1] ELSE Stale]

\* A block cipher in CBC mode over s: a last partial block is filled up
\* with zero bytes, so the output is a whole number of blocks.  Each byte of
\* ciphertext block k names k and the block's plaintext.
CbcEncrypt(s, bs) ==
    LET n == IF Len(s) % bs = 0 THEN Len(s) ELSE Len(s) + bs - (Len(s) % bs)
        p == [j \in 1 .. n |-> IF j <= Len(s) THEN s[j] ELSE <<"num", 0>>]
    IN  [j \in 1 .. n |->
            LET k == (j - 1) \div bs
            IN  <<"enc", <<k, SubSeq(p, k * bs + 1, k * bs + bs)>>>>]

\* The plaintext of ciphertext block k read from buf at off (whole blocks
\* are read, past the given length if need be), if the block and the one
\* before it (the IV for the first) are intact; otherwise none.
CbcBlock(buf, off, bs, k) ==
    LET c    == Read(buf, off + k * bs, bs)
        prev == Read(buf, off + (k - 1) * bs, bs)
        ok   == /\ c[1][1] = "enc" /\ c[1][2][1] = k
                /\ \A i \in 1 .. bs : c[i] = c[1]
                /\ IF k = 0 THEN \A i \in 1 .. bs : prev[i] = <<"iv", i>>
                   ELSE \A i \in 1 .. bs : prev[i] = prev[1] /\ prev[1][1] = "enc"
                                           /\ prev[1][2][1] = k - 1
    IN  IF ok THEN c[1][2][2] ELSE [i \in 1 .. bs |-> <<"garbage", k>>]

\* CBC decryption of the clen bytes of buf from off on: each byte is the
\* plaintext byte of its block when that block decrypts, garbage otherwise.
CbcDecrypt(buf, off, bs, clen) ==
    [j \in 1 .. clen |-> CbcBlock(buf, off, bs, (j - 1) \div bs)[((j - 1) % bs) + 1]]

\* The HMAC of data under the transform's hash: MD5 gives 16 bytes, SHA-1 20.
DigestLen(tfm) == IF tfm \in {"3DES_MD5", "NULL_MD5"} THEN 16 ELSE 20
Hmac(tfm, data) == [k \in 1 .. DigestLen(tfm) |-> <<"mac", <<k, data>>>>]

-----------------------------------------------------------------------------
(* payload_encrypt and payload_decrypt                                     *)

\* The initialisation vector length of the transform, also its block size.
IvLen(tfm) ==
    CASE tfm \in {"3DES_SHA1", "3DES_MD5", "BLOWFISH_SHA1"} -> 8
      [] tfm \in {"NULL_SHA1", "NULL_MD5"}                  -> 0
      [] tfm = "AES_SHA1"                                   -> 16

PadLen(tfm, elen) ==
    IF IvLen(tfm) > 0 THEN IvLen(tfm) - ((elen + EspTailLen) % IvLen(tfm))
                      ELSE 4 - ((elen + EspTailLen) % 4)

\* payload_encrypt of the in_len bytes "in" with next header in_type into
\* the buffer out, which starts with the ESP header and the hash: the pad
\* bytes 1 .. pad_len and the ESP tail go after the payload, the IV after
\* the hash, the ciphertext after the IV (NULL encryption: the memcpy puts
\* the plaintext at the start of out), the HMAC over ESP header, IV and
\* ciphertext after that.  out_len grows by the ciphertext, IV and the
\* 12-byte ICV.
payload_encrypt(in, in_type, in_len, out, tfm, tok) ==
    LET off   == DataOffset(tok)
        iv    == IvLen(tfm)
        pad   == PadLen(tfm, in_len)
        plain == in \o [i \in 1 .. pad |-> <<"num", i>>]
                    \o <<<<"num", pad>>, <<"next", in_type>>>>
        elen  == U16(in_len + pad + EspTailLen)
        ct    == IF iv = 0 THEN Write(out, 0, plain)
                 ELSE Write(Write(out, off, [k \in 1 .. iv |-> <<"iv", k>>]),
                            off + iv, CbcEncrypt(plain, iv))
        alen  == U16(elen + iv + off)
    IN  [err |-> 0,
         out |-> Write(ct, alen, Hmac(tfm, Read(ct, 0, alen))),
         out_len |-> U16(elen + iv + ICV_LENGTH)]

\* payload_decrypt of the in_len bytes of the ESP packet "in": the HMAC is
\* computed over all but the last 12 bytes and compared with what follows
\* them, over 12 bytes for SHA-1 and over hmac_md_len (16) bytes for MD5;
\* then the IV and ciphertext after the hash are decrypted and the pad
\* length and next header are taken from the ESP tail.  A pad length that
\* is not a "num" byte is read as 255 (the payload then differs anyway).
payload_decrypt(in, in_len, tfm, tok) ==
    LET off   == DataOffset(tok)
        iv    == IvLen(tfm)
        elen  == U16(in_len - ICV_LENGTH)
        md    == Hmac(tfm, Read(in, 0, elen))
        cmp   == IF DigestLen(tfm) = 16 THEN 16 ELSE ICV_LENGTH
        clen  == U16(U16(elen - off) - iv)
        out   == IF iv = 0 THEN Read(in, off, clen)
                 ELSE CbcDecrypt(in, off + iv, iv, clen)
        tail  == Read([i \in 0 .. clen - 1 |-> out[i + 1]], clen - EspTailLen, EspTailLen)
        padb  == IF tail[1][1] = "num" THEN tail[1][2] ELSE 255
        olen  == U16(clen - (padb + EspTailLen))
    IN  IF Read(in, elen, cmp) # SubSeq(md, 1, cmp)
        THEN [err |-> 1, type |-> <<>>, out_len |-> 0, out |-> <<>>]
        ELSE [err |-> 0, type |-> tail[2], out_len |-> olen,
              out |-> Read([i \in 0 .. clen - 1 |-> out[i + 1]], 0, olen)]

-----------------------------------------------------------------------------
(* hip_beet_mode_output and hip_beet_mode_input                            *)

\* hip_beet_mode_output for an inner packet whose transport payload is
\* "payload" with next header type: the ESP header (SPI, the sequence
\* number seq) and the ESP-protection hash of tok bytes go after the outer
\* header o, then payload_encrypt; the packet length is the sum.
hip_beet_mode_output(o, tfm, tok, seq, payload, type) ==
    LET hdr == Write(Write(<<>>, 0, [k \in 1 .. EspHdrLen |->
                                        IF k <= 4 THEN <<"spi", k>> ELSE <<"seq", seq>>]),
                     EspHdrLen, [k \in 1 .. tok |-> <<"tok", k>>])
        enc == payload_encrypt(payload, type, Len(payload), hdr, tfm, tok)
        len == U16(OuterLen(o) + EspHdrLen + tok + enc.out_len)
    IN  [err |-> enc.err, len |-> len,
         esp |-> [i \in 0 .. len - OuterLen(o) - 1 |->
                     IF i \in DOMAIN enc.out THEN enc.out[i] ELSE Stale]]

\* hip_beet_mode_input for a received packet of data_len bytes whose ESP
\* part is esp: the ESP length is data_len less the outer header (and the
\* UDP header when encapsulated); payload_decrypt gives the transport
\* payload, behind a 40-byte inner IPv6 header.
hip_beet_mode_input(o, tfm, tok, data_len, esp) ==
    LET esp_len == U16(data_len - OuterLen(o))
        dec     == payload_decrypt(esp, esp_len, tfm, tok)
    IN  [err |-> dec.err, type |-> dec.type, out |-> dec.out,
         len |-> U16(Ip6HdrLen + dec.out_len)]

-----------------------------------------------------------------------------
(* The SA pair                                                             *)

\* The transport payload of n bytes of an inner packet.
Payload(n) == [k \in 1 .. n |-> <<"data", k>>]

\* hipd has installed the SA pair: both ends use the same transform, hash
\* length and encapsulation; the counter starts at 1.
Init ==
    /\ sa \in [tfm : Tfms, tok : TokenLens, outer : Outers]
    /\ sequence = 1
    /\ wire = {}
    /\ delivered = {}

\* The sender encodes an inner packet with a payload of n bytes
\* (hip_beet_mode_output, which post-increments entry->sequence; the
\* uint32_t counter stays far below its wrap within MaxSent packets).
Output(n) ==
    /\ sequence <= MaxSent
    /\ LET tx == hip_beet_mode_output(sa.outer, sa.tfm, sa.tok, sequence, Payload(n), "tcp")
       IN  wire' = wire \cup {[n |-> n, len |-> tx.len, esp |-> tx.esp]}
    /\ sequence' = sequence + 1
    /\ UNCHANGED <<sa, delivered>>

\* The receiver decodes a packet of the wire, in any order and possibly
\* more than once (hip_beet_mode_input).
Input(p) ==
    /\ LET rx == hip_beet_mode_input(sa.outer, sa.tfm, sa.tok, p.len, p.esp)
       IN  delivered' = delivered \cup {[n |-> p.n, rx |-> rx]}
    /\ UNCHANGED <<sa, sequence, wire>>

Next ==
    \/ \E n \in PayloadLens : Output(n)
    \/ \E p \in wire : Input(p)

Spec == Init /\ [][Next]_vars

-----------------------------------------------------------------------------
(* Properties                                                              *)

=============================================================================
