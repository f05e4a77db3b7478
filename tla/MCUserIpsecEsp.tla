---------------------------- MODULE MCUserIpsecEsp ----------------------------
(* Model-checking instance of UserIpsecEsp: the SHA-1 block-cipher       *)
(* transforms, without and with a 20-byte hash token, payloads of every   *)
(* length modulo the 16-byte AES block and a little beyond, and two       *)
(* packets per SA, so that packets are decoded in either order and twice. *)
EXTENDS UserIpsecEsp

BlockSha1Tfms == {"3DES_SHA1", "BLOWFISH_SHA1", "AES_SHA1"}
MCTokenLens   == {0, 20}
MCPayloadLens == 0 .. 17
MCMaxSent     == 2
=============================================================================
