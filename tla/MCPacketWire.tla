---------------------------- MODULE MCPacketWire ----------------------------
(* PacketWire for TLC: two-digit lengths of radix 4 (0 to 15) stand for the *)
(* 32-bit ones; a size_t as wide as that, and one that is wider.            *)
EXTENDS PacketWire
=============================================================================
