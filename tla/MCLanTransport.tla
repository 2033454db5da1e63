--------------------------- MODULE MCLanTransport ---------------------------
(* LanTransport on a buffer of four cells: a request of three, device packets *)
(* of two and three, so that a packet, a packet and a half, or two packets    *)
(* fit, and every cut TCP can make of them happens.                           *)
EXTENDS LanTransport
=============================================================================
