--------------------------- MODULE MC_SlipRadio ---------------------------
(* Instantiation of SlipRadio for TLC: two-byte addresses of which one     *)
(* byte is compared, bytes that include SLIP_END, SLIP_ESC and            *)
(* SLIP_ESC_END, payloads of up to two bytes.                             *)
EXTENDS SlipRadio

MCBytes == {0, SLIP_END, SLIP_ESC, SLIP_ESC_END}
MCAddrs == {<<0, SLIP_END>>, <<SLIP_ESC, 0>>}
MCLocalAddr == <<SLIP_ESC>>
MCBootLladdr == <<0>>
MCPanId == <<SLIP_ESC_END, 0>>
MCBroadcastPanId == <<SLIP_END, SLIP_END>>
=============================================================================
