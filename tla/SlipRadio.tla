----------------------------- MODULE SlipRadio -----------------------------
(***************************************************************************)
(* The SLIP bridge of the slip-radio example between an 802.11 node and    *)
(* its host (src/contiki80211/src/examples/ipv6/slip-radio/).              *)
(*                                                                         *)
(* Node to host: slipnet_input_80211() lets the framer's create_80211()    *)
(* put the receiver and sender addresses and the PAN id in front of the    *)
(* packet in uip_buf, then slip_send_packet() writes the frame to the      *)
(* line byte by byte, escaping SLIP_END and SLIP_ESC.                      *)
(* Host to node: parse_80211() strips the same header from a frame in the  *)
(* packet buffer, accepting it only from the local address and PAN.        *)
(*                                                                         *)
(* Bytes are drawn from a small set that holds the SLIP specials; an       *)
(* address is RIMEADDR_SIZE bytes, of which ether_addr_equal() compares    *)
(* the first ETH_ALEN.                                                     *)
(***************************************************************************)
EXTENDS Naturals, Sequences, SequencesExt

CONSTANTS
  Bytes,            \* byte values that may occur
  RIMEADDR_SIZE,    \* bytes of a rimeaddr_t (8 in the code)
  ETH_ALEN,         \* bytes compared by ether_addr_equal (6 in the code)
  Addrs,            \* addresses the node's packets carry
  LocalAddr,        \* unique_vif->addr, the interface's MAC (ETH_ALEN bytes)
  BootLladdr,       \* uip_lladdr.addr before slipnet_init_80211 copied it
  PANID,            \* IEEE802154_PANID, as the two bytes of a uint16_t
  BROADCASTPANID,   \* FRAME802154_BROADCASTPANDID, as two bytes
  MaxData           \* longest packet payload

(* The SLIP specials (octal in slip-net.c). *)
SLIP_END     == 192   \* 0300
SLIP_ESC     == 219   \* 0333
SLIP_ESC_END == 220   \* 0334
SLIP_ESC_ESC == 221   \* 0335

ASSUME /\ Bytes \subseteq 0..255 /\ ETH_ALEN \in 1..RIMEADDR_SIZE
       /\ Addrs \subseteq [1..RIMEADDR_SIZE -> Bytes]
       /\ {LocalAddr, BootLladdr} \subseteq [1..ETH_ALEN -> Bytes]
       /\ {PANID, BROADCASTPANID} \subseteq [1..2 -> Bytes]

(* Length of the header create_80211 prepends and parse_80211 strips. *)
HDR_LEN == 2 * RIMEADDR_SIZE + 2

-----------------------------------------------------------------------------
(* create_80211(): receiver address, sender address and the PAN id, then   *)
(* the packet data; -1 if an address is NULL.  Returns the byte count     *)
(* packetbuf_copyto() copied.                                             *)
Create80211(dst, src, data) ==
  [ret |-> Len(data), uip_buf |-> dst \o src \o PANID \o data]

(* packetbuf_hdrreduce(size) on a buffer holding len bytes: 0 if fewer.   *)
HdrReduceOk(len, size) == len >= size

(* ether_addr_equal(a, b): the first ETH_ALEN bytes. *)
EtherAddrEqual(a, b) == SubSeq(a, 1, ETH_ALEN) = b

(* Fault variant of PanAccepted: "||" for "&&" in the drop test, which     *)
(* then drops every frame of a PAN other than both.                       *)
PanAcceptedOr(pan) == ~(pan # PANID \/ pan # BROADCASTPANID)

(* The PAN test of parse_80211: drop unless the local or broadcast PAN.   *)
PanAccepted(pan) == ~(pan # PANID /\ pan # BROADCASTPANID)

(* parse_80211() on the packet buffer mem (data followed by stale bytes)  *)
(* holding len data bytes, with lladdr the node's uip_lladdr.  Each field is read before the hdrreduce that  *)
(* tests the length, as in the code; the addresses are set even when the  *)
(* frame is then dropped.                                                 *)
Parse80211(mem, len, lladdr) ==
  LET A     == RIMEADDR_SIZE
      dst   == SubSeq(mem, 1, A)
      src   == SubSeq(mem, A + 1, 2 * A)
      pan   == SubSeq(mem, 2 * A + 1, 2 * A + 2)
      ok    == /\ HdrReduceOk(len, A)
               /\ EtherAddrEqual(src, lladdr)
               /\ HdrReduceOk(len - A, A)
               /\ PanAccepted(pan)
               /\ HdrReduceOk(len - 2 * A, 2)
  IN [ret |-> IF ok THEN 0 ELSE -1, receiver |-> dst, sender |-> src,
      data |-> IF ok THEN SubSeq(mem, HDR_LEN + 1, len) ELSE <<>>]

(* The byte(s) slip_send_packet() writes for one byte c of the frame.     *)
SlipEscape(c) ==
  CASE c = SLIP_END -> <<SLIP_ESC, SLIP_ESC_END>>
    [] c = SLIP_ESC -> <<SLIP_ESC, SLIP_ESC_ESC>>
    [] OTHER        -> <<c>>

(* Reference: the RFC 1055 receiver.  It collects bytes up to a SLIP_END, *)
(* skipping empty frames, and undoes the two escapes.                      *)
RECURSIVE SlipFrames(_, _)
SlipFrames(s, cur) ==
  IF s = <<>> THEN <<>>
  ELSE LET c == Head(s) IN
       IF c = SLIP_END
       THEN (IF cur = <<>> THEN <<>> ELSE <<cur>>) \o SlipFrames(Tail(s), <<>>)
       ELSE IF c = SLIP_ESC /\ Len(s) > 1
       THEN LET d == s[2]
                b == CASE d = SLIP_ESC_END -> SLIP_END
                       [] d = SLIP_ESC_ESC -> SLIP_ESC
                       [] OTHER            -> d
            IN SlipFrames(Tail(Tail(s)), Append(cur, b))
       ELSE SlipFrames(Tail(s), Append(cur, c))

SlipDecode(line) == SlipFrames(line, <<>>)

-----------------------------------------------------------------------------
VARIABLES
  uip_lladdr, \* the node's link-layer address, as parse_80211 compares it
  driver,     \* slipnet_driver: "slipnet80211" (WITH_AR9170_WIFI_SUPPORT)
              \* or "slipnet", fixed by the build
  phase,      \* node side: "idle", "encode" (in slip_send_packet), "sent"
  uip_buf,    \* the frame create_80211 built (uip_len = its length)
  i,          \* slip_send_packet's loop index
  line,       \* bytes written by slip_arch_writeb for this frame
  host_rx,    \* the frame the host's SLIP receiver just delivered upward
  host_frame, \* a frame from the host, in the packet buffer
  parsed      \* parse_80211's result for it

vars == <<uip_lladdr, driver, phase, uip_buf, i, line, host_rx, host_frame, parsed>>

(* Frames the host may send: every prefix of a header followed by up to   *)
(* MaxData bytes, so that short frames are included.                      *)
HostFrames ==
  UNION {Prefixes(d \o s \o p \o x) :
           d \in Addrs, s \in Addrs, p \in {PANID, BROADCASTPANID, <<0, 0>>},
           x \in BoundedSeq(Bytes, MaxData)}

(* What the packet buffer holds after the frame: bytes of an earlier one. *)
Stale == {[k \in 1..HDR_LEN |-> b] : b \in Bytes}

NoParse == [ret |-> 1, receiver |-> <<>>, sender |-> <<>>, data |-> <<>>]

Init ==
  /\ uip_lladdr = BootLladdr
  /\ driver \in {"slipnet80211", "slipnet"}
  /\ phase = "idle" /\ uip_buf = <<>> /\ i = 0 /\ line = <<>>
  /\ host_rx = <<>> /\ host_frame = <<>> /\ parsed = NoParse

(* slipnet_input_80211(): a packet from the 802.11 driver is framed by     *)
(* create_80211 (never negative: packetbuf_addr() is never NULL), then    *)
(* slip_send_packet writes the opening SLIP_END.                          *)
SlipnetInput80211 ==
  /\ driver = "slipnet80211" /\ phase = "idle"
  /\ \E dst \in Addrs, src \in Addrs, data \in BoundedSeq(Bytes, MaxData) :
       LET c == Create80211(dst, src, data)
       IN /\ c.ret >= 0
          /\ uip_buf' = c.uip_buf
  /\ i' = 0 /\ line' = <<SLIP_END>> /\ phase' = "encode"
  /\ host_frame' = <<>> /\ parsed' = NoParse
  /\ UNCHANGED <<uip_lladdr, driver, host_rx>>

(* slipnet_init_80211(), called again by add_network_interface() once the *)
(* interface is added (NETSTACK_NETWORK.init()): copy unique_vif->addr to *)
(* uip_lladdr, or return if it is NULL.  A host frame parsed before is    *)
(* gone down the stack: the model drops its record.                       *)
SlipnetInit80211 ==
  /\ driver = "slipnet80211" /\ phase = "idle"
  /\ \E addr_null \in BOOLEAN :
       uip_lladdr' = IF addr_null THEN uip_lladdr ELSE LocalAddr
  /\ host_frame' = <<>> /\ parsed' = NoParse
  /\ UNCHANGED <<driver, phase, uip_buf, i, line, host_rx>>

(* slipnet_input() of the plain build: the radio packet (never empty) is  *)
(* copied to uip_buf as it is and slip_send_packet writes the opening     *)
(* SLIP_END.                                                              *)
SlipnetInput ==
  /\ driver = "slipnet" /\ phase = "idle"
  /\ \E data \in BoundedSeq(Bytes, MaxData) \ {<<>>} : uip_buf' = data
  /\ i' = 0 /\ line' = <<SLIP_END>> /\ phase' = "encode"
  /\ host_frame' = <<>> /\ parsed' = NoParse
  /\ UNCHANGED <<uip_lladdr, driver, host_rx>>

(* Fault variant of SlipSendByte: SLIP_ESC is written unescaped. *)
SlipSendByteNoEscEsc ==
  /\ phase = "encode" /\ i < Len(uip_buf)
  /\ LET c == uip_buf[i + 1]
     IN line' = line \o (IF c = SLIP_END THEN SlipEscape(c) ELSE <<c>>)
  /\ i' = i + 1
  /\ UNCHANGED <<uip_lladdr, driver, phase, uip_buf, host_rx, host_frame, parsed>>

(* One iteration of the for loop of slip_send_packet. *)
SlipSendByte ==
  /\ phase = "encode" /\ i < Len(uip_buf)
  /\ line' = line \o SlipEscape(uip_buf[i + 1])
  /\ i' = i + 1
  /\ UNCHANGED <<uip_lladdr, driver, phase, uip_buf, host_rx, host_frame, parsed>>

(* The loop ends: the closing SLIP_END. *)
SlipSendEnd ==
  /\ phase = "encode" /\ i >= Len(uip_buf)
  /\ line' = Append(line, SLIP_END) /\ phase' = "sent"
  /\ UNCHANGED <<uip_lladdr, driver, uip_buf, i, host_rx, host_frame, parsed>>

(* The host's SLIP receiver reads the line; the node is ready for the     *)
(* next packet.                                                           *)
HostReads ==
  /\ phase = "sent"
  /\ host_rx' = SlipDecode(line)
  /\ phase' = "idle" /\ uip_buf' = <<>> /\ i' = 0 /\ line' = <<>>
  /\ UNCHANGED <<uip_lladdr, driver, host_frame, parsed>>

(* The host sends a frame while the node is idle (the slip-radio process  *)
(* handles one direction at a time); parse_80211 runs on it in the packet *)
(* buffer.  The node's next packet replaces it there.                     *)
HostSends ==
  /\ phase = "idle"
  /\ \E f \in HostFrames, old \in Stale :
       /\ host_frame' = f
       /\ parsed' = Parse80211(f \o old, Len(f), uip_lladdr)
  /\ host_rx' = <<>>
  /\ UNCHANGED <<uip_lladdr, driver, phase, uip_buf, i, line>>

Next == SlipnetInit80211 \/ SlipnetInput80211 \/ SlipnetInput \/ SlipSendByte \/ SlipSendEnd \/ HostReads
        \/ HostSends

Spec == Init /\ [][Next]_vars

-----------------------------------------------------------------------------
(* What the host's SLIP receiver reads from a frame slip_send_packet wrote *)
(* is exactly the one frame create_80211 built: receiver, sender, PAN id  *)
(* and data, with no SLIP_END of the data splitting it and no escape      *)
(* changing a byte.                                                       *)
SlipRoundTrip == phase = "sent" => SlipDecode(line) = <<uip_buf>>

(* parse_80211 accepts a host frame exactly when it holds a whole header   *)
(* from the local address on the local or broadcast PAN, and then hands   *)
(* down the bytes after the header; the stale bytes it reads past a short *)
(* frame never decide the verdict.                                        *)
ParseAcceptsWellFormed ==
  parsed.ret # 1 =>
    LET f  == host_frame
        A  == RIMEADDR_SIZE
        wf == /\ Len(f) >= HDR_LEN
              /\ SubSeq(f, A + 1, A + ETH_ALEN) = uip_lladdr
              /\ SubSeq(f, 2 * A + 1, 2 * A + 2) \in {PANID, BROADCASTPANID}
    IN /\ (parsed.ret = 0) = wf
       /\ wf => parsed.data = SubSeq(f, HDR_LEN + 1, Len(f))
=============================================================================
