-------------------------- MODULE MC_McContikiMac --------------------------
(* Instantiation of McContikiMac for TLC: two channels, one neighbour,    *)
(* lists of up to two frames, shortened CCA and listen bounds.            *)
EXTENDS McContikiMac

MCChannels == {"ch1", "ch2"}

(* Frames that exercise burst reception and the destination filter. *)
MCFramesRadio ==
  [sender: {"s1"}, seqno: {1}, dest: {"me", "other"}, pend: BOOLEAN,
   parsed: {TRUE}, hdr_id_ok: {TRUE}, hdr_len: {1}, len: {1}]

(* Frames that exercise the duplicate ring: three packet ids from one    *)
(* sender, plus frames rejected by the parse and header filters.         *)
MCFramesRing ==
  [sender: {"s1"}, seqno: {1, 2, 3}, dest: {"me"}, pend: {FALSE},
   parsed: {TRUE}, hdr_id_ok: {TRUE}, hdr_len: {1}, len: {1}]
  \cup [sender: {"s1"}, seqno: {1}, dest: {"me"}, pend: {FALSE},
        parsed: BOOLEAN, hdr_id_ok: BOOLEAN, hdr_len: {0, 1}, len: {1}]

(* A frame whose MCCONTIKIMAC header claims more bytes than it carries. *)
MCFramesLength ==
  [sender: {"s1"}, seqno: {1}, dest: {"me"}, pend: {FALSE},
   parsed: {TRUE}, hdr_id_ok: {TRUE}, hdr_len: {1, 2}, len: {1}]
=============================================================================
