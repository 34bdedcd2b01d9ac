---------------------------- MODULE HopSequence ----------------------------
(***************************************************************************)
(* The channel-hop arithmetic of mccontikimac.c between two neighbours:   *)
(* a receiver R that hops its receive channel once per wake-up, and a     *)
(* sender S that strobes a unicast frame to R on one channel, and on an   *)
(* ACK recovers R's hop index (the channel seed handed to the phase       *)
(* module).  The hop table (HOP_SEQUENCE_ARRAY of mccontikimac-hopseq.h)  *)
(* and its row width are parameters.  Hop indices are uint8_t and wrap at *)
(* 256; the index expressions of the macros are computed in int.         *)
(***************************************************************************)
EXTENDS Naturals, FiniteSets

CONSTANTS
  HOP_SEQUENCE_COL_NUM,     \* channels per row
  HOP_SEQUENCE_ROW_NUM,     \* rows (one per address class)
  hop_sequence,             \* the table, indexed 0..ROW_NUM*COL_NUM-1
  BC_HOP_SEQUENCE_COL_NUM, BC_HOP_SEQUENCE_ROW_NUM,
  bc_hop_sequence,          \* the broadcast table
  R_ADDRESS_BYTE,           \* low address bits of R (its MY_ADDRESS_BYTE, S's OTHER_ADDRESS_BYTE)
  S_ADDRESS_BYTE,           \* low address bits of S
  RF_CHANNEL,
  None,                     \* model value: no channel seed recorded
  MaxTrains                 \* bound on S's strobe trains in one behaviour

HOP_SEQUENCE_SIZE    == HOP_SEQUENCE_ROW_NUM * HOP_SEQUENCE_COL_NUM
BC_HOP_SEQUENCE_SIZE == BC_HOP_SEQUENCE_ROW_NUM * BC_HOP_SEQUENCE_COL_NUM

ASSUME /\ HOP_SEQUENCE_COL_NUM \in 1..255 /\ HOP_SEQUENCE_ROW_NUM \in Nat \ {0}
       /\ hop_sequence \in [0..(HOP_SEQUENCE_SIZE - 1) -> Nat]
       /\ BC_HOP_SEQUENCE_COL_NUM \in 1..255 /\ BC_HOP_SEQUENCE_ROW_NUM \in Nat \ {0}
       /\ bc_hop_sequence \in [0..(BC_HOP_SEQUENCE_SIZE - 1) -> Nat]
       /\ R_ADDRESS_BYTE \in 0..15 /\ S_ADDRESS_BYTE \in 0..15
       /\ MaxTrains \in Nat

(* Fault variant of U8: a 9-bit index. *)
U8Wide(x) == x % 512

(* Assignment to a uint8_t. *)
U8(x) == x % 256

(* The index macros. *)
CHANNEL_IDX(i)     == i % HOP_SEQUENCE_SIZE
ROW_CHANNEL_IDX(i) == i % HOP_SEQUENCE_COL_NUM

(* MY_INIT_CHANNEL_IDX of a node, and SEND_INIT_CHANNEL_IDX at S (R's). *)
INIT_CHANNEL_IDX(addr) == addr * HOP_SEQUENCE_COL_NUM
SEND_INIT_CHANNEL_IDX  == INIT_CHANNEL_IDX(R_ADDRESS_BYTE)

(* Channel of hop index i in the row of the node with address addr:      *)
(* MY_CHANNEL / HOP_CHANNEL / HOP_SEND_CHANNEL at that node.              *)
RowChannel(addr, i) ==
  hop_sequence[CHANNEL_IDX(INIT_CHANNEL_IDX(addr) + ROW_CHANNEL_IDX(i))]

(* SEND_CHANNEL(ch_ind) at S: hop index ch_ind in R's row. *)
SEND_CHANNEL(ch_ind) == RowChannel(R_ADDRESS_BYTE, ch_ind)

(* BC_ROW_CHANNEL_IDX and the broadcast channel of index i at R. *)
BC_ROW_CHANNEL_IDX(i) ==
  (R_ADDRESS_BYTE * BC_HOP_SEQUENCE_COL_NUM + (i % BC_HOP_SEQUENCE_COL_NUM))
    % BC_HOP_SEQUENCE_SIZE
BcChannel(i) == bc_hop_sequence[BC_ROW_CHANNEL_IDX(i)]

(* receiver_channel_index(channel): scan R's row from index 0 for the     *)
(* channel of the ACK and return the index after it (R's next hop); if   *)
(* absent, SEND_INIT_CHANNEL_IDX, truncated to the uint8_t return type.  *)
(* Fault variant of ScanRow: returns the matching index, not the next.   *)
RECURSIVE ScanRowSameIndex(_, _)
ScanRowSameIndex(channel, i) ==
  IF i >= HOP_SEQUENCE_COL_NUM THEN U8(SEND_INIT_CHANNEL_IDX)
  ELSE IF SEND_CHANNEL(i) = channel THEN i
  ELSE ScanRowSameIndex(channel, i + 1)

RECURSIVE ScanRow(_, _)
ScanRow(channel, i) ==
  IF i >= HOP_SEQUENCE_COL_NUM THEN U8(SEND_INIT_CHANNEL_IDX)
  ELSE IF SEND_CHANNEL(i) = channel THEN i + 1
  ELSE ScanRow(channel, i + 1)

receiver_channel_index(channel) == ScanRow(channel, 0)

VARIABLES
  rec_channel_index,        \* R: uint8 receive hop index
  rec_channel,              \* R: current receive channel
  broadcast_channel_index,  \* R: uint8 broadcast hop index
  bc_channel,               \* R: current broadcast channel
  woken,                    \* R has run PT_BEGIN (history, not in the code)
  hops,                     \* R's wake-ups so far, mod COL_NUM (history)
  hop_send_channel_index,   \* S: uint8 index of HOP_SEND_CHANNEL
  send_channel,             \* S: channel of the current strobe train
  missed,                   \* S: R's wake-ups since the train began without meeting it
  channelseed,              \* S: encounter_channelseed of the last ACK, or None
  seed_age                  \* R's wake-ups since that ACK, mod COL_NUM (history)

vars == <<rec_channel_index, rec_channel, broadcast_channel_index, bc_channel,
          woken, hops, hop_send_channel_index, send_channel, missed, channelseed,
          seed_age>>

(* Zero-initialised indices; both channels start at RF_CHANNEL. *)
Init ==
  /\ rec_channel_index = 0 /\ rec_channel = RF_CHANNEL
  /\ broadcast_channel_index = 0 /\ bc_channel = RF_CHANNEL
  /\ woken = FALSE /\ hops = 0
  /\ hop_send_channel_index = 0 /\ send_channel = RF_CHANNEL
  /\ missed = 0
  /\ channelseed = None /\ seed_age = 0

(* R wakes up (PT_BEGIN or the top of the duty-cycling loop): HOP_BC_CHANNEL *)
(* (post-increment) then HOP_CHANNEL (pre-increment).  A strobe train of S *)
(* on the new channel meets R.                                            *)
Hop ==
  /\ LET idx == U8(rec_channel_index + 1)
         ch  == RowChannel(R_ADDRESS_BYTE, idx)
     IN /\ rec_channel_index' = idx
        /\ rec_channel' = ch
        /\ missed' = IF ch = send_channel THEN 0 ELSE missed + 1
  /\ bc_channel' = BcChannel(broadcast_channel_index)
  /\ broadcast_channel_index' = U8(broadcast_channel_index + 1)
  /\ woken' = TRUE
  /\ hops' = (hops + 1) % HOP_SEQUENCE_COL_NUM
  /\ seed_age' = (seed_age + 1) % HOP_SEQUENCE_COL_NUM
  /\ UNCHANGED <<hop_send_channel_index, send_channel, channelseed>>

(* Fault variant of HopSend: the strobe channel is taken from the        *)
(* broadcast hop sequence, as for a broadcast.                            *)
HopSendFromBcTable ==
  /\ hop_send_channel_index < MaxTrains
  /\ LET idx == U8(hop_send_channel_index + 1)
     IN /\ hop_send_channel_index' = idx
        /\ send_channel' = BcChannel(idx)
  /\ missed' = 0
  /\ UNCHANGED <<rec_channel_index, rec_channel, broadcast_channel_index,
                 bc_channel, woken, hops, channelseed, seed_age>>

(* S sends to R with an unknown phase: it picks HOP_SEND_CHANNEL (a       *)
(* channel of its own row) and keeps it for the whole strobe train.       *)
HopSend ==
  /\ hop_send_channel_index < MaxTrains
  /\ LET idx == U8(hop_send_channel_index + 1)
     IN /\ hop_send_channel_index' = idx
        /\ send_channel' = RowChannel(S_ADDRESS_BYTE, idx)
  /\ missed' = 0
  /\ UNCHANGED <<rec_channel_index, rec_channel, broadcast_channel_index,
                 bc_channel, woken, hops, channelseed, seed_age>>

(* R, awake on S's channel, ACKs a strobe: S records the channel seed.    *)
Encounter ==
  /\ woken /\ send_channel = rec_channel
  /\ channelseed' = receiver_channel_index(send_channel)
  /\ seed_age' = 0
  /\ UNCHANGED <<rec_channel_index, rec_channel, broadcast_channel_index,
                 bc_channel, woken, hops, hop_send_channel_index, send_channel,
                 missed>>

Next == Hop \/ HopSend \/ Encounter

Spec == Init /\ [][Next]_vars

-----------------------------------------------------------------------------
TypeOK ==
  /\ rec_channel_index \in 0..255 /\ broadcast_channel_index \in 0..255
  /\ hop_send_channel_index \in 0..255
  /\ woken \in BOOLEAN /\ hops \in 0..(HOP_SEQUENCE_COL_NUM - 1)
  /\ seed_age \in 0..(HOP_SEQUENCE_COL_NUM - 1) /\ missed \in Nat
  /\ channelseed \in (0..255) \cup {None}

(* The receive hop sequence is periodic with the row length (spec: "for  *)
(* all hop counters, the hop sequence is periodic with the configured    *)
(* row length"): R's channel after n wake-ups depends on n mod COL_NUM    *)
(* only, also across the wrap of the uint8_t rec_channel_index, whose    *)
(* 256 values the row index HOP_CHANNEL takes modulo the row width.      *)
(* The width is MCMAC_NUM_CHANNELS, set from the build command            *)
(* (CMD_NUM_CHANNELS): the property is about widths not dividing 256.   *)
HopPeriodic ==
  woken => rec_channel = RowChannel(R_ADDRESS_BYTE, hops)

(* A strobe train to a receiver of unknown phase lasts MCMAC_NUM_CHANNELS *)
(* wake-ups (CHANNEL_STROBES): S, sticking to one channel of its row,    *)
(* meets R within every HOP_SEQUENCE_COL_NUM consecutive wake-ups (for    *)
(* a row width dividing 256; see HopPeriodic).                            *)
RendezvousWithinRow == missed < HOP_SEQUENCE_COL_NUM

(* The channel seed that receiver_channel_index() recovers from an ACK,   *)
(* advanced by one per later wake-up of R, names R's current channel:    *)
(* what mcphase relies on to send at R's next wake-up on SEND_CHANNEL.    *)
SeedTracksReceiver ==
  channelseed # None => SEND_CHANNEL(channelseed + seed_age - 1) = rec_channel
=============================================================================
