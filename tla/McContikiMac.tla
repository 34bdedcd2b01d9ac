---------------------------- MODULE McContikiMac ----------------------------
(***************************************************************************)
(* One node running the multichannel ContikiMAC radio duty cycling layer  *)
(* (src/mccontikimac/net/mac/mccontikimac.c).                              *)
(*                                                                         *)
(* Two execution contexts share the radio:                                 *)
(*  - the rtimer interrupt, which runs the powercycle() protothread one    *)
(*    slice at a time: from one PT_YIELD to the next, never preempted;     *)
(*  - the Contiki process context, which runs the driver entry points      *)
(*    (qsend_packet, qsend_list, input_packet, turn_on, turn_off) and the  *)
(*    burst ctimer callback to completion, one at a time, but can be       *)
(*    preempted by the interrupt between any two of its steps.             *)
(* send_packet is split at the points where the interrupt may observe its *)
(* progress (before and after we_are_sending is set, and around each       *)
(* strobe).  Time is abstracted: the listen window, the strobe deadlines  *)
(* and the cycle overrun test are nondeterministic or counted in strobes. *)
(* Channel values are abstract: a hop picks any channel of Channels; the  *)
(* hop arithmetic itself is modelled in HopSequence.                       *)
(***************************************************************************)
EXTENDS Naturals, Sequences, SequencesExt

CONSTANTS
  Channels,                 \* radio channels
  Frames,                   \* frames the radio may receive (records, see FrameType)
  Senders, Seqnos,          \* link-layer sender addresses and packet ids
  None,                     \* model value: no frame in the RX buffer
  Null,                     \* model value: rimeaddr_null
  MAX_SEQNOS_LL,            \* capacity of received_seqnos (16 in the code)
  MAX_SILENCE_PERIODS,      \* 5 in the code
  MAX_NONACTIVITY_PERIODS,  \* 10 in the code
  CCA_COUNT_MAX,            \* CCAs on the unicast receive channel per wake-up
  CCA_COUNT_MAX_TOT,        \* CCAs per wake-up (CCA_COUNT_MAX + BC_CCA_COUNT_MAX)
  ROOT_SLOTS,               \* MCMAC_NUM_CHANNELS + MCMAC_BC_NUM_CHANNELS
  STROBE_LIMIT,             \* strobes that fit in max_send_trials * STROBE_TIME
  PHASE_STROBE_LIMIT,       \* strobes that fit in MAX_PHASE_STROBE_TIME
  MaxBurst,                 \* longest rdc_buf_list handed to qsend_list
  MaxFrames                 \* bound on frames received in one behaviour

ASSUME /\ MAX_SEQNOS_LL \in Nat \ {0}
       /\ CCA_COUNT_MAX \in Nat \ {0}
       /\ CCA_COUNT_MAX_TOT \in CCA_COUNT_MAX..(2 * CCA_COUNT_MAX)
       /\ ROOT_SLOTS \in Nat \ {0}
       /\ PHASE_STROBE_LIMIT \in 1..STROBE_LIMIT
       /\ MaxBurst \in Nat \ {0}

FrameType == [sender: Senders, seqno: Seqnos, dest: {"me", "bcast", "other"},
              pend: BOOLEAN, parsed: BOOLEAN, hdr_id_ok: BOOLEAN,
              hdr_len: Nat, len: Nat]
ASSUME Frames \subseteq FrameType /\ Null \notin Senders

Results == {"OK", "NOACK", "COLLISION", "ERR_FATAL", "DEFERRED"}

VARIABLES
  mccontikimac_is_on, mccontikimac_keep_radio_on,
  radio,                   \* [radio_is_on, powered, channel]: flag and transceiver
  pending,                 \* frame in the radio's RX buffer, or None
  rx_count,                \* frames received so far (bounded by MaxFrames)
  we_are_sending, we_are_receiving_burst, is_receiver_awake,
  burst_timer,             \* ctimer ct of input_packet armed
  rtimer_armed,            \* powercycle scheduled on rt
  pt,                      \* protothread location of powercycle
  rec_channel, cca_count, silence_periods, periods, root_i,
  cycle_waited,            \* the listen loop yielded in this cycle (time passed)
  spc,                     \* send_packet location in process context
  snd,                     \* send_packet locals
  send_channel,            \* static send_channel
  req,                     \* the qsend_packet / qsend_list call in progress
  sent,                    \* sent-callback results of that call, in order
  received_seqnos,         \* duplicate-suppression ring, most recent first
  delivered                \* frames passed to NETSTACK_MAC.input()

vars == <<mccontikimac_is_on, mccontikimac_keep_radio_on, radio, pending,
          rx_count, we_are_sending, we_are_receiving_burst, is_receiver_awake,
          burst_timer, rtimer_armed, pt, rec_channel, cca_count,
          silence_periods, periods, root_i, cycle_waited, spc, snd,
          send_channel, req, sent,
          received_seqnos, delivered>>

pcVars   == <<pt, rec_channel, cca_count, silence_periods, periods, root_i,
             cycle_waited>>
sendVars == <<spc, snd, send_channel, req, sent, is_receiver_awake>>
rxVars   == <<received_seqnos, delivered, we_are_receiving_burst, burst_timer>>

(* Protothread locations at a PT_YIELD (or before PT_BEGIN): the interrupt *)
(* is not running.  Every other location is inside the interrupt.          *)
YieldPoints == {"begin", "cca_wait", "listen_wait", "sleep_wait", "root_wait"}
IrqPoints   == {"top", "cca_check", "listen_check", "listen_end",
                "after_cca", "root_check"}
InIrq == pt \in IrqPoints

-----------------------------------------------------------------------------
(* Radio helpers on the record radio; they are values so that one handler  *)
(* can apply several of them in order.                                     *)

(* set_channel(): switch only when the channel differs. *)
SetChannel(r, c) == [r EXCEPT !.channel = c]

(* Fault variant of RadioOn: the flag is set but NETSTACK_RADIO.on() is  *)
(* not called.                                                            *)
RadioOnFlagOnly(r, is_on) ==
  IF is_on /\ ~r.radio_is_on THEN [r EXCEPT !.radio_is_on = TRUE] ELSE r

(* on(): honoured only while the RDC is on and the radio is off. *)
RadioOn(r, is_on) ==
  IF is_on /\ ~r.radio_is_on
  THEN [r EXCEPT !.radio_is_on = TRUE, !.powered = TRUE] ELSE r

(* Fault variant of RadioOff: keep_radio_on not tested. *)
RadioOffIgnoringKeep(r, is_on, keep) ==
  IF is_on /\ r.radio_is_on
  THEN [r EXCEPT !.radio_is_on = FALSE, !.powered = FALSE] ELSE r

(* off(): honoured only while the RDC is on and keep_radio_on is clear. *)
RadioOff(r, is_on, keep) ==
  IF is_on /\ r.radio_is_on /\ ~keep
  THEN [r EXCEPT !.radio_is_on = FALSE, !.powered = FALSE] ELSE r

(* powercycle_turn_radio_on(): tune to rec_channel (here c) and switch the *)
(* radio on, unless a send or a burst reception owns it.                   *)
PowercycleTurnRadioOn(r, c) ==
  IF ~we_are_sending /\ ~we_are_receiving_burst
  THEN RadioOn(SetChannel(r, c), mccontikimac_is_on) ELSE r

(* Fault variant of PowercycleTurnRadioOff: no deferral to a send or a  *)
(* burst.                                                                 *)
PowercycleTurnRadioOffUnguarded(r) ==
  RadioOff(r, mccontikimac_is_on, mccontikimac_keep_radio_on)

(* powercycle_turn_radio_off(): defer to a send or a burst reception. *)
PowercycleTurnRadioOff(r) ==
  IF ~we_are_sending /\ ~we_are_receiving_burst
  THEN RadioOff(r, mccontikimac_is_on, mccontikimac_keep_radio_on) ELSE r

(* schedule_powercycle[_fixed](): the rtimer is armed only while the RDC *)
(* is on or the radio is kept on.                                         *)
(* Fault variant of SchedulePowercycle: keep_radio_on forgotten. *)
SchedulePowercycleIsOnOnly == rtimer_armed' = mccontikimac_is_on

SchedulePowercycle == rtimer_armed' = (mccontikimac_is_on \/ mccontikimac_keep_radio_on)

IsPending == pending # None

(* The sender's decision that the destination is asleep or awake. *)
KnownAwake == is_receiver_awake \/ snd.known

-----------------------------------------------------------------------------
(* init(): radio_is_on = 0, PT_INIT, rtimer set one cycle ahead, RDC on.  *)
(* The other globals are zero-initialised C statics; the radio starts on  *)
(* RF_CHANNEL, some element of Channels.                                  *)
Init ==
  LET rf == CHOOSE c \in Channels : TRUE IN
  /\ mccontikimac_is_on = TRUE
  /\ mccontikimac_keep_radio_on = FALSE
  /\ radio = [radio_is_on |-> FALSE, powered |-> FALSE, channel |-> rf]
  /\ pending = None
  /\ rx_count = 0
  /\ we_are_sending = FALSE
  /\ we_are_receiving_burst = FALSE
  /\ is_receiver_awake = FALSE
  /\ burst_timer = FALSE
  /\ rtimer_armed = TRUE
  /\ pt = "begin"
  /\ rec_channel = rf
  /\ cca_count = 0 /\ silence_periods = 0 /\ periods = 0 /\ root_i = 0
  /\ cycle_waited = FALSE
  /\ spc = "idle"
  /\ snd = [bcast |-> FALSE, known |-> FALSE, was_on |-> FALSE,
            strobes |-> 0, got_ack |-> FALSE]
  /\ send_channel = rf
  /\ req = [kind |-> "packet", dest |-> "ucast", len |-> 1, pos |-> 1]
  /\ sent = <<>>
  /\ received_seqnos = [i \in 1..MAX_SEQNOS_LL |-> <<Null, 0>>]
  /\ delivered = <<>>

-----------------------------------------------------------------------------
(***************************************************************************)
(* powercycle(): the rtimer interrupt.  PcResume is the rtimer firing at a *)
(* PT_YIELD; the other Pc actions are the code between yields and run     *)
(* without interruption.                                                  *)
(***************************************************************************)
notPc == <<mccontikimac_is_on, mccontikimac_keep_radio_on, pending, rx_count,
           we_are_sending, sendVars, rxVars>>

PcResume ==
  /\ rtimer_armed /\ pt \in YieldPoints
  /\ rtimer_armed' = FALSE
  /\ \/ pt = "begin"       /\ pt' = "top"          /\ rec_channel' \in Channels
                            /\ UNCHANGED <<cca_count, root_i>>
     \/ pt = "cca_wait"    /\ pt' = "cca_check"    /\ cca_count' = cca_count + 1
                            /\ UNCHANGED <<rec_channel, root_i>>
     \/ pt = "listen_wait" /\ pt' = "listen_check"
                            /\ UNCHANGED <<rec_channel, cca_count, root_i>>
     \/ pt = "sleep_wait"  /\ pt' = "top"
                            /\ UNCHANGED <<rec_channel, cca_count, root_i>>
     \/ pt = "root_wait"   /\ pt' = "root_check"   /\ root_i' = root_i + 1
                            /\ UNCHANGED <<rec_channel, cca_count>>
  /\ UNCHANGED <<radio, silence_periods, periods, cycle_waited, notPc>>

(* Top of while(1), duty cycling: hop the receive channel, start the CCAs. *)
PcTopDutyCycle ==
  /\ pt = "top" /\ ~mccontikimac_keep_radio_on
  /\ rec_channel' \in Channels
  /\ cca_count' = 0
  /\ pt' = "cca_check"
  /\ UNCHANGED <<radio, rtimer_armed, silence_periods, periods, root_i,
                 cycle_waited, notPc>>

(* Top of while(1), radio kept on: hop over every channel slot. *)
PcTopAlwaysOn ==
  /\ pt = "top" /\ mccontikimac_keep_radio_on
  /\ root_i' = 0
  /\ pt' = "root_check"
  /\ UNCHANGED <<radio, rtimer_armed, rec_channel, cca_count, silence_periods,
                 periods, cycle_waited, notPc>>

(* Fault variant of CcaLoopContinues: <= for <. *)
CcaLoopContinuesOffByOne == cca_count <= CCA_COUNT_MAX_TOT

(* The condition of for (cca_count = 0; cca_count < CCA_COUNT_MAX_TOT; ...) *)
CcaLoopContinues == cca_count < CCA_COUNT_MAX_TOT

(* One CCA of the wake-up, unless a send or a burst owns the radio.  The *)
(* CCAs from CCA_COUNT_MAX on sample the broadcast channel bc_channel,    *)
(* some channel of the broadcast hop sequence.  A busy channel starts    *)
(* the listen loop without yielding.                                      *)
PcCcaSample ==
  /\ pt = "cca_check" /\ CcaLoopContinues
  /\ IF ~we_are_sending /\ ~we_are_receiving_burst
     THEN \E ch \in Channels, clear \in BOOLEAN :
            LET c  == IF cca_count >= CCA_COUNT_MAX THEN ch ELSE rec_channel
                r1 == PowercycleTurnRadioOn(radio, c)
            IN
            /\ rec_channel' = c
            /\ IF clear
               THEN /\ radio' = PowercycleTurnRadioOff(r1)
                    /\ SchedulePowercycle
                    /\ pt' = "cca_wait"
                    /\ UNCHANGED <<silence_periods, periods>>
               ELSE /\ radio' = r1
                    /\ silence_periods' = 0 /\ periods' = 0
                    /\ pt' = "listen_check"
                    /\ UNCHANGED rtimer_armed
     ELSE /\ SchedulePowercycle
          /\ pt' = "cca_wait"
          /\ UNCHANGED <<radio, rec_channel, silence_periods, periods>>
  /\ UNCHANGED <<cca_count, root_i, cycle_waited, notPc>>

(* All CCAs of the wake-up were clear. *)
PcCcaDone ==
  /\ pt = "cca_check" /\ ~CcaLoopContinues
  /\ pt' = "after_cca"
  /\ UNCHANGED <<radio, rtimer_armed, rec_channel, cca_count, silence_periods,
                 periods, root_i, cycle_waited, notPc>>


(* One period of the listen loop after a busy CCA.  The loop runs while   *)
(* nobody is sending and the radio is on; channel_clear() and the two     *)
(* receiving_packet() reads are radio inputs.  periods saturates above    *)
(* MAX_NONACTIVITY_PERIODS, where only "> MAX" is ever tested.  The dead  *)
(* radio_received_packet flag (never set) is left out.                    *)
PcListenPeriod ==
  /\ pt = "listen_check"
  /\ ~we_are_sending /\ radio.radio_is_on
  /\ \E clear, rx1, rx2 \in BOOLEAN :
       LET s1 == IF ~IsPending THEN (IF clear THEN silence_periods + 1 ELSE 0)
                 ELSE silence_periods
           s2 == IF rx1 THEN 0 ELSE s1
           p1 == IF periods > MAX_NONACTIVITY_PERIODS THEN periods ELSE periods + 1
       IN /\ silence_periods' = s2
          /\ periods' = p1
          /\ CASE s2 > MAX_SILENCE_PERIODS ->
                    radio' = PowercycleTurnRadioOff(radio) /\ pt' = "listen_end"
                    /\ UNCHANGED rtimer_armed
               [] IsPending ->
                    UNCHANGED <<radio, rtimer_armed>> /\ pt' = "listen_end"
               [] p1 > MAX_NONACTIVITY_PERIODS /\ ~rx2 ->
                    radio' = PowercycleTurnRadioOff(radio) /\ pt' = "listen_end"
                    /\ UNCHANGED rtimer_armed
               [] OTHER ->
                    UNCHANGED radio /\ SchedulePowercycle /\ pt' = "listen_wait"
  /\ cycle_waited' = (cycle_waited \/ pt' = "listen_wait")
  /\ UNCHANGED <<rec_channel, cca_count, root_i, notPc>>

(* The listen loop condition fails: a send started, the radio went off, or *)
(* LISTEN_TIME_AFTER_PACKET_DETECTED elapsed (a time the model leaves     *)
(* free).                                                                 *)
PcListenStop ==
  /\ pt = "listen_check"
  /\ pt' = "listen_end"
  /\ UNCHANGED <<radio, rtimer_armed, rec_channel, cca_count, silence_periods,
                 periods, root_i, cycle_waited, notPc>>

(* After the listen loop: keep the radio on only for a frame in progress  *)
(* and within the listen window.  The loop counters are dead from here   *)
(* until the next busy CCA resets them; the model resets them now.       *)
PcListenEnd ==
  /\ pt = "listen_end"
  /\ \E rx, late \in BOOLEAN :
       radio' = IF radio.radio_is_on /\ (~(rx \/ IsPending) \/ late)
                THEN PowercycleTurnRadioOff(radio) ELSE radio
  /\ pt' = "after_cca"
  /\ silence_periods' = 0 /\ periods' = 0
  /\ UNCHANGED <<rtimer_armed, rec_channel, cca_count, root_i, cycle_waited, notPc>>

(* Sleep until cycle_start + CYCLE_TIME ...  (cca_count is dead until   *)
(* the next top of the loop resets it; the model resets it here.)       *)
PcSleep ==
  /\ pt = "after_cca"
  /\ SchedulePowercycle
  /\ pt' = "sleep_wait"
  /\ cca_count' = 0 /\ cycle_waited' = FALSE
  /\ UNCHANGED <<radio, rec_channel, silence_periods, periods, root_i, notPc>>

(* ... unless the cycle has overrun: then start the next one at once.    *)
(* Only the listen loop, which yields between its periods, can make a     *)
(* cycle last CYCLE_TIME - 4 * CHECK_TIME; a cycle that never waited has *)
(* not overrun.                                                           *)
PcOverrun ==
  /\ pt = "after_cca" /\ cycle_waited
  /\ pt' = "top"
  /\ cca_count' = 0 /\ cycle_waited' = FALSE
  /\ UNCHANGED <<radio, rtimer_armed, rec_channel, silence_periods, periods,
                 root_i, notPc>>

(* Radio kept on: dwell one slot on the next channel, but do not retune  *)
(* under a send, a burst, or a frame being received or pending.          *)
PcRootHop ==
  /\ pt = "root_check" /\ root_i < ROOT_SLOTS
  /\ \E c \in Channels, rx \in BOOLEAN :
       /\ rec_channel' = c
       /\ radio' = IF ~we_are_sending /\ ~we_are_receiving_burst
                      /\ ~rx /\ ~IsPending
                   THEN SetChannel(radio, c) ELSE radio
  /\ SchedulePowercycle
  /\ pt' = "root_wait"
  /\ UNCHANGED <<cca_count, silence_periods, periods, root_i, cycle_waited, notPc>>

(* All slots visited (i is dead until the next round resets it). *)
PcRootDone ==
  /\ pt = "root_check" /\ root_i >= ROOT_SLOTS
  /\ pt' = "top"
  /\ root_i' = 0
  /\ UNCHANGED <<radio, rtimer_armed, rec_channel, cca_count, silence_periods,
                 periods, cycle_waited, notPc>>

Powercycle ==
  \/ PcResume \/ PcTopDutyCycle \/ PcTopAlwaysOn \/ PcCcaSample \/ PcCcaDone
  \/ PcListenPeriod \/ PcListenStop \/ PcListenEnd \/ PcSleep \/ PcOverrun
  \/ PcRootHop \/ PcRootDone


-----------------------------------------------------------------------------
(***************************************************************************)
(* Process context.  Each entry point starts only when the interrupt is   *)
(* not running and no send_packet is in progress (cooperative scheduling). *)
(***************************************************************************)
ProcessFree == ~InIrq /\ spc = "idle"

(* turn_on(): restart duty cycling and the powercycle rtimer. *)
TurnOn ==
  /\ ProcessFree /\ ~mccontikimac_is_on
  /\ mccontikimac_is_on' = TRUE
  /\ mccontikimac_keep_radio_on' = FALSE
  /\ rtimer_armed' = TRUE
  /\ UNCHANGED <<radio, pending, rx_count, we_are_sending, pcVars, sendVars, rxVars>>

(* turn_off(keep_radio_on): stop duty cycling; either keep the radio on   *)
(* (and keep powercycle hopping channels) or switch it off.               *)
TurnOff(keep) ==
  /\ ProcessFree
  /\ mccontikimac_is_on' = FALSE
  /\ mccontikimac_keep_radio_on' = keep
  /\ IF keep
     THEN /\ radio' = [radio EXCEPT !.radio_is_on = TRUE, !.powered = TRUE]
          /\ rtimer_armed' = TRUE
     ELSE /\ radio' = [radio EXCEPT !.radio_is_on = FALSE, !.powered = FALSE]
          /\ UNCHANGED rtimer_armed
  /\ UNCHANGED <<pending, rx_count, we_are_sending, pcVars, sendVars, rxVars>>

(* Fault variant of RecvBurstOff: the radio is switched off but the     *)
(* burst flag is left set.                                                *)
RecvBurstOffKeepsFlag ==
  /\ ProcessFree /\ burst_timer
  /\ radio' = RadioOff(radio, mccontikimac_is_on, mccontikimac_keep_radio_on)
  /\ burst_timer' = FALSE
  /\ UNCHANGED <<mccontikimac_is_on, mccontikimac_keep_radio_on, pending,
                 rx_count, we_are_sending, rtimer_armed, pcVars, sendVars,
                 received_seqnos, delivered, we_are_receiving_burst>>

(* recv_burst_off(): the burst ctimer expired. *)
RecvBurstOff ==
  /\ ProcessFree /\ burst_timer
  /\ radio' = RadioOff(radio, mccontikimac_is_on, mccontikimac_keep_radio_on)
  /\ we_are_receiving_burst' = FALSE
  /\ burst_timer' = FALSE
  /\ UNCHANGED <<mccontikimac_is_on, mccontikimac_keep_radio_on, pending,
                 rx_count, we_are_sending, rtimer_armed, pcVars, sendVars,
                 received_seqnos, delivered>>

(* The transceiver receives a frame into its RX buffer while powered. *)
RadioReceive ==
  /\ ~InIrq /\ radio.powered /\ ~IsPending /\ rx_count < MaxFrames
  /\ \E f \in Frames : pending' = f
  /\ rx_count' = rx_count + 1
  /\ UNCHANGED <<mccontikimac_is_on, mccontikimac_keep_radio_on, radio,
                 we_are_sending, rtimer_armed, pcVars, sendVars, rxVars>>

(* Fault variant of IsDuplicate: the scan stops one entry short. *)
IsDuplicateShortScan(ring, f) ==
  \E i \in 1..(MAX_SEQNOS_LL - 1) : ring[i] = <<f.sender, f.seqno>>

(* The duplicate check of input_packet(): (sender, packet id) in the ring. *)
IsDuplicate(ring, f) ==
  \E i \in DOMAIN ring : ring[i] = <<f.sender, f.seqno>>

(* Shift the ring down by one, dropping the oldest entry, and store the  *)
(* new pair at the front.                                                *)
RingInsert(ring, f) == Cons(<<f.sender, f.seqno>>, Front(ring))

(* The filters of input_packet(): framer parse, MCCONTIKIMAC header id,  *)
(* length taken from the header, destination this node or broadcast.    *)
Acceptable(f) ==
  /\ f.parsed
  /\ f.hdr_id_ok
  /\ f.hdr_len > 0
  /\ f.dest \in {"me", "bcast"}

(* input_packet() for a frame it accepts: enter or leave burst reception  *)
(* from the frame-pending bit, then filter duplicates and deliver.        *)
InputPacketAccept ==
  /\ ProcessFree /\ IsPending /\ Acceptable(pending)
  /\ LET f  == pending
         r1 == IF ~we_are_receiving_burst
               THEN RadioOff(radio, mccontikimac_is_on, mccontikimac_keep_radio_on)
               ELSE radio
     IN /\ we_are_receiving_burst' = f.pend
        /\ burst_timer' = f.pend
        /\ radio' = IF f.pend
                    THEN RadioOn(r1, mccontikimac_is_on)
                    ELSE RadioOff(r1, mccontikimac_is_on, mccontikimac_keep_radio_on)
        /\ IF IsDuplicate(received_seqnos, f)
           THEN UNCHANGED <<received_seqnos, delivered>>
           ELSE /\ received_seqnos' = RingInsert(received_seqnos, f)
                /\ delivered' = Append(delivered,
                       [sender |-> f.sender, seqno |-> f.seqno,
                        len |-> f.hdr_len, rx_len |-> f.len])
  /\ pending' = None
  /\ UNCHANGED <<mccontikimac_is_on, mccontikimac_keep_radio_on, rx_count,
                 we_are_sending, rtimer_armed, pcVars, sendVars>>

(* input_packet() for a frame it drops: only the radio-off at entry. *)
InputPacketDrop ==
  /\ ProcessFree /\ IsPending /\ ~Acceptable(pending)
  /\ radio' = IF ~we_are_receiving_burst
              THEN RadioOff(radio, mccontikimac_is_on, mccontikimac_keep_radio_on)
              ELSE radio
  /\ pending' = None
  /\ UNCHANGED <<mccontikimac_is_on, mccontikimac_keep_radio_on, rx_count,
                 we_are_sending, rtimer_armed, pcVars, sendVars, rxVars>>


-----------------------------------------------------------------------------
(***************************************************************************)
(* Sending: qsend_packet / qsend_list and the steps of send_packet.       *)
(***************************************************************************)
Dests == {"bcast", "ucast"}

(* qsend_packet(): one send_packet, sent callback unless deferred. *)
QSendPacket ==
  /\ ProcessFree
  /\ \E d \in Dests : req' = [kind |-> "packet", dest |-> d, len |-> 1, pos |-> 1]
  /\ sent' = <<>>
  /\ spc' = "entry"
  /\ UNCHANGED <<snd, send_channel, is_receiver_awake, mccontikimac_is_on,
                 mccontikimac_keep_radio_on, radio, pending, rx_count,
                 we_are_sending, rtimer_armed, pcVars, rxVars>>

(* qsend_list() while a burst is being received: COLLISION for the head. *)
QSendListDuringBurst ==
  /\ ProcessFree /\ we_are_receiving_burst
  /\ \E d \in Dests, n \in 1..MaxBurst :
       req' = [kind |-> "list", dest |-> d, len |-> n, pos |-> 1]
  /\ sent' = <<"COLLISION">>
  /\ UNCHANGED <<spc, snd, send_channel, is_receiver_awake, mccontikimac_is_on,
                 mccontikimac_keep_radio_on, radio, pending, rx_count,
                 we_are_sending, rtimer_armed, pcVars, rxVars>>

(* qsend_list(): the receiver must be woken up for the head of the list. *)
QSendList ==
  /\ ProcessFree /\ ~we_are_receiving_burst
  /\ \E d \in Dests, n \in 1..MaxBurst :
       req' = [kind |-> "list", dest |-> d, len |-> n, pos |-> 1]
  /\ sent' = <<>>
  /\ is_receiver_awake' = FALSE
  /\ spc' = "entry"
  /\ UNCHANGED <<snd, send_channel, mccontikimac_is_on,
                 mccontikimac_keep_radio_on, radio, pending, rx_count,
                 we_are_sending, rtimer_armed, pcVars, rxVars>>

(* send_packet's locals outside a call. *)
SndIdle == [bcast |-> FALSE, known |-> FALSE, was_on |-> FALSE,
            strobes |-> 0, got_ack |-> FALSE]

(* What the caller does with the result of send_packet: the sent callback *)
(* (not for DEFERRED), and in qsend_list the next frame of the burst after *)
(* an OK, or the end of the burst.  The locals of send_packet die.         *)
SendReturn(ret) ==
  /\ snd' = SndIdle
  /\ sent' = IF ret = "DEFERRED" THEN sent ELSE Append(sent, ret)
  /\ IF req.kind = "list" /\ ret = "OK" /\ req.pos < req.len
     THEN /\ is_receiver_awake' = TRUE
          /\ req' = [req EXCEPT !.pos = @ + 1]
          /\ spc' = "entry"
     ELSE /\ is_receiver_awake' = IF req.kind = "list" THEN FALSE
                                  ELSE is_receiver_awake
          /\ UNCHANGED req
          /\ spc' = "idle"

(* send_packet() returns ERR_FATAL at once: RDC and radio switched off, or *)
(* an empty packet, or no room for the MCCONTIKIMAC header, or the framer *)
(* failed.  Which of the last three happens depends on the packet only.   *)
SendFatal ==
  /\ spc = "entry" /\ ~InIrq
  /\ SendReturn("ERR_FATAL")
  /\ UNCHANGED <<send_channel, mccontikimac_is_on,
                 mccontikimac_keep_radio_on, radio, pending, rx_count,
                 we_are_sending, rtimer_armed, pcVars, rxVars>>

(* mcphase_wait() asked to retry later: DEFERRED, nothing sent. *)
SendDeferred ==
  /\ spc = "entry" /\ ~InIrq
  /\ mccontikimac_is_on \/ mccontikimac_keep_radio_on
  /\ req.dest = "ucast" /\ ~is_receiver_awake
  /\ SendReturn("DEFERRED")
  /\ UNCHANGED <<send_channel, mccontikimac_is_on,
                 mccontikimac_keep_radio_on, radio, pending, rx_count,
                 we_are_sending, rtimer_armed, pcVars, rxVars>>

(* send_packet() up to the radio check: pick the channel (broadcast       *)
(* channel; the phase-lock channel or a hopped one for a unicast to a    *)
(* sleeping receiver; the previous channel inside a burst), then set      *)
(* we_are_sending so that the interrupt defers to the send.               *)
SendEntry ==
  /\ spc = "entry" /\ ~InIrq
  /\ mccontikimac_is_on \/ mccontikimac_keep_radio_on
  /\ \E known \in BOOLEAN, ch \in Channels :
       /\ known => (req.dest = "ucast" /\ ~is_receiver_awake)
       /\ send_channel' = IF req.dest = "ucast" /\ is_receiver_awake
                          THEN send_channel ELSE ch
       /\ snd' = [snd EXCEPT !.bcast = (req.dest = "bcast"), !.known = known]
  /\ we_are_sending' = TRUE
  /\ spc' = "guard"
  /\ UNCHANGED <<req, sent, is_receiver_awake, mccontikimac_is_on,
                 mccontikimac_keep_radio_on, radio, pending, rx_count,
                 rtimer_armed, pcVars, rxVars>>

(* A frame being received or pending in the radio: give way with         *)
(* COLLISION rather than trash it.                                        *)
SendGuardCollision ==
  /\ spc = "guard" /\ ~InIrq
  /\ \E rx \in BOOLEAN : rx \/ IsPending
  /\ we_are_sending' = FALSE
  /\ SendReturn("COLLISION")
  /\ UNCHANGED <<send_channel, mccontikimac_is_on, mccontikimac_keep_radio_on,
                 radio, pending, rx_count, rtimer_armed, pcVars, rxVars>>

SendGuardPass ==
  /\ spc = "guard" /\ ~InIrq /\ ~IsPending
  /\ spc' = "cca"
  /\ UNCHANGED <<snd, send_channel, req, sent, is_receiver_awake,
                 mccontikimac_is_on, mccontikimac_keep_radio_on, radio, pending,
                 rx_count, we_are_sending, rtimer_armed, pcVars, rxVars>>

(* The radio off, the RDC forced on, the send channel set; unless the    *)
(* receiver is awake, up to CCA_COUNT_MAX_TX CCAs, each with the radio on *)
(* then off.  A busy CCA ends the send with COLLISION.                    *)
AfterSendCca(r) ==
  IF is_receiver_awake
  THEN r
  ELSE RadioOff(RadioOn(r, TRUE), TRUE, mccontikimac_keep_radio_on)

SendCcaBusy ==
  /\ spc = "cca" /\ ~InIrq /\ ~is_receiver_awake
  /\ LET r1 == SetChannel(RadioOff(radio, mccontikimac_is_on,
                                   mccontikimac_keep_radio_on), send_channel)
     IN radio' = RadioOff(AfterSendCca(r1), TRUE, mccontikimac_keep_radio_on)
  /\ we_are_sending' = FALSE
  /\ SendReturn("COLLISION")
  /\ UNCHANGED <<send_channel, mccontikimac_is_on,
                 mccontikimac_keep_radio_on, pending, rx_count, rtimer_armed,
                 pcVars, rxVars>>

(* All CCAs clear (or skipped): radio on to hear the ACKs, strobing. *)
SendCcaClear ==
  /\ spc = "cca" /\ ~InIrq
  /\ LET r1 == SetChannel(RadioOff(radio, mccontikimac_is_on,
                                   mccontikimac_keep_radio_on), send_channel)
     IN radio' = RadioOn(AfterSendCca(r1), TRUE)
  /\ snd' = [snd EXCEPT !.was_on = mccontikimac_is_on, !.strobes = 0,
                        !.got_ack = FALSE]
  /\ mccontikimac_is_on' = TRUE
  /\ spc' = "strobe"
  /\ UNCHANGED <<send_channel, req, sent, is_receiver_awake,
                 mccontikimac_keep_radio_on, pending, rx_count, we_are_sending,
                 rtimer_armed, pcVars, rxVars>>


(* A phase-locked or awake receiver that has not answered within          *)
(* MAX_PHASE_STROBE_TIME: radio off, stop strobing.                       *)
SendStrobeMiss ==
  /\ spc = "strobe" /\ ~InIrq
  /\ ~snd.got_ack /\ snd.strobes < STROBE_LIMIT
  /\ KnownAwake /\ snd.strobes >= PHASE_STROBE_LIMIT
  /\ radio' = RadioOff(radio, mccontikimac_is_on, mccontikimac_keep_radio_on)
  /\ spc' = "finish"
  /\ UNCHANGED <<snd, send_channel, req, sent, is_receiver_awake,
                 mccontikimac_is_on, mccontikimac_keep_radio_on, pending,
                 rx_count, we_are_sending, rtimer_armed, pcVars, rxVars>>

(* One strobe: transmit, radio on, and for a unicast look for the ACK.   *)
(* Anything heard (receiving, pending, busy channel) is read out as a    *)
(* 3-byte ACK: a data frame in the RX buffer is consumed by that read and *)
(* is no ACK; otherwise the ACK's sequence number may match.              *)
SendStrobe ==
  /\ spc = "strobe" /\ ~InIrq
  /\ ~snd.got_ack /\ snd.strobes < STROBE_LIMIT
  /\ ~(KnownAwake /\ snd.strobes >= PHASE_STROBE_LIMIT)
  /\ radio' = [radio EXCEPT !.powered = TRUE]
  /\ \E heard, ack \in BOOLEAN :
       IF ~snd.bcast /\ (heard \/ IsPending)
       THEN /\ pending' = None
            /\ IF ack /\ ~IsPending
               THEN snd' = [snd EXCEPT !.got_ack = TRUE] /\ spc' = "finish"
               ELSE snd' = [snd EXCEPT !.strobes = @ + 1] /\ UNCHANGED spc
       ELSE /\ snd' = [snd EXCEPT !.strobes = @ + 1]
            /\ UNCHANGED <<pending, spc>>
  /\ UNCHANGED <<send_channel, req, sent, is_receiver_awake,
                 mccontikimac_is_on, mccontikimac_keep_radio_on, rx_count,
                 we_are_sending, rtimer_armed, pcVars, rxVars>>

(* max_send_trials * STROBE_TIME elapsed without an ACK. *)
SendStrobeTimeout ==
  /\ spc = "strobe" /\ ~InIrq
  /\ ~snd.got_ack /\ snd.strobes >= STROBE_LIMIT
  /\ spc' = "finish"
  /\ UNCHANGED <<snd, send_channel, req, sent, is_receiver_awake,
                 mccontikimac_is_on, mccontikimac_keep_radio_on, radio, pending,
                 rx_count, we_are_sending, rtimer_armed, pcVars, rxVars>>

(* End of send_packet(): radio off, RDC flag restored, we_are_sending     *)
(* cleared, result classified (no strobe collisions with software ACKs).  *)
(* mcphase_update() belongs to the external phase module.                  *)
(* Fault variant of SendResult: a missing ACK counts for a broadcast too. *)
SendResultNoAckAny == IF ~snd.got_ack THEN "NOACK" ELSE "OK"

SendResult == IF ~snd.bcast /\ ~snd.got_ack THEN "NOACK" ELSE "OK"

SendFinish ==
  /\ spc = "finish" /\ ~InIrq
  /\ radio' = RadioOff(radio, mccontikimac_is_on, mccontikimac_keep_radio_on)
  /\ mccontikimac_is_on' = snd.was_on
  /\ we_are_sending' = FALSE
  /\ SendReturn(SendResult)
  /\ UNCHANGED <<send_channel, mccontikimac_keep_radio_on, pending,
                 rx_count, rtimer_armed, pcVars, rxVars>>

(* The steps of send_packet once it has been called. *)
SendStep ==
  \/ SendFatal \/ SendDeferred \/ SendEntry \/ SendGuardCollision
  \/ SendGuardPass \/ SendCcaBusy \/ SendCcaClear
  \/ SendStrobeMiss \/ SendStrobe \/ SendStrobeTimeout \/ SendFinish

Process ==
  \/ TurnOn \/ TurnOff(TRUE) \/ TurnOff(FALSE) \/ RecvBurstOff
  \/ InputPacketAccept \/ InputPacketDrop
  \/ QSendPacket \/ QSendListDuringBurst \/ QSendList
  \/ SendStep

Next == Powercycle \/ Process \/ RadioReceive

(* The slices of powercycle inside the interrupt (between resume and the *)
(* next PT_YIELD).                                                        *)
IrqStep == Powercycle /\ pt \in IrqPoints

(* Fairness: an interrupt slice runs to completion (weak fairness).  A    *)
(* called send_packet and the burst ctimer get the CPU whenever the      *)
(* interrupt is not running, which it is again after every slice, and    *)
(* the ctimer whenever the process context is free, which it is again   *)
(* after every handler returns (strong fairness for both).               *)
Spec == Init /\ [][Next]_vars /\ WF_vars(IrqStep) /\ SF_vars(SendStep)
        /\ SF_vars(RecvBurstOff)


-----------------------------------------------------------------------------
(***************************************************************************)
(* Properties                                                              *)
(***************************************************************************)
TypeOK ==
  /\ mccontikimac_is_on \in BOOLEAN /\ mccontikimac_keep_radio_on \in BOOLEAN
  /\ radio \in [radio_is_on: BOOLEAN, powered: BOOLEAN, channel: Channels]
  /\ pending \in Frames \cup {None}
  /\ rx_count \in 0..MaxFrames
  /\ we_are_sending \in BOOLEAN /\ we_are_receiving_burst \in BOOLEAN
  /\ is_receiver_awake \in BOOLEAN /\ burst_timer \in BOOLEAN
  /\ rtimer_armed \in BOOLEAN
  /\ pt \in YieldPoints \cup IrqPoints
  /\ rec_channel \in Channels
  /\ cca_count \in 0..CCA_COUNT_MAX_TOT
  /\ silence_periods \in 0..(MAX_SILENCE_PERIODS + 1)
  /\ periods \in 0..(MAX_NONACTIVITY_PERIODS + 1)
  /\ root_i \in 0..ROOT_SLOTS /\ cycle_waited \in BOOLEAN
  /\ spc \in {"idle", "entry", "guard", "cca", "strobe", "finish"}
  /\ snd \in [bcast: BOOLEAN, known: BOOLEAN, was_on: BOOLEAN,
              strobes: 0..STROBE_LIMIT, got_ack: BOOLEAN]
  /\ send_channel \in Channels
  /\ req \in [kind: {"packet", "list"}, dest: Dests, len: 1..MaxBurst,
              pos: 1..MaxBurst]
  /\ sent \in Seq(Results)
  /\ received_seqnos \in [1..MAX_SEQNOS_LL -> (Senders \cup {Null}) \X (Seqnos \cup {0})]
  /\ delivered \in Seq([sender: Senders, seqno: Seqnos, len: Nat, rx_len: Nat])

(* Strobe train: while send_packet strobes, the radio is on, on the      *)
(* channel chosen for the whole train, whatever the powercycle interrupt *)
(* did meanwhile (it must defer to we_are_sending).                      *)
StrobeTrainIntact ==
  spc = "strobe" => radio.powered /\ radio.radio_is_on /\ radio.channel = send_channel

(* The powercycle chain never dies while duty cycling or always-on        *)
(* hopping is wanted: the rtimer is armed or the interrupt is running.   *)
(* It is broken by a turn_on/turn_off that does not re-arm rt, or by a   *)
(* reschedule test that forgets one of the two flags.                    *)
PowercycleScheduled ==
  (mccontikimac_is_on \/ mccontikimac_keep_radio_on) => (rtimer_armed \/ InIrq)

(* turn_off(1) promises a radio that is never off: no later off() of the *)
(* scheduler, of input_packet, of recv_burst_off or of send_packet may    *)
(* power it down while keep_radio_on is set.                              *)
KeepRadioOnHonoured ==
  mccontikimac_keep_radio_on => radio.radio_is_on /\ radio.powered

(* radio_is_on is true exactly when the transceiver is powered, though   *)
(* turn_off() and the strobe loop drive the transceiver directly.        *)
RadioFlagTracksRadio == radio.radio_is_on = radio.powered

(* Duplicate suppression: the same (sender, packet id) is delivered twice *)
(* only after more than MAX_SEQNOS_LL other frames were delivered between *)
(* (the ring evicted it).                                                 *)
DuplicateWindow ==
  \A i, j \in DOMAIN delivered :
    (i < j /\ delivered[i].sender = delivered[j].sender
           /\ delivered[i].seqno = delivered[j].seqno)
      => j - i > MAX_SEQNOS_LL

(* A burst reception always ends: the ctimer set by input_packet turns   *)
(* the radio off and clears we_are_receiving_burst.                       *)
BurstEventuallyEnds == we_are_receiving_burst ~> ~we_are_receiving_burst

(* No transmission while a burst is being received: qsend_list returns  *)
(* COLLISION instead ("Do not send during reception of a burst"), since  *)
(* send_packet switches the radio off and retunes it, ending the         *)
(* reception.  qsend_packet has no such check.                           *)
NoSendDuringBurst == we_are_sending => ~we_are_receiving_burst

(* Every frame of a burst list handed to qsend_list gets a sent callback  *)
(* (spec 8, scenario D: the unattempted frames report COLLISION), unless *)
(* the head was deferred to the phase module.                             *)
BurstListFullyReported ==
  (spc = "idle" /\ req.kind = "list" /\ sent # <<>>) => Len(sent) = req.len

(* A delivered frame is no longer than what was received: the length in  *)
(* the MCCONTIKIMAC header is checked against the frame (spec 8,         *)
(* scenario C: {len=10} over 8 bytes is dropped).                         *)
DeliveredWithinReceived ==
  \A i \in DOMAIN delivered : delivered[i].len <= delivered[i].rx_len

-----------------------------------------------------------------------------
(* Refinement mapping onto RdcSendSpec: a call is in progress while        *)
(* send_packet has been called for it; the call is req without the       *)
(* position in the burst; the results are the sent callbacks.            *)
RdcSend == INSTANCE RdcSendSpec
             WITH busy    <- spc # "idle",
                  call    <- [kind |-> req.kind, dest |-> req.dest, len |-> req.len],
                  results <- sent

(* qsend_packet and qsend_list implement the RDC send service: one       *)
(* result per attempted frame, OK for all but the last, no NOACK for a   *)
(* broadcast, DEFERRED only before the first frame, and every call       *)
(* returns, however the powercycle interrupt, received frames and        *)
(* turn_on/turn_off interleave with send_packet.                         *)
ImplementsRdcSendSpec == RdcSend!Spec

=============================================================================
