# TLA+ models of the CALIPSO radio and 802.11 components

This directory holds TLA+ specifications of the CALIPSO multichannel
ContikiMAC RDC driver (`src/mccontikimac/net/mac/mccontikimac.c`) and of the
802.11 side of the repository (`src/contiki80211/`): the network setup
process, the SLIP bridge of the slip-radio example and the UDP server
example. It also holds the TLC configurations that check them. `PROJECT.json` lists every
component, run, mutant, finding and hazard, and maps each definition to the
source lines it models.

## 1. The system and its parts

| Part | Source | State | Operations | Model |
|---|---|---|---|---|
| Power-cycle scheduler | `mccontikimac.c` `powercycle()` 501-698 and its helpers 398-493 | protothread location, `rec_channel`, `cca_count`, `silence_periods`, `periods`, root slot index, rtimer `rt` armed | one slice per PT_YIELD: hop and CCA loop, listen loop, sleep/overrun, always-on hopping | `McContikiMac` |
| Transmit engine | `send_packet` 728-1143, `qsend_packet` 1145, `qsend_list` 1154 | `we_are_sending`, `send_channel`, `is_receiver_awake`, the locals of send_packet, the burst list | entry and guards, CCAs, strobe train, ACK, finish, sent callbacks | `McContikiMac` |
| Receive path | `input_packet` 1212-1306, `recv_burst_off` 1205 | `we_are_receiving_burst`, ctimer `ct`, `received_seqnos` ring | filters, burst handling, duplicate ring, delivery | `McContikiMac` |
| RDC control | `init`, `turn_on`, `turn_off`, `on`, `off` | `mccontikimac_is_on`, `mccontikimac_keep_radio_on`, `radio_is_on` | turn on and off, with or without keeping the radio on | `McContikiMac` |
| Hop sequencer | hop macros 336-368, `receiver_channel_index` 386-396 | uint8 hop indices, current channels | HOP_CHANNEL, HOP_BC_CHANNEL, HOP_SEND_CHANNEL, reverse lookup | `HopSequence` |
| Phase cache | `src/micmac/net/mac/mcphase.h` (header only) | per-neighbour phase and channel seed | `phase_wait`, `phase_update` | inputs of `McContikiMac` |
| 802.11 network setup | `platform/system_proc/net_setup_process.c` | USB flags, EJECT lock, driver bring-up, poll flag, event queue, completed flag | init, poll handler (4 branches), thread on EXIT/CONTINUE; USB callbacks as environment | `NetSetup`, refining `NetSetupSpec` |
| SLIP bridge | `examples/ipv6/slip-radio/slip-net.c`, `slip-framer.c` | `uip_buf`, loop index, bytes on the line, packet buffer | `slipnet_input(_80211)`, `slip_send_packet`, `create_80211`, `parse_80211` | `SlipRadio` |
| UDP server example | `examples/udp-ipv6/udp-server.c` | `server_conn`, `seq_id` | process begin (`udp_new`, `udp_bind`), `tcpip_handler` | `UdpServer` |
| AR9170 state setter | `ar9170_state.c` | `ar->state` | set under the state lock | not modelled (section 7) |

The 802.11 parts run as Contiki processes: cooperative, each event or poll
handler runs to completion, so their hazards come from the order of events,
the environment (the USB stick, the network, the host) and failing calls,
not from preemption.

Two contexts share the radio:

- **The rtimer interrupt** runs `powercycle()`, a protothread. It runs one slice
  between two PT_YIELDs at a time, and nothing preempts a slice.
- **The Contiki process context** runs the driver entry points and the burst
  ctimer callback. Each runs to completion, one at a time, but the interrupt
  may preempt any of them between two steps.

The two contexts coordinate only through flags:

- `we_are_sending`: the interrupt skips its CCAs and keeps the radio.
- `we_are_receiving_burst`: the interrupt does not switch the radio off.
- `mccontikimac_is_on` and `mccontikimac_keep_radio_on`: these gate rescheduling
  and `off()`.

## 2. Modules and how they correspond to the code

### `McContikiMac.tla`: one node, both contexts

- **Variables** are the code's statics, named as in the code. There is also:
  - `radio`: the transceiver, as the record [`radio_is_on` flag, power, channel];
  - `pt`: the protothread location;
  - `spc` and `snd`: the send_packet location and its locals;
  - `req` and `sent`: the qsend call in progress and its callbacks;
  - `delivered`: frames handed to `NETSTACK_MAC.input`.
- **`Powercycle`** is one action per slice of the protothread:
  - PcResume: the rtimer fires at a yield point;
  - PcTopDutyCycle and PcTopAlwaysOn;
  - PcCcaSample and PcCcaDone: the for loop at line 560, including the switch
    to the broadcast channel from `CCA_COUNT_MAX` on;
  - PcListenPeriod, PcListenStop and PcListenEnd: the listen loop 594-646;
  - PcSleep and PcOverrun: lines 650-669. Time is abstracted away except
    where the code's control depends on it: an overrun (the cycle lasted
    longer than `CYCLE_TIME - 4 * CHECK_TIME`) needs the listen loop to have
    yielded in this cycle, recorded in `cycle_waited`;
  - PcRootHop and PcRootDone: the always-on hopping of lines 674-697.

  Each slice ends as the code does, either by scheduling the rtimer and
  yielding or by falling through. The schedule is
  `schedule_powercycle(_fixed)`, whose guard is `mccontikimac_is_on ||
  mccontikimac_keep_radio_on`.
- **Process context.** `TurnOn`, `TurnOff(keep)`, `RecvBurstOff`,
  `InputPacketAccept` and `InputPacketDrop`, `QSendPacket`, `QSendList` and
  `QSendListDuringBurst` are one action each, with `~InIrq` in the guard.
- **send_packet** (`SendStep`) is split where the interrupt can observe it:
  - entry;
  - the collision and pending guard (`we_are_sending` is already set there);
  - the CCAs;
  - every strobe, with a miss, a timeout or an ACK;
  - the finish, which includes the final `off()`, the restore of
    `mccontikimac_is_on`, the result and the sent callback.
- **`RadioReceive`** is the radio driver storing a frame in its RX buffer. It
  models the driver, not this repository's code.
- **Data abstraction.** A frame is a record holding only what the filters tell
  apart: sender, packet id, destination class, pending bit, and whether
  parsing and the header id succeed. It also holds the header length and the
  received length.

### `RdcSendSpec.tla`: the RDC send service

What the MAC layer above may rely on when it calls `NETSTACK_RDC.send` or
`send_list`: one result per attempted frame, in order; OK for every frame
but the last, and OK for the last only when the whole burst went out;
DEFERRED (nothing reported) only for a unicast before any frame was sent;
no NOACK for a broadcast; a burst refused at once with one COLLISION; and,
under weak fairness, every call returns. `McContikiMac` maps onto it with
`busy <- spc # "idle"`, the call `req` without its position, and the
results `sent`, and checks `RdcSend!Spec` (`ImplementsRdcSendSpec`).

### `HopSequence.tla`: the hop arithmetic of two neighbours

- **Actors.** A receiver R hops its receive and broadcast channels once per
  wake-up (`Hop`, lines 551-558). A sender S picks `HOP_SEND_CHANNEL` for an
  unknown-phase strobe train (`HopSend`, lines 889-894). An ACK makes S recover
  R's hop index with `receiver_channel_index` (`Encounter`, the ACK branch
  1053-1069).
- **Index width.** Indices are uint8 (`U8(x) == x % 256`). The macros are
  operators with the code's names.
- **Hop table.** `HOP_SEQUENCE_ARRAY` lives in `mccontikimac-hopseq.h`, which
  is not in the repository. The table and its dimensions are therefore
  CONSTANTS, and `MC_HopSequence.tla` gives tables whose rows are permutations,
  as the spec requires.
- **History variables.** `woken`, `hops` and `seed_age` record wake-ups modulo
  the row width, so the properties can talk about periodicity.

### `NetSetup.tla` and `NetSetupSpec.tla`: the network setup process

- **Variables.** `pc` is the thread's position (begin, waiting in
  PROCESS_WAIT_EVENT_UNTIL, done); `needspoll` and `queue` are the process's
  pending poll and posted events; `msc_plugged`, `wlan_started` and
  `eject_locked` are the flags the USB driver keeps; `dev` records how far
  `allocate_mac_resources`, `add_network_interface` and
  `start_network_setup_operation` brought the device; `usb` is the physical
  stick (environment).
- **Actions.** `ProcessBegin` (init and the first poll), one action per branch
  of the poll handler (`PollEject`, `PollMscAndWlan`, `PollWlanNoEject`,
  `PollWlanSetup`, the last holding the three driver calls with every
  outcome they have, the error path `_err_out` and the posts), and
  `ThreadEvent`. `Post` may lose the event when `PostMayFail`
  (PROCESS_ERR_FULL, ignored by the code). The USB driver's attach and detach
  callbacks and the user's unplugging are environment actions.
- **Refinement.** `NetSetupSpec` is what the process promises: start, bring
  the interface up at most once, then complete (only with the interface up,
  and eventually) or fail (only without it). `NetSetup` maps onto it with
  `AbsState` (from `pc` and the completed flag) and `dev.iface /\
  ibss_started`, and checks `Abs!Spec` as a property.

### `SlipRadio.tla`: the SLIP bridge

- **Node to host.** `SlipnetInput80211` (or `SlipnetInput` in the plain
  build; the build is chosen at Init) puts the frame of `Create80211` in
  `uip_buf`; `SlipSendByte` is one iteration of the loop of
  `slip_send_packet`, `SlipSendEnd` the closing END. `HostReads` decodes the
  line with `SlipDecode`, a RECURSIVE RFC 1055 reference receiver.
- **Host to node.** `HostSends` puts a host frame (any prefix of a header and
  up to `MaxData` bytes, so short frames too) followed by stale bytes in the
  packet buffer, and applies `Parse80211`, which reads each field before the
  `packetbuf_hdrreduce` that checks the length, as the code does.
- **Address.** `SlipnetInit80211` is `slipnet_init_80211`, which
  `add_network_interface` calls again once the interface exists: it copies
  the interface's MAC (`LocalAddr`) into `uip_lladdr`, or returns when the
  address is NULL; until then `uip_lladdr` holds its boot value
  (`BootLladdr`), and `Parse80211` compares the sender with the current one.
- **Data.** Bytes come from a set holding 0 and the SLIP specials; addresses
  are `RIMEADDR_SIZE` = 2 bytes of which `ETH_ALEN` = 1 are compared (8 and 6
  in the code; the shape of the comparison, a prefix, is the same).

### `UdpServer.tla`: the UDP server example

- `ServerBegin` is PROCESS_BEGIN up to the main loop: `seq_id = 0`,
  `udp_new` (which may return NULL when `UdpNewMayFail`) and `udp_bind`,
  which the code calls even on NULL; that write is undefined behaviour,
  modelled as a fault (`crashed`) or as a server with no connection.
- `ClientSend` puts a datagram from one of two clients, from port 3001 or
  4000, in uIP's input; `UdpInput` is uIP handing the oldest one to the
  connection when `Matches` (uIP's port and address test) holds, running
  `TcpipHandler` (narrow `ripaddr` to the sender, reply with the sequence
  byte, increment, reset `ripaddr`), or dropping it.

## 3. Runs

All configurations use one neighbour and packet ids {1,2,3}. The duplicate ring
holds 2 entries. A strobe train is 2 strobes, or 1 for a phase-locked receiver.
There is 1 unicast CCA per wake-up.

| Run | Config | Expect | Checks and what it shows |
|---|---|---|---|
| radio | `MC_radio.cfg` | pass | Two channels, 2 CCAs (one broadcast), 2 root slots, bursts of 2, one received frame. See the properties below. |
| ring | `MC_ring.cfg` | pass | `DuplicateWindow`: a repeated (sender, id) is dropped while it is in the ring, and delivered again only after `MAX_SEQNOS_LL` other frames. It is exercised with three ids, four received frames, and frames that fail parsing and the header checks. |
| hop4 | `MC_hop4.cfg` | pass | Row width 4 (it divides 256), two rows, through the uint8 wrap. See the properties below. |
| hop3_wrap | `MC_hop3.cfg` | violation | `HopPeriodic` at row width 3: see finding 2. |
| send_in_burst | `MC_send_in_burst.cfg` | violation | `NoSendDuringBurst`: see finding 1. |
| header_length | `MC_length.cfg` | violation | `DeliveredWithinReceived`: see finding 3. |
| setup | `MC_setup.cfg` | pass | Failing driver calls, a slow MSC detach, a user who unplugs and replugs. `TypeOK` (at most one verdict event queued: each posting branch stops polling), `SetupTerminates` (once the stick is up as WLAN, the process ends unless the stick is pulled), and `ImplementsNetSetupSpec`: the process implements `NetSetupSpec`, its liveness included: in particular completion is reported only with the interface added and the IBSS processes started. |
| setup_unconfigured | `MC_setup_unconfigured.cfg` | violation | `CompletedOnlyWhenConfigured`: finding 4. |
| setup_slow_detach | `MC_setup_slow_detach.cfg` | violation | `SetupSucceeds`: finding 5. |
| setup_replug | `MC_setup_replug.cfg` | violation | `StickEventuallyEjected`: finding 6. |
| slip | `MC_slip.cfg` | pass | `SlipRoundTrip`: the host's RFC 1055 receiver reads back exactly the frame built, whatever specials it holds; `ParseAcceptsWellFormed`: `parse_80211` accepts exactly the well-formed frames (short ones, with stale bytes behind them, are rejected) and hands down the bytes after the header. |
| udp | `MC_udp.cfg` | pass | `EveryRequestAnswered`: with two clients, every request from port 3001 waiting once the server is bound is answered, whoever asked before; it needs the reset of the remote address after each reply. |

The radio run checks:

- **TypeOK**: includes the CCA count bound.
- **StrobeTrainIntact**: while a strobe train is in progress, the radio stays
  powered on the send channel.
- **PowercycleScheduled**: while the RDC is on, the protothread is either
  running or has the rtimer armed.
- **KeepRadioOnHonoured**: while keep_radio_on is set, the radio is on.
- **RadioFlagTracksRadio**: `radio_is_on` agrees with the transceiver power
  outside the helpers.
- **BurstEventuallyEnds**: every burst reception ends.
- **ImplementsRdcSendSpec**: the send path implements `RdcSendSpec`, its
  liveness included, whatever the interrupt, received frames and
  turn_on/turn_off do meanwhile. Checking it first showed that the model let
  an overrunning cycle restart without ever yielding, starving send_packet;
  the code cannot overrun without the listen loop's waits, and the model now
  says so (`cycle_waited`).

The hop4 run checks:

- **RendezvousWithinRow**: an unknown-phase train meets R within one row of
  wake-ups.
- **SeedTracksReceiver**: the seed recovered from an ACK, advanced once per
  wake-up, names R's current channel.

Both hold at width 4, which divides 256. The row width is `MCMAC_NUM_CHANNELS`,
which `project-conf.h` takes from the build command (`CMD_NUM_CHANNELS`), and
the hop-table header is not in the repository, so no width is fixed by the
source. At width 3 the hop3_wrap run shows the wrap breaking periodicity, and
TLC finds both properties above violated there too (same
configuration).

Every property of a passing run has a mutant in `PROJECT.json`. A mutant is a
fault variant defined next to the operator it replaces, and TLC finds the
property violated under the run's own configuration. Examples:

- `off()` without the keep-radio-on test;
- `powercycle_turn_radio_off` without the sending/burst guard;
- rescheduling tested on `is_on` only;
- `recv_burst_off` that leaves the flag set;
- a scan of the ring that stops one entry short;
- a reverse lookup that returns the matching index and not the next one.

## 4. Findings

1. **qsend_packet sends during a burst** (line 1148). `qsend_packet` calls
   `send_packet` while `we_are_receiving_burst` is set. `send_packet` then
   switches the radio off at line 920 and again at line 1079, which ends the
   reception. `qsend_list` refuses the same case (line 1163).
2. **The hop sequence is not periodic across the index wrap** (line 353).
   `HOP_CHANNEL` pre-increments the uint8 `rec_channel_index` and takes it
   modulo the row width. With 3 channels, 255 -> 0 maps row position 0 to 0:
   R stays on one channel for two wake-ups and its sequence shifts by one
   every 256 wake-ups. The spec (section 8) says the hop sequence is periodic
   with the row length for all hop counters. At that width an unknown-phase
   train can also miss R (`RendezvousWithinRow`) and a recovered channel seed
   goes stale (`SeedTracksReceiver`).
3. **The header length is trusted** (line 1236). The MCCONTIKIMAC header length
   becomes the data length without a check against the bytes received. The
   spec (scenario C) says such a frame is dropped.
4. **Setup reports success without configuration** (net_setup_process.c:311).
   The result of `start_network_setup_operation` is ignored, so a failed tx
   queue or hardware configuration still ends in CONTINUE and the completed
   flag.
5. **A slow MSC detach aborts a good setup** (line 227). When WLAN is
   reported before the MSC flag is cleared (the comment at 245-249 expects a
   slow detach), the handler takes the "no EJECT sent" branch and posts EXIT.
6. **A replugged stick is never ejected** (line 238). The EJECT lock is
   released only by `net_setup_process_init`, so a stick pulled out after
   EJECT and plugged in again stays a mass-storage device.

Three more defects are reachable in the models but have no run of their own
(listed as hazards in `PROJECT.json`):

- **An incomplete burst list is not fully reported** (mccontikimac.c:1196).
  The loop stops at the first non-OK result, and the frames after it get no
  callback. The spec (section 4.3, scenario D) says they are reported
  COLLISION. `BurstListFullyReported` states the spec's claim and fails with
  bursts of 3; the truncation is plain in the loop itself, so the runs go
  to cases that need a search.
- **A lost post hangs the setup process** (net_setup_process.c:317). With
  `PostMayFail`, `SetupTerminates` fails: every `process_post` ignores
  PROCESS_ERR_FULL and the handler has stopped polling.
- **udp_bind on NULL** (udp-server.c:147). With `UdpNewMayFail`,
  `EveryRequestAnswered` fails: the code prints an error and binds NULL
  anyway, and a board that survives the write answers nothing.

One defect is outside every model: in TFT builds,
`net_setup_process_display_setup_result()` (net_setup_process.c:358)
formats the MAC address as 18 characters plus a NUL into an 18-byte block,
writing one byte past it on every completed setup. It also reads
`unique_vif->addr` without the NULL check that `slipnet_init_80211` makes.
It is a fixed-length fact, not a state to search for, and the heap and the
TFT process it affects are not in the repository.

## 5. Bounds, and why they are enough

- **Channels.** Two channels suffice to tell "on the send channel" from
  "retuned".
- **Ring capacity.** A ring of 2 with 3 ids reaches full, shift, and eviction.
- **Strobe limits.** Strobe limits of 2 and 1 reach a miss, a phase timeout,
  a retry and an ACK.
- **Wake-up counters.** `MAX_SILENCE_PERIODS=1` and `MAX_NONACTIVITY_PERIODS=2`
  reach both early exits of the listen loop and the "> MAX" branch. The code
  never tests the counters beyond MAX+1.
- **Burst size.** Bursts of 2 reach the middle and the last frame of a list.
- **Received frames.** `MaxFrames` bounds received frames, since every frame
  needs a radio action. Powercycle keeps running, so the system never
  deadlocks and deadlock is checked.
- **Hop indices.** Both hop runs cover all 256 index values, so the wrap
  happens; widths 4 and 3 are one that divides 256 and one that does not. `MaxTrains=2` gives S two different send channels.

- **NetSetup.** The state is finite without bounds: one process lifetime,
  one stick. Failures are switched on per run, so that each finding's run
  shows one cause.
- **SlipRadio.** Four byte values (0 and three specials, so every escape and
  an ESC_END byte that must not be unescaped), two addresses and payloads of
  up to 2 bytes: enough for a special in each field and for every short
  frame length 0..HDR_LEN.
- **UdpServer.** Two clients, two source ports and 3 datagrams: a request
  from a second client after a first one is answered, which is what the
  address reset is for. The sequence byte's wrap needs 256 requests and is
  not reached (see the hazards).

**State reductions.** Some variables are dead at certain points: the listen
counters after the listen loop, `cca_count` after the sleep, the root index
after the root loop, and the send locals after return. The code reinitialises
each one before its next read, so the model resets them where they die. Each
reset has a comment in the module.

## 6. Fairness

- **Interrupt slices: weak fairness** (`WF_vars(IrqStep)`). A slice runs to
  completion once it has started.
- **send_packet continuation: strong fairness** (`SF_vars(SendStep)`). Once
  called, send_packet continues whenever the interrupt is not running. The
  interrupt leaves the CPU after every slice, so the step is enabled infinitely
  often.
- **Burst ctimer: strong fairness** (`SF_vars(RecvBurstOff)`). It runs whenever
  the process context is free again.

No fairness is assumed for the environment: no frames, no sends and no turn
on/off are forced to happen.

- **NetSetup: weak fairness on the process** (`WF_vars(ProcessStep)`): the
  Contiki main loop keeps calling `process_run`, which delivers a pending
  poll or event. Weak fairness on the USB driver's detach callbacks and on a
  rebooting stick re-enumerating. None on the user plugging or pulling.
- **RdcSendSpec: weak fairness on the driver's progress** (`Report`,
  `Finish` or `Defer`): a call in progress is worked on until it returns;
  `McContikiMac` justifies it with its strong fairness on `SendStep`.
- **NetSetupSpec: weak fairness on `Complete`**: once the interface is up the
  completion is reported.
- **UdpServer: weak fairness on `ServerBegin` and `UdpInput`**: a started
  process runs its first slice, and uIP processes every datagram that
  arrived. None on clients.
- **SlipRadio: none**; its properties are invariants.

## 7. What is not modelled, and why

- **mcphase.** Only the header is in the repository. Its answers are
  nondeterministic inputs.
- **Features compiled out.** The broadcast rate limiter, the hardware
  ACK/CSMA variants and the MCU sleep branch are all off in the default build
  configuration.
- **Timing.** Time values appear only as the orders they allow.
- **`ar9170_state.c`.** Two setters of `ar->state` under the state lock.
  Nothing in the repository calls them (their callers are in the AR9170
  driver, which is not part of it); with Contiki's
  run-to-completion scheduling the lock has nothing to exclude, so a model
  of the setters alone would say nothing.
- **The sequence byte of the UDP server.** Its wrap is a numeric fact no
  client of this repository relies on.
- **Project configuration headers.** They are the constants of the models.
- **The TFT display and the LED.** `net_setup_process_display_setup_result`
  and the LED call only hand data to processes that are not in the
  repository; the process reads nothing back from them.

Everything else under `src/` that changes state is an action of a module.
What remains is either absent from the repository (mcphase.c, the AR9170
driver and its lock, uIP, the TFT process) or build configuration.

## 8. Further work

1. Compose `NetSetup` with `SlipRadio`: `add_network_interface` is what
   calls `slipnet_init_80211`, so host frames are accepted only after the
   setup added the interface.
2. Compose `NetSetup` with the IBSS setup process that waits for
   `is_net_setup_completed`, if its source is in scope.
3. Add the broadcast-rate and phase-lock paths if the mcphase source becomes
   available.
