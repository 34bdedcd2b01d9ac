------------------------------ MODULE NetSetup ------------------------------
(***************************************************************************)
(* The 802.11 network setup process of the AR9170 platform                 *)
(* (src/contiki80211/src/platform/system_proc/net_setup_process.c).        *)
(*                                                                         *)
(* The process polls itself until the USB WLAN stick, which first shows    *)
(* up as a mass-storage device (MSC), has been ejected and has come back   *)
(* as the WLAN device; it then allocates the driver structures, brings up  *)
(* the interface, configures the hardware and posts CONTINUE to itself, or *)
(* posts EXIT on an error.  The thread waits for one of the two events.    *)
(*                                                                         *)
(* The Contiki scheduler delivers a pending poll or a queued event to the  *)
(* process one at a time; each handler runs to completion.  The USB host   *)
(* driver is the environment: its attach and detach callbacks set the two  *)
(* flags the poll handler reads.  Every driver call that can fail is a     *)
(* nondeterministic choice of the outcomes its code has.                   *)
(***************************************************************************)
EXTENDS Naturals, Sequences

CONSTANTS
  UsbInit,          \* initial physical states of the stick
  DriverMayFail,    \* the driver calls may fail
  SlowDetach,       \* the WLAN attach may be reported before the MSC detach
  PostMayFail,      \* process_post may find the event queue full
  UserUnplug        \* the stick may be pulled out (and plugged in again)

Events == {"EXIT", "CONTINUE"}

(* Physical state of the stick: not there, mass storage, rebooting into    *)
(* its WLAN firmware after EJECT, WLAN device.                             *)
UsbStates == {"absent", "msc", "rebooting", "wlan"}

ASSUME UsbInit \subseteq {"absent", "rebooting"}
ASSUME {DriverMayFail, SlowDetach, PostMayFail, UserUnplug} \subseteq BOOLEAN

(* How far the driver structures and the hardware have been brought up.  *)
Dev == [ar: BOOLEAN,          \* *ar9170_get_device_pt() != NULL
        hw: BOOLEAN,          \* ieee80211 hw structure allocated and linked
        started: BOOLEAN,     \* ar9170_op_start succeeded
        iface: BOOLEAN,       \* ar9170_op_add_interface succeeded
        configured: BOOLEAN]  \* tx queues and hw configuration applied

NoDev == [ar |-> FALSE, hw |-> FALSE, started |-> FALSE, iface |-> FALSE,
          configured |-> FALSE]

VARIABLES
  usb,                    \* physical state of the stick (environment)
  msc_plugged,            \* ar9170_is_mass_storage_device_plugged()
  wlan_started,           \* ar9170_is_wlan_device_started()
  eject_locked,           \* ar9170_eject_is_semaphore_locked(): EJECT sent
  dev,                    \* driver structures and hardware state
  ibss_started,           \* ibss_setup and net_scheduler processes started
  pc,                     \* process thread: "begin", "wait" or "done"
  needspoll,              \* process_poll(&net_setup_process) pending
  queue,                  \* events posted to the process, oldest first
  net_setup_process_completed_flag

vars == <<usb, msc_plugged, wlan_started, eject_locked, dev, ibss_started,
          pc, needspoll, queue, net_setup_process_completed_flag>>

(* is_net_setup_completed(). *)
is_net_setup_completed == net_setup_process_completed_flag

-----------------------------------------------------------------------------
(* The outcomes of a driver step: its result and the device state it      *)
(* leaves; failures only where the code has them and DriverMayFail.       *)
Outcome(ok, d) == [ok |-> ok, dev |-> d]
Fails(set) == IF DriverMayFail THEN set ELSE {}

(* allocate_mac_resources(): -EINVAL if the device is already allocated;  *)
(* ar9170_alloc() may return NULL; __ieee80211_sta_init_config() may fail *)
(* after the AR9170 struct is allocated; the wiphy or beacon_iter checks  *)
(* may fail after the hw structure is linked.                             *)
AllocateMacResources(d) ==
  IF d.ar THEN {Outcome(FALSE, d)}
  ELSE LET withAr == [d EXCEPT !.ar = TRUE]
           withHw == [withAr EXCEPT !.hw = TRUE]
       IN {Outcome(TRUE, withHw)}
          \cup Fails({Outcome(FALSE, d), Outcome(FALSE, withAr),
                      Outcome(FALSE, withHw)})

(* add_network_interface(): firmware parse, device init or registration   *)
(* may fail before the device starts; ar9170_op_start() may fail;         *)
(* ar9170_op_add_interface() may fail after the device started.           *)
AddNetworkInterface(d) ==
  LET started == [d EXCEPT !.started = TRUE]
  IN {Outcome(TRUE, [started EXCEPT !.iface = TRUE])}
     \cup Fails({Outcome(FALSE, d), Outcome(FALSE, started)})

(* start_network_setup_operation(): configuring a tx queue or the          *)
(* hardware may fail, leaving the device unconfigured.                    *)
StartNetworkSetupOperation(d) ==
  {Outcome(TRUE, [d EXCEPT !.configured = TRUE])} \cup Fails({Outcome(FALSE, d)})

(* process_post(&net_setup_process, ev, NULL): queued, unless the event   *)
(* queue is full (PROCESS_ERR_FULL, which the code does not test).        *)
Post(ev) ==
  \/ queue' = Append(queue, ev)
  \/ PostMayFail /\ UNCHANGED queue

(* Fault variant of ErrOut: the error path returns without posting.       *)
ErrOutSilent == UNCHANGED queue

(* _err_out: post EXIT and do not poll again. *)
ErrOut == Post("EXIT")

-----------------------------------------------------------------------------
Init ==
  /\ usb \in UsbInit
  /\ msc_plugged = FALSE /\ wlan_started = FALSE /\ eject_locked = FALSE
  /\ dev = NoDev /\ ibss_started = FALSE
  /\ pc = "begin" /\ needspoll = FALSE /\ queue = <<>>
  /\ net_setup_process_completed_flag = FALSE

(* PROCESS_BEGIN: net_setup_process_init() releases the EJECT lock, marks *)
(* both USB devices stopped and clears the completion flag; then the      *)
(* process polls itself and waits for EXIT or CONTINUE.                   *)
ProcessBegin ==
  /\ pc = "begin"
  /\ eject_locked' = FALSE /\ msc_plugged' = FALSE /\ wlan_started' = FALSE
  /\ net_setup_process_completed_flag' = FALSE
  /\ needspoll' = TRUE /\ pc' = "wait"
  /\ UNCHANGED <<usb, dev, ibss_started, queue>>

(* Poll handler, MSC plugged and WLAN not started: send EJECT unless the  *)
(* EJECT lock shows it was sent; poll again.                              *)
PollEject ==
  /\ pc = "wait" /\ needspoll
  /\ msc_plugged /\ ~wlan_started
  /\ eject_locked' = TRUE
  /\ usb' = IF ~eject_locked /\ usb = "msc" THEN "rebooting" ELSE usb
  /\ UNCHANGED <<msc_plugged, wlan_started, dev, ibss_started, pc, needspoll,
                 queue, net_setup_process_completed_flag>>

(* Fault variant of PollMscAndWlan: the return after the post is missing, *)
(* so the handler polls again.                                            *)
PollMscAndWlanNoReturn ==
  /\ pc = "wait" /\ needspoll
  /\ msc_plugged /\ wlan_started
  /\ Post("EXIT")
  /\ UNCHANGED <<usb, msc_plugged, wlan_started, eject_locked, dev,
                 ibss_started, pc, needspoll, net_setup_process_completed_flag>>

(* Poll handler, MSC plugged and WLAN started: "serious error", post EXIT *)
(* and do not poll again.                                                 *)
PollMscAndWlan ==
  /\ pc = "wait" /\ needspoll
  /\ msc_plugged /\ wlan_started
  /\ needspoll' = FALSE
  /\ Post("EXIT")
  /\ UNCHANGED <<usb, msc_plugged, wlan_started, eject_locked, dev,
                 ibss_started, pc, net_setup_process_completed_flag>>

(* Poll handler, WLAN started but EJECT never sent: post EXIT. *)
PollWlanNoEject ==
  /\ pc = "wait" /\ needspoll
  /\ ~msc_plugged /\ wlan_started /\ ~eject_locked
  /\ needspoll' = FALSE
  /\ Post("EXIT")
  /\ UNCHANGED <<usb, msc_plugged, wlan_started, eject_locked, dev,
                 ibss_started, pc, net_setup_process_completed_flag>>

(* Poll handler, WLAN started after EJECT: allocate the MAC resources,    *)
(* add the network interface, start the setup operation (its result is    *)
(* not tested), start the IBSS and scheduler processes and post CONTINUE; *)
(* on an allocation or interface error go to _err_out.  No poll again.    *)
PollWlanSetup ==
  /\ pc = "wait" /\ needspoll
  /\ ~msc_plugged /\ wlan_started /\ eject_locked
  /\ needspoll' = FALSE
  /\ \E a \in AllocateMacResources(dev) :
       IF ~a.ok THEN dev' = a.dev /\ ErrOut /\ UNCHANGED ibss_started
       ELSE \E n \in AddNetworkInterface(a.dev) :
              IF ~n.ok THEN dev' = n.dev /\ ErrOut /\ UNCHANGED ibss_started
              ELSE \E s \in StartNetworkSetupOperation(n.dev) :
                     /\ dev' = s.dev
                     /\ ibss_started' = TRUE
                     /\ Post("CONTINUE")
  /\ UNCHANGED <<usb, msc_plugged, wlan_started, eject_locked, pc,
                 net_setup_process_completed_flag>>

(* Fault variant of ThreadEvent: the flag is set after the out: label,   *)
(* which the err_out path falls through to.                               *)
ThreadEventFlagOnAnyEvent ==
  /\ pc = "wait" /\ queue # <<>>
  /\ net_setup_process_completed_flag' = TRUE
  /\ queue' = Tail(queue) /\ pc' = "done" /\ needspoll' = FALSE
  /\ UNCHANGED <<usb, msc_plugged, wlan_started, eject_locked, dev,
                 ibss_started>>

(* The thread resumes on EXIT or CONTINUE: CONTINUE sets the completion   *)
(* flag (and the green LED); either way the process ends.                 *)
ThreadEvent ==
  /\ pc = "wait" /\ queue # <<>>
  /\ net_setup_process_completed_flag' = (Head(queue) = "CONTINUE")
  /\ queue' = Tail(queue) /\ pc' = "done" /\ needspoll' = FALSE
  /\ UNCHANGED <<usb, msc_plugged, wlan_started, eject_locked, dev,
                 ibss_started>>

PollHandler == PollEject \/ PollMscAndWlan \/ PollWlanNoEject \/ PollWlanSetup

ProcessStep == ProcessBegin \/ PollHandler \/ ThreadEvent

-----------------------------------------------------------------------------
(* The USB host driver.  The stick is plugged in after the process has    *)
(* started; after EJECT it reboots into its WLAN firmware.  The attach    *)
(* callbacks set the flags; the detach callbacks clear them after the     *)
(* stick left that mode (after EJECT, or when pulled out).                *)
MscAttach ==
  /\ pc # "begin" /\ usb = "absent"
  /\ usb' = "msc" /\ msc_plugged' = TRUE
  /\ UNCHANGED <<wlan_started, eject_locked, dev, ibss_started, pc, needspoll,
                 queue, net_setup_process_completed_flag>>

MscDetach ==
  /\ msc_plugged /\ usb # "msc"
  /\ msc_plugged' = FALSE
  /\ UNCHANGED <<usb, wlan_started, eject_locked, dev, ibss_started, pc,
                 needspoll, queue, net_setup_process_completed_flag>>

WlanAttach ==
  /\ pc # "begin" /\ usb = "rebooting"
  /\ SlowDetach \/ ~msc_plugged
  /\ usb' = "wlan" /\ wlan_started' = TRUE
  /\ UNCHANGED <<msc_plugged, eject_locked, dev, ibss_started, pc, needspoll,
                 queue, net_setup_process_completed_flag>>

WlanDetach ==
  /\ wlan_started /\ usb # "wlan"
  /\ wlan_started' = FALSE
  /\ UNCHANGED <<usb, msc_plugged, eject_locked, dev, ibss_started, pc,
                 needspoll, queue, net_setup_process_completed_flag>>

Unplug ==
  /\ UserUnplug /\ usb # "absent"
  /\ usb' = "absent"
  /\ UNCHANGED <<msc_plugged, wlan_started, eject_locked, dev, ibss_started,
                 pc, needspoll, queue, net_setup_process_completed_flag>>

Usb == MscAttach \/ MscDetach \/ WlanAttach \/ WlanDetach \/ Unplug

Next == ProcessStep \/ Usb

(* The Contiki main loop keeps running process_run(), so a pending poll or *)
(* event is eventually delivered; the USB host driver eventually reports  *)
(* a detach, and a rebooting stick re-enumerates.  Nothing forces the     *)
(* user to plug the stick in or to pull it out.                           *)
Spec == Init /\ [][Next]_vars /\ WF_vars(ProcessStep)
        /\ WF_vars(MscDetach) /\ WF_vars(WlanDetach) /\ WF_vars(WlanAttach)

-----------------------------------------------------------------------------
(* Types; the handler stops polling whenever it posts, so at most one      *)
(* verdict event is ever queued.                                          *)
TypeOK ==
  /\ usb \in UsbStates /\ dev \in Dev /\ pc \in {"begin", "wait", "done"}
  /\ {msc_plugged, wlan_started, eject_locked, ibss_started, needspoll,
      net_setup_process_completed_flag} \subseteq BOOLEAN
  /\ queue \in Seq(Events) /\ Len(queue) <= 1

(* Completion means the hardware configuration of                          *)
(* start_network_setup_operation() was applied.                           *)
CompletedOnlyWhenConfigured ==
  is_net_setup_completed => dev.configured

(* A stick that is ejected and comes back as WLAN, with no driver call     *)
(* failing, is set up: the process does not end without completing.       *)
SetupSucceeds == pc = "done" => is_net_setup_completed

(* Once the stick is up as the WLAN device, the process eventually ends    *)
(* (with the flag set or with an error) unless the stick is pulled out:   *)
(* no path of the poll handler stops polling without an event that ends   *)
(* the wait.                                                              *)
SetupTerminates == (usb = "wlan") ~> (pc = "done" \/ usb = "absent")

(* A mass-storage stick plugged in while the process runs is eventually    *)
(* ejected (or pulled out): the poll handler sends EJECT for it.          *)
StickEventuallyEjected == (pc = "wait" /\ usb = "msc") ~> (usb # "msc")

-----------------------------------------------------------------------------
(* Refinement mapping onto NetSetupSpec: the thread's position and the     *)
(* completion flag give the abstract state; the interface is up when the  *)
(* driver added it and the IBSS processes were started.                   *)
AbsState ==
  CASE pc = "begin"                          -> "idle"
    [] pc = "wait"                           -> "waiting"
    [] net_setup_process_completed_flag      -> "completed"
    [] OTHER                                 -> "failed"

Abs == INSTANCE NetSetupSpec WITH state <- AbsState,
                                  wlan <- dev.iface /\ ibss_started

(* The process implements NetSetupSpec: every step of the poll handler,    *)
(* the thread and the USB callbacks is a step of the abstract process or  *)
(* leaves its state alone, so the flag is only set for an interface that  *)
(* is up, the process never fails after bringing it up, and an interface  *)
(* that is up is eventually reported completed.                           *)
ImplementsNetSetupSpec == Abs!Spec
=============================================================================
