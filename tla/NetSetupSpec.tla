---------------------------- MODULE NetSetupSpec ----------------------------
(***************************************************************************)
(* What the network setup process promises its users (the IBSS setup      *)
(* process and is_net_setup_completed()): once started it waits, brings   *)
(* the WLAN interface and the IBSS processes up at most once, and ends    *)
(* exactly once, completed only if the interface is up and failed only   *)
(* if it is not.  Once the interface is up, completion follows.           *)
(***************************************************************************)
VARIABLES
  state,   \* "idle", "waiting", "completed" or "failed"
  wlan     \* the WLAN interface is added and the IBSS processes started

vars == <<state, wlan>>

TypeOK ==
  /\ state \in {"idle", "waiting", "completed", "failed"}
  /\ wlan \in BOOLEAN

Init == state = "idle" /\ ~wlan

Start ==
  /\ state = "idle"
  /\ state' = "waiting"
  /\ UNCHANGED wlan

BringUp ==
  /\ state = "waiting" /\ ~wlan
  /\ wlan' = TRUE
  /\ UNCHANGED state

Complete ==
  /\ state = "waiting" /\ wlan
  /\ state' = "completed"
  /\ UNCHANGED wlan

Fail ==
  /\ state = "waiting" /\ ~wlan
  /\ state' = "failed"
  /\ UNCHANGED wlan

Next == Start \/ BringUp \/ Complete \/ Fail

Spec == Init /\ [][Next]_vars /\ WF_vars(Complete)
=============================================================================
