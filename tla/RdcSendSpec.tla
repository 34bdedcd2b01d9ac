---------------------------- MODULE RdcSendSpec -----------------------------
(***************************************************************************)
(* The send service of the RDC layer as the MAC layer above sees it       *)
(* (NETSTACK_RDC.send / send_list, i.e. qsend_packet and qsend_list of     *)
(* mccontikimac.c).  A call hands over one frame or a burst of up to      *)
(* MaxBurst frames; the driver reports one result per attempted frame, in *)
(* order, and returns.  The frames of a burst are attempted while the     *)
(* previous one went OK, so every result but the last is OK, and an OK   *)
(* last result means the whole burst went out.  A unicast may be         *)
(* deferred to the phase module before anything is sent: then nothing is *)
(* reported.  A broadcast is never answered NOACK.  Every call returns.   *)
(***************************************************************************)
EXTENDS Naturals, Sequences

CONSTANTS MaxBurst

Dests   == {"bcast", "ucast"}
Calls   == [kind: {"packet", "list"}, dest: Dests, len: 1..MaxBurst]

(* Results a frame to dest may be reported with. *)
Outcomes(dest) ==
  IF dest = "bcast" THEN {"OK", "COLLISION", "ERR_FATAL"}
  ELSE {"OK", "NOACK", "COLLISION", "ERR_FATAL"}

VARIABLES
  busy,      \* a call is in progress
  call,      \* the last call
  results    \* the results reported for it, in order

vars == <<busy, call, results>>

TypeOK ==
  /\ busy \in BOOLEAN /\ call \in Calls
  /\ results \in Seq({"OK", "NOACK", "COLLISION", "ERR_FATAL"})

Init ==
  /\ ~busy
  /\ call = [kind |-> "packet", dest |-> "ucast", len |-> 1]
  /\ results = <<>>

(* The MAC layer calls the driver. *)
Call ==
  /\ ~busy
  /\ \E c \in Calls : call' = c /\ (c.kind = "packet" => c.len = 1)
  /\ results' = <<>> /\ busy' = TRUE

(* A burst refused at once: one COLLISION for its head, no attempt. *)
Refuse ==
  /\ ~busy
  /\ \E c \in Calls : call' = c /\ c.kind = "list"
  /\ results' = <<"COLLISION">> /\ UNCHANGED busy

(* A frame of the burst went out and the next one follows. *)
Report ==
  /\ busy /\ Len(results) + 1 < call.len
  /\ results' = Append(results, "OK")
  /\ UNCHANGED <<busy, call>>

(* The last attempted frame is reported and the call returns. *)
Finish ==
  /\ busy /\ Len(results) < call.len
  /\ \E r \in Outcomes(call.dest) :
       /\ r = "OK" => Len(results) + 1 = call.len
       /\ results' = Append(results, r)
  /\ busy' = FALSE /\ UNCHANGED call

(* A unicast deferred before any frame was sent: nothing reported. *)
Defer ==
  /\ busy /\ results = <<>> /\ call.dest = "ucast"
  /\ busy' = FALSE /\ UNCHANGED <<call, results>>

Next == Call \/ Refuse \/ Report \/ Finish \/ Defer

(* The driver keeps working on a call until it returns. *)
Spec == Init /\ [][Next]_vars /\ WF_vars(Report \/ Finish \/ Defer)
=============================================================================
