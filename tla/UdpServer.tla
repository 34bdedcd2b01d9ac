----------------------------- MODULE UdpServer -----------------------------
(***************************************************************************)
(* The UDP server example (src/contiki80211/src/examples/udp-ipv6/         *)
(* udp-server.c).  The process opens a connection with remote port 3001,  *)
(* binds it to local port 3000 and then answers every datagram it is      *)
(* handed with a reply carrying its sequence number: tcpip_handler()      *)
(* points the connection at the sender, sends, and resets the remote      *)
(* address so that any node may talk to it next.                          *)
(*                                                                         *)
(* uIP's demultiplexing of incoming datagrams to the connection (which is *)
(* not in the repository) is modelled as uip_udp_conn matching does it:   *)
(* local port equal, remote port equal or 0, remote address equal or      *)
(* unspecified.  Addresses are model values, datagrams carry an id.       *)
(***************************************************************************)
EXTENDS Naturals, Sequences, FiniteSets

CONSTANTS
  Clients,          \* client addresses
  Unspecified,      \* model value: the all-zero address
  NULL,             \* model value: no connection
  MaxRequests,      \* datagrams the clients send in one behaviour
  UdpNewMayFail     \* udp_new() may find no free connection

Ports == {3000, 3001, 4000}

ASSUME Unspecified \notin Clients /\ MaxRequests \in Nat
ASSUME UdpNewMayFail \in BOOLEAN

VARIABLES
  pc,               \* "begin", "loop", or "crashed" (after a write through NULL)
  server_conn,      \* the connection, or NULL
  seq_id,
  net,              \* datagrams in flight to the server: [id, src, sport, dport]
  replies,          \* replies sent: [id of the request, to, rport, seq]
  accepted          \* requests handed to tcpip_handler, in order

vars == <<pc, server_conn, seq_id, net, replies, accepted>>

-----------------------------------------------------------------------------
(* udp_new(NULL, UIP_HTONS(3001), NULL): a connection to any address at   *)
(* remote port 3001 with no local port yet, or NULL when none is free.    *)
UdpNew ==
  {[ripaddr |-> Unspecified, lport |-> 0, rport |-> 3001]}
  \cup (IF UdpNewMayFail THEN {NULL} ELSE {})

(* uIP delivers datagram d to conn: ports and remote address match.       *)
Matches(conn, d) ==
  /\ conn # NULL
  /\ conn.lport = d.dport
  /\ conn.rport \in {0, d.sport}
  /\ conn.ripaddr \in {Unspecified, d.src}

Init ==
  /\ pc = "begin" /\ server_conn = NULL /\ seq_id = 0
  /\ net = <<>> /\ replies = <<>> /\ accepted = <<>>

(* PROCESS_BEGIN to the main loop: seq_id = 0, udp_new, then udp_bind     *)
(* to local port 3000, which the code does even when udp_new returned     *)
(* NULL: a write through NULL, which may fault or go unnoticed.           *)
ServerBegin ==
  /\ pc = "begin"
  /\ seq_id' = 0
  /\ \E c \in UdpNew :
       IF c = NULL
       THEN /\ pc' \in {"loop", "crashed"} /\ server_conn' = NULL
       ELSE /\ pc' = "loop" /\ server_conn' = [c EXCEPT !.lport = 3000]
  /\ UNCHANGED <<net, replies, accepted>>

(* A client sends a datagram to the server's port 3000 from its own port. *)
ClientSend ==
  /\ Len(accepted) + Len(net) < MaxRequests
  /\ \E c \in Clients, sp \in {3001, 4000} :
       net' = Append(net, [id |-> Len(accepted) + Len(net) + 1, src |-> c,
                           sport |-> sp, dport |-> 3000])
  /\ UNCHANGED <<pc, server_conn, seq_id, replies, accepted>>

(* Fault variant of TcpipHandler: the remote address is not reset.        *)
TcpipHandlerNoReset(d) ==
  /\ replies' = Append(replies, [id |-> d.id, to |-> d.src,
                                 rport |-> server_conn.rport,
                                 seq |-> seq_id % 256])
  /\ seq_id' = seq_id + 1
  /\ server_conn' = [server_conn EXCEPT !.ripaddr = d.src]

(* tcpip_handler() on new data d: point the connection at the sender,     *)
(* reply with the sequence number (one byte of the buffer), increment it, *)
(* send, and reset the remote address.                                    *)
TcpipHandler(d) ==
  LET conn == [server_conn EXCEPT !.ripaddr = d.src]
  IN /\ replies' = Append(replies, [id |-> d.id, to |-> conn.ripaddr,
                                    rport |-> conn.rport,
                                    seq |-> seq_id % 256])
     /\ seq_id' = seq_id + 1
     /\ server_conn' = [conn EXCEPT !.ripaddr = Unspecified]

(* uIP takes the oldest datagram: delivered to the connection as a        *)
(* tcpip_event (the process yields in its main loop), or dropped.         *)
UdpInput ==
  /\ net # <<>>
  /\ LET d == Head(net)
     IN IF pc = "loop" /\ Matches(server_conn, d)
        THEN /\ TcpipHandler(d)
             /\ accepted' = Append(accepted, d)
        ELSE UNCHANGED <<server_conn, seq_id, replies, accepted>>
  /\ net' = Tail(net)
  /\ UNCHANGED pc

Next == ServerBegin \/ ClientSend \/ UdpInput

(* Once the process has been started (its AUTOSTART line is commented      *)
(* out; the application starts it) it runs its PROCESS_BEGIN part, and    *)
(* the Contiki main loop keeps handing uIP the datagrams that arrive.     *)
Spec == Init /\ [][Next]_vars /\ WF_vars(ServerBegin) /\ WF_vars(UdpInput)

-----------------------------------------------------------------------------
(* Every datagram a client sends from port 3001 that is still waiting in  *)
(* uIP's input once the server is in its main loop is eventually          *)
(* answered, whichever client sent the one before it.  (Datagrams that    *)
(* arrive before udp_bind are dropped by uIP.)                            *)
EveryRequestAnswered ==
  \A k \in 1..MaxRequests :
    (pc = "loop" /\ \E j \in 1..Len(net) : net[j].id = k /\ net[j].sport = 3001)
      ~> (\E j \in 1..Len(replies) : replies[j].id = k)
=============================================================================
