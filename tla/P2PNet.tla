------------------------------- MODULE P2PNet -------------------------------
(***************************************************************************)
(* The UDP path between the rendezvous server and the client programs.     *)
(*                                                                         *)
(* Every run of the master or of the slave program is one element of       *)
(* Masters or Slaves: it binds one socket, so the server sees it at one    *)
(* public address.  A program that is started again, or a NAT that gives   *)
(* it a new mapping, is another element.                                   *)
(*                                                                         *)
(* Datagrams are never removed from msgs.  A datagram that nobody takes is *)
(* a lost one, one that is taken twice is a duplicate, and the order in    *)
(* which they are taken is free: the model loses, duplicates, delays and   *)
(* reorders as UDP does, and a retransmission adds nothing new.            *)
(***************************************************************************)
EXTENDS Naturals, FiniteSets

CONSTANTS
  Masters, Slaves,  \* the runs of the two client programs
  Server,           \* the rendezvous server
  Site,             \* Site[c]: the NAT, hence the public IP, client c is behind
  None,             \* no client
  MaxTry            \* MAX_TRY, the same number in the server and in both clients

Clients == Masters \cup Slaves

ASSUME NetAssumption ==
  /\ Masters \cap Slaves = {}
  /\ Server \notin Clients
  /\ None \notin Clients
  /\ MaxTry \in Nat \ {0}

VARIABLE msgs       \* every datagram ever sent

(* A client registers with two addresses: the one the server sees in       *)
(* recv_sin, and the one of its own interface, which it puts in the packet *)
(* (host_sin).  The second means something at the client's own site only.  *)
Address == [net: {"public", "local", "none"}, of: Clients \cup {None}]

NoAddr    == [net |-> "none",   of |-> None]
Unset     == [net |-> "public", of |-> None]   \* uninitialised memory
Public(c) == [net |-> "public", of |-> c]
Local(c)  == [net |-> "local",  of |-> c]

(* The opcodes of JEANP2PPRO.h that cross the UDP socket.  A client's      *)
(* three-letter logo ("VUP", "GRQ", ...) is the opcode the server decodes  *)
(* it into.                                                                *)
Opcode == {"V_UAP", "V_UAP_S", "REQ_M_IP", "KEEP_CON", "GET_REQ", "POL_SENT",
           "TURN_REQ", "CMD_CHAN", "MASTER_QUIT", "V_RESP", "RESP_M_IP",
           "S_IP", "POL_REQ", "CON_ESTAB", "M_POL_REQ", "S_POL_REQ"}

(* The byte that qualifies an opcode.                                      *)
Code == {"0x00", "0x01", "0x02", "0x03", "0x04", "0x05", "0x06", "0x08",
         "0x09", "0x0a", "0x0b", "0x0e", "0x0f", "0x10", "0x11", "0x12",
         "0x14", "M", "S"}

Datagram == [src: Clients \cup {Server}, dst: Clients \cup {Server},
             op: Opcode, arg: Code, at: Address]

Packet(src, dst, op, arg) ==
  [src |-> src, dst |-> dst, op |-> op, arg |-> arg, at |-> NoAddr]

(* A datagram that carries a sockaddr_in.                                  *)
AddrPacket(src, dst, op, a) ==
  [src |-> src, dst |-> dst, op |-> op, arg |-> "0x00", at |-> a]

(* What client c sends to a peer's address: a local address leads nowhere  *)
(* from another site, and one that nobody wrote leads nowhere at all.      *)
ToPeer(c, a, op, arg) ==
  IF a.of = None \/ (a.net = "local" /\ Site[c] # Site[a.of])
  THEN {}
  ELSE {Packet(c, a.of, op, arg)}

Send(ps) == msgs' = msgs \cup ps

Inbox(x) == {p \in msgs : p.dst = x}

=============================================================================
