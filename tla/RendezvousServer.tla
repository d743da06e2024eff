-------------------------- MODULE RendezvousServer --------------------------
(***************************************************************************)
(* The main thread of the P2P server (p2p-src/server/main.c).              *)
(*                                                                         *)
(* The thread blocks in one recvfrom at a time; spc names it:              *)
(*   "main"   the dispatch loop of main()                                  *)
(*   "sip"    Send_S_IP, telling the master where the slave is             *)
(*   "mclean" POL_SENT, emptying the socket before the next                *)
(*   "mpol"   POL_SENT, waiting for the master to probe the slave          *)
(*   "sclean" POL_SENT, emptying the socket again                          *)
(*   "spol"   POL_SENT, waiting for the slave to probe the master          *)
(*   "estab"  POL_SENT, sending the verdict to both                        *)
(*   "crashed", "exited"  the process died, or main returned               *)
(* A step runs from one recvfrom to the next.  Each of the four nested     *)
(* loops sends its request on every pass, makes at most MaxTry passes and  *)
(* drops what it does not look for, so that a pass that ends on a timeout  *)
(* and one that ends on some other datagram are the same step.             *)
(* clean_rec_buff has no count: it receives until 100 ms bring nothing.    *)
(*                                                                         *)
(* Every lookup walks the list with global variables, and while the TURN   *)
(* relay runs, its thread moves them too (TurnRelay has the two walks step *)
(* by step).  Here such a lookup may find any entry, or none.              *)
(***************************************************************************)
EXTENDS P2PNet, Sequences

CONSTANTS
  PeerSheetLen,  \* PEER_SHEET_LEN
  BadCred        \* clients whose USERNAME is not the server's

ASSUME ServerAssumption ==
  /\ PeerSheetLen \in Nat \ {0}
  /\ BadCred \subseteq Clients

VARIABLES
  spc, tries,
  nodes,         \* the list, the oldest entry first; every name but UNAME is refused
  tmpn,          \* the entry that POL_SENT or Send_S_IP is at work on
  poleRes,       \* its pole_res, which every POL_SENT writes before it reads it
  uname,         \* the global Uname: the name in the last request that had one
  sheetIndex,    \* Peers_Sheet_Index
  turnSign, turnThreadRunning,
  cmdThreadRunning,
  polRuns,       \* history: connection attempts (POL_SENT) begun, 2 for more
  disturbed      \* history: a relay thread made a lookup go wrong, or died of one

serverVars == <<spc, tries, nodes, tmpn, poleRes, uname, sheetIndex, turnSign,
                turnThreadRunning, cmdThreadRunning, polRuns, disturbed>>

threadVars == <<turnSign, turnThreadRunning, cmdThreadRunning>>

Entry(m) == [m |-> m, s |-> None, status |-> "INIT_P"]

UName(c) == IF c \in BadCred THEN "other" ELSE "UNAME"

(* find_item, left alone: list_add puts a new entry first.  0 is NULL.     *)
FindPeer(name) == IF name = "UNAME" THEN Len(nodes) ELSE 0

(* find_item_by_ip, left alone.                                            *)
SharesIP(n, c) == \/ Site[c] = Site[n.m]
                  \/ n.s # None /\ Site[c] = Site[n.s]

FindByIP(c) ==
  CHOOSE i \in 0 .. Len(nodes) :
    /\ i # 0 => SharesIP(nodes[i], c)
    /\ \A j \in i + 1 .. Len(nodes) : ~SharesIP(nodes[j], c)

(* What a lookup that should give i can give.  One that should give        *)
(* nothing compares nothing that matches.                                  *)
Lookup(i) == IF turnThreadRunning /\ i # 0 THEN 0 .. Len(nodes) ELSE {i}

(* The lookups of one step, all of the same, gave the results is.          *)
LooksUp(i, is) ==
  /\ is \subseteq Lookup(i)
  /\ disturbed' = (disturbed \/ is # {i})

ServerTypeOK ==
  /\ spc \in {"main", "sip", "mclean", "mpol", "sclean", "spol", "estab",
              "crashed", "exited"}
  /\ tries \in 0 .. MaxTry
  /\ nodes \in Seq([m: Masters, s: Slaves \cup {None}, status: {"INIT_P", "M_GET_SLAVE_IP"}])
  /\ tmpn \in 0 .. Len(nodes) /\ poleRes \in {0, 1}
  /\ uname \in {"", "UNAME", "other"}
  /\ sheetIndex \in 0 .. PeerSheetLen
  /\ turnSign \in BOOLEAN
  /\ turnThreadRunning \in BOOLEAN
  /\ cmdThreadRunning \in BOOLEAN
  /\ polRuns \in 0 .. 2
  /\ disturbed \in BOOLEAN

ServerInit ==
  /\ spc = "main"
  /\ tries = 0
  /\ nodes = <<>>
  /\ tmpn = 0 /\ poleRes = 0
  /\ uname = ""
  /\ sheetIndex = 0
  /\ turnSign = FALSE
  /\ turnThreadRunning = FALSE
  /\ cmdThreadRunning = FALSE
  /\ polRuns = 0
  /\ disturbed = FALSE

----------------------------------------------------------------------------
(* What each nested loop sends on every pass.                              *)

(* Send_CMD: the answer goes to recv_sin, the sender of the last datagram. *)
Answer(p, op, arg) == {Packet(Server, p.src, op, arg)}

(* Two clients with one public IP are given each other's local address.    *)
(* Before a slave is registered its address is uninitialised memory.       *)
AddressFor(c, d) ==
  IF d = None THEN Unset ELSE IF Site[c] = Site[d] THEN Local(d) ELSE Public(d)

SlaveIP(n) == {AddrPacket(Server, n.m, "S_IP", AddressFor(n.m, n.s))}

(* Send_M_IP writes to the registered slave, whoever asked.                *)
MasterIP(n) ==
  IF n.s = None THEN {}
  ELSE {AddrPacket(Server, n.s, "RESP_M_IP", AddressFor(n.s, n.m))}

ToMaster(n, op, arg) == {Packet(Server, n.m, op, arg)}

ToSlave(n, op, arg) ==
  IF n.s = None THEN {} ELSE {Packet(Server, n.s, op, arg)}

(* Both look the name up again, and send nothing when it is not found.     *)
MPolReq(i) == IF i = 0 THEN {} ELSE ToMaster(nodes[i], "M_POL_REQ", "0x00")
SPolReq(i) == IF i = 0 THEN {} ELSE ToSlave(nodes[i], "S_POL_REQ", "0x00")

Verdict(n, pole) ==
  LET res == IF pole = 0 THEN "0x02" ELSE "0x01"
  IN  ToMaster(n, "CON_ESTAB", res) \cup ToSlave(n, "CON_ESTAB", res)

----------------------------------------------------------------------------
(* The dispatch loop.                                                      *)

AtMain(p, op) == spc = "main" /\ p.op = op

(* Without Find_Peer: the last master to log in is registered.             *)
MasterLogin_Replaces(p) ==
  /\ AtMain(p, "V_UAP") /\ p.src \notin BadCred
  /\ uname' = UName(p.src)
  /\ nodes' = <<Entry(p.src)>>
  /\ Send(Answer(p, "V_RESP", "0x01"))
  /\ UNCHANGED <<spc, tries, tmpn, poleRes, sheetIndex, threadVars, polRuns, disturbed>>

(* V_UAP: a master logs in.  The first one is registered and never         *)
(* replaced; a later one is told 3, "verified but not registered".  If     *)
(* Find_Peer misses the first, the later one gets an entry of its own, in  *)
(* front of the other's.                                                   *)
MasterLogin(p) ==
  /\ AtMain(p, "V_UAP")
  /\ uname' = UName(p.src)
  /\ \/ /\ p.src \in BadCred
        /\ Send(Answer(p, "V_RESP", "0x02"))
        /\ UNCHANGED <<nodes, sheetIndex, disturbed>>
     \/ /\ p.src \notin BadCred
        /\ LooksUp(FindPeer(uname'), {0}) /\ sheetIndex < PeerSheetLen
        /\ nodes' = Append(nodes, Entry(p.src))
        /\ sheetIndex' = sheetIndex + 1
        /\ Send(Answer(p, "V_RESP", "0x01"))
     \/ /\ p.src \notin BadCred
        /\ \E i \in 0 .. Len(nodes) :
             LooksUp(FindPeer(uname'), {i}) /\ (i # 0 \/ sheetIndex >= PeerSheetLen)
        /\ Send(Answer(p, "V_RESP", "0x03"))
        /\ UNCHANGED <<nodes, sheetIndex>>
  /\ UNCHANGED <<spc, tries, tmpn, poleRes, threadVars, polRuns>>

(* V_UAP_S: a slave logs in, takes the slave's place in the node, and the  *)
(* server starts to tell the master about it.  Find_Peer, Peer_Set_Slave   *)
(* and Send_S_IP each look the name up; if only the second misses, the     *)
(* login sheet is taken to be broken and the server returns from main.     *)
SlaveLogin(p) ==
  /\ AtMain(p, "V_UAP_S")
  /\ uname' = UName(p.src)
  /\ \/ /\ p.src \in BadCred
        /\ Send(Answer(p, "GET_REQ", "0x05"))
        /\ UNCHANGED <<spc, tries, tmpn, nodes, disturbed>>
     \/ /\ p.src \notin BadCred /\ LooksUp(FindPeer(uname'), {0})
        /\ Send(Answer(p, "GET_REQ", "0x06"))
        /\ UNCHANGED <<spc, tries, tmpn, nodes>>
     \/ /\ p.src \notin BadCred
        /\ \E found \in 1 .. Len(nodes) : LooksUp(FindPeer(uname'), {found, 0})
        /\ spc' = "exited"
        /\ Send(Answer(p, "GET_REQ", "0x04"))
        /\ UNCHANGED <<tries, tmpn, nodes>>
     \/ /\ p.src \notin BadCred
        /\ \E found, i \in 1 .. Len(nodes) :
             /\ nodes' = [nodes EXCEPT ![i].s = p.src]
             /\ \/ /\ LooksUp(FindPeer(uname'), {found, i, 0})
                   /\ Send(Answer(p, "GET_REQ", "0x04"))
                   /\ UNCHANGED <<spc, tries, tmpn>>
                \/ /\ tmpn' \in 1 .. Len(nodes)
                   /\ LooksUp(FindPeer(uname'), {found, i, tmpn'})
                   /\ spc' = "sip" /\ tries' = 0
                   /\ Send(Answer(p, "GET_REQ", "0x04") \cup SlaveIP(nodes'[tmpn']))
  /\ UNCHANGED <<poleRes, sheetIndex, threadVars, polRuns>>

(* The address goes to whoever asked.                                      *)
ReqMasterIP_ToSender(p) ==
  /\ AtMain(p, "REQ_M_IP")
  /\ uname' = UName(p.src)
  /\ LET i == FindPeer(uname')
     IN  Send(IF i # 0 /\ nodes[i].s # None
              THEN {AddrPacket(Server, p.src, "RESP_M_IP", AddressFor(nodes[i].s, nodes[i].m))}
              ELSE {})
  /\ UNCHANGED <<spc, tries, nodes, tmpn, poleRes, sheetIndex, threadVars, polRuns, disturbed>>

(* Find_Peer, and the lookup of Send_M_IP.                                 *)
ReqMasterIP(p) ==
  /\ AtMain(p, "REQ_M_IP")
  /\ uname' = UName(p.src)
  /\ \E found, i \in 0 .. Len(nodes) :
       /\ LooksUp(FindPeer(uname'), IF found = 0 THEN {0} ELSE {found, i})
       /\ Send(IF found = 0 \/ i = 0 THEN {} ELSE MasterIP(nodes[i]))
  /\ UNCHANGED <<spc, tries, nodes, tmpn, poleRes, sheetIndex, threadVars, polRuns>>

(* Clears Uname, as the handlers that copy a name do.                      *)
KeepCon_ClearsName(p) ==
  /\ AtMain(p, "KEEP_CON")
  /\ uname' = ""
  /\ Send(Answer(p, "GET_REQ", "0x03"))
  /\ UNCHANGED <<spc, tries, nodes, tmpn, poleRes, sheetIndex, threadVars, polRuns, disturbed>>

KeepCon(p) ==
  /\ AtMain(p, "KEEP_CON")
  /\ Send(Answer(p, "GET_REQ", "0x03"))
  /\ UNCHANGED serverVars

(* GET_REQ 8, "the master has the slave's address": the node is looked up  *)
(* by the sender's IP alone, so that either peer, or anyone behind the     *)
(* same NAT, confirms.  The look-up reads through the global list cursor,  *)
(* which is null until some node has been listed.                          *)
GotSlaveIP(p) ==
  /\ AtMain(p, "GET_REQ") /\ p.arg = "0x08"
  /\ Send(Answer(p, "GET_REQ", "0x09"))
  /\ \/ nodes = <<>> /\ spc' = "crashed" /\ UNCHANGED <<nodes, disturbed>>
     \/ /\ nodes # <<>>
        /\ \E i \in 0 .. Len(nodes) :
             /\ LooksUp(FindByIP(p.src), {i})
             /\ nodes' = IF i = 0 THEN nodes ELSE [nodes EXCEPT ![i].status = "M_GET_SLAVE_IP"]
        /\ UNCHANGED spc
  /\ UNCHANGED <<tries, tmpn, poleRes, uname, sheetIndex, threadVars, polRuns>>

(* MASTER_QUIT: Uname is cleared and then copied INTO the packet (the      *)
(* arguments of memcpy are swapped), so that del_item looks for "" and     *)
(* deletes nothing; the answer is 1 either way.                            *)
MasterQuit(p) ==
  /\ AtMain(p, "MASTER_QUIT")
  /\ turnSign' = FALSE
  /\ uname' = ""
  /\ nodes' = IF FindPeer(uname') = 0 THEN nodes ELSE SubSeq(nodes, 1, FindPeer(uname') - 1)
  /\ Send(Answer(p, "GET_REQ", "0x01"))
  /\ UNCHANGED <<spc, tries, tmpn, poleRes, sheetIndex, turnThreadRunning, cmdThreadRunning,
                 polRuns, disturbed>>

(* Without the test of the status.                                         *)
PolSent_Unconfirmed(p) ==
  /\ AtMain(p, "POL_SENT") /\ FindPeer(uname) # 0
  /\ tmpn' = FindPeer(uname)
  /\ uname' = UName(p.src)
  /\ spc' = "mclean"
  /\ polRuns' = IF polRuns < 2 THEN polRuns + 1 ELSE 2
  /\ Send(Answer(p, "GET_REQ", "0x0b"))
  /\ UNCHANGED <<tries, nodes, poleRes, sheetIndex, threadVars, disturbed>>

(* POL_SENT: find_item takes the name left by an earlier request, not the  *)
(* one in this packet, and its result is used without a test.  Without     *)
(* the master's confirmation the request is dropped.                       *)
PolSent(p) ==
  /\ AtMain(p, "POL_SENT")
  /\ tmpn' \in 0 .. Len(nodes) /\ LooksUp(FindPeer(uname), {tmpn'})
  /\ \/ /\ tmpn' = 0
        /\ spc' = "crashed"
        /\ UNCHANGED <<msgs, uname, polRuns>>
     \/ /\ tmpn' # 0 /\ nodes[tmpn'].status = "M_GET_SLAVE_IP"
        /\ uname' = UName(p.src)
        /\ spc' = "mclean"
        /\ polRuns' = IF polRuns < 2 THEN polRuns + 1 ELSE 2
        /\ Send(Answer(p, "GET_REQ", "0x0b"))
  /\ UNCHANGED <<tries, nodes, poleRes, sheetIndex, threadVars>>

(* Clears Uname, as the handlers that copy a name do.                      *)
TurnReq_ClearsName(p) ==
  /\ AtMain(p, "TURN_REQ")
  /\ uname' = ""
  /\ turnSign' = TRUE
  /\ turnThreadRunning' = TRUE
  /\ Send(Answer(p, "GET_REQ", "0x01"))
  /\ UNCHANGED <<spc, tries, nodes, tmpn, poleRes, sheetIndex, cmdThreadRunning, polRuns, disturbed>>

TurnReq(p) ==
  /\ AtMain(p, "TURN_REQ")
  /\ turnSign' = TRUE
  /\ turnThreadRunning' = TRUE
  /\ Send(Answer(p, "GET_REQ", "0x01"))
  /\ UNCHANGED <<spc, tries, nodes, tmpn, poleRes, uname, sheetIndex, cmdThreadRunning,
                 polRuns, disturbed>>

(* CMD_CHAN: the master's request starts the relay thread when none runs;  *)
(* the slave's is answered only while one runs.  How the handler waits for *)
(* an earlier relay to end is in CmdRelay.                                 *)
CmdChan(p) ==
  /\ AtMain(p, "CMD_CHAN")
  /\ p.arg = "S" => cmdThreadRunning
  /\ cmdThreadRunning' = TRUE
  /\ Send(Answer(p, "GET_REQ", "0x01"))
  /\ UNCHANGED <<spc, tries, nodes, tmpn, poleRes, uname, sheetIndex, turnSign,
                 turnThreadRunning, polRuns, disturbed>>

----------------------------------------------------------------------------
(* The nested receive loops.                                               *)
loopRest == <<nodes, tmpn, uname, sheetIndex, threadVars, polRuns>>

Goes(from, to) == spc = from /\ spc' = to /\ tries' = 0

Heard(arg) == \E p \in Inbox(Server) : p.op = "GET_REQ" /\ p.arg = arg

(* Off by one.                                                             *)
LastTry_Late == tries > MaxTry

LastTry == tries + 1 >= MaxTry

(* The counter is not advanced.                                            *)
Again_Uncounted == ~LastTry /\ UNCHANGED <<msgs, spc, tries, poleRes, disturbed>>

(* A pass of a loop that brings nothing: send again, up to MaxTry passes.  *)
(* (The loops stop repeating a request once the peer says it has it, GRQ   *)
(* 0x12; msgs already holds the earlier copies.)                           *)
Again ==
  /\ ~LastTry
  /\ tries' = tries + 1
  /\ \/ spc = "sip" /\ Send(SlaveIP(nodes[tmpn])) /\ UNCHANGED disturbed
     \/ spc = "estab" /\ Send(Verdict(nodes[tmpn], poleRes)) /\ UNCHANGED disturbed
     \/ \E i \in 0 .. Len(nodes) :
          /\ LooksUp(FindPeer(uname), {i})
          /\ \/ spc = "mpol" /\ Send(MPolReq(i))
             \/ spc = "spol" /\ Send(SPolReq(i))
  /\ UNCHANGED <<spc, poleRes>>

BackToMain(from) == Goes(from, "main") /\ UNCHANGED <<msgs, poleRes, disturbed>>

(* The confirmation read here leaves the node's status as it was.          *)
SendSlaveIP ==
  /\ spc = "sip"
  /\ \/ Heard("0x08") /\ BackToMain("sip")
     \/ LastTry /\ BackToMain("sip")
     \/ Again
  /\ UNCHANGED loopRest

(* A loop ends with pole_res set.                                          *)
Poled(from, res, to) == Goes(from, to) /\ poleRes' = res

(* The failure is announced before the slave has tried.                    *)
SlaveMode_Announced ==
  /\ Poled("mpol", 0, "sclean")
  /\ Send(Verdict(nodes[tmpn], 0))
  /\ UNCHANGED disturbed

SlaveMode ==
  /\ Poled("mpol", 0, "sclean")
  /\ UNCHANGED <<msgs, disturbed>>

MasterPoles ==
  /\ spc = "mpol"
  /\ \/ /\ Heard("0x0e") /\ Poled("mpol", 1, "sclean")
        /\ UNCHANGED <<msgs, disturbed>>
     \/ (Heard("0x0f") \/ LastTry) /\ SlaveMode
     \/ Again
  /\ UNCHANGED loopRest

Conclude(from, res) ==
  /\ Poled(from, res, "estab")
  /\ Send(Verdict(nodes[tmpn], res))
  /\ UNCHANGED disturbed

SlavePoles ==
  /\ spc = "spol"
  /\ \/ Heard("0x10") /\ Conclude("spol", 1)
     \/ (Heard("0x11") \/ LastTry) /\ Conclude("spol", 0)
     \/ Again
  /\ UNCHANGED loopRest

(* The first acknowledgement, of either peer, ends the announcement.       *)
Announce ==
  /\ spc = "estab"
  /\ \/ Heard("0x14") /\ BackToMain("estab")
     \/ LastTry /\ BackToMain("estab")
     \/ Again
  /\ UNCHANGED loopRest

(* clean_rec_buff leaves to the loop for the master and, unless that one   *)
(* succeeded, to the loop for the slave.  What it discards stays in msgs,  *)
(* as the copy that the network may still bring, so that only the end of   *)
(* it is a step.  It may also end at once: it tests an uninitialised       *)
(* result before the first recvfrom.                                       *)
EmptySocket ==
  /\ \/ Conclude("sclean", 1) /\ poleRes = 1
     \/ \E i \in 0 .. Len(nodes) :
          /\ LooksUp(FindPeer(uname), {i})
          /\ \/ Goes("mclean", "mpol") /\ Send(MPolReq(i))
             \/ Goes("sclean", "spol") /\ poleRes = 0 /\ Send(SPolReq(i))
          /\ UNCHANGED poleRes
  /\ UNCHANGED loopRest

----------------------------------------------------------------------------
(* The relay threads end on their own, the first after turnSign has fallen *)
(* or at once when it cannot bind its port.  What they relay is not here.  *)
Up == spc \notin {"crashed", "exited"}

TurnThreadEnds ==
  /\ Up /\ turnThreadRunning
  /\ turnThreadRunning' = FALSE
  /\ UNCHANGED <<msgs, spc, tries, nodes, tmpn, poleRes, uname, sheetIndex, turnSign,
                 cmdThreadRunning, polRuns, disturbed>>

(* A walk that takes the list head for an entry reads what is not there,   *)
(* and the process dies, whichever thread it was.                          *)
TurnThreadKills ==
  /\ Up /\ turnThreadRunning
  /\ spc' = "crashed" /\ disturbed' = TRUE
  /\ UNCHANGED <<msgs, tries, nodes, tmpn, poleRes, uname, sheetIndex, threadVars, polRuns>>

CmdThreadEnds ==
  /\ Up /\ cmdThreadRunning
  /\ cmdThreadRunning' = FALSE
  /\ UNCHANGED <<msgs, spc, tries, nodes, tmpn, poleRes, uname, sheetIndex, turnSign,
                 turnThreadRunning, polRuns, disturbed>>

Dispatch ==
  \E p \in Inbox(Server) :
    \/ MasterLogin(p) \/ SlaveLogin(p) \/ ReqMasterIP(p) \/ KeepCon(p)
    \/ GotSlaveIP(p) \/ MasterQuit(p) \/ PolSent(p)
    \/ TurnReq(p) \/ CmdChan(p)

ServerLoop == SendSlaveIP \/ MasterPoles \/ SlavePoles \/ Announce

ServerNext ==
  \/ Dispatch \/ ServerLoop \/ EmptySocket
  \/ TurnThreadEnds \/ TurnThreadKills \/ CmdThreadEnds

=============================================================================
