---------------------------- MODULE SessionProofs ----------------------------
(***************************************************************************)
(* Proofs about Session, for any number of masters and slaves, any MaxTry, *)
(* any sites and any contents of uninitialised memory.                     *)
(***************************************************************************)
EXTENDS Session, SequenceTheorems, TLAPS

(* Good(ps): the datagrams ps may be added to msgs.                        *)
Good(ps) == \A p \in ps : p \in Datagram /\ Caused(p)

(* Nothing is ever taken out of msgs, so what a datagram was caused by     *)
(* stays there.                                                            *)
LEMMA CauseStays ==
  ASSUME NEW ps, Send(ps)
  PROVE  /\ \A c : Asked(c) => Asked(c)'
         /\ Punched => Punched'
         /\ \A p : Caused(p) => Caused(p)'
<1>1. \A c : Asked(c) => Asked(c)'
  BY DEF Send, Asked
<1>2. Punched => Punched'
  BY <1>1 DEF Send, Punched, Answers
<1>3. \A p : Caused(p) => Caused(p)'
  BY <1>1, <1>2 DEF Caused
<1> QED BY <1>1, <1>2, <1>3

(* Sending good datagrams keeps the part of the invariant about msgs.      *)
LEMMA SendGood ==
  ASSUME msgs \subseteq Datagram, \A p \in msgs : Caused(p),
         NEW ps, Good(ps), Send(ps)
  PROVE  msgs' \subseteq Datagram /\ (\A p \in msgs : Caused(p))'
<1>1. msgs' = msgs \cup ps
  BY DEF Send
<1>2. \A p \in msgs' : p \in Datagram /\ Caused(p)
  BY <1>1 DEF Good
<1> QED BY <1>2, CauseStays

(* The address in a datagram that carries none is an address.              *)
LEMMA NoAddrType == NoAddr \in Address
BY DEF NoAddr, Address

(* Packet builds datagrams.                                                *)
LEMMA PacketType ==
  ASSUME NEW src \in Clients \cup {Server}, NEW dst \in Clients \cup {Server},
         NEW op \in Opcode, NEW arg \in Code
  PROVE  Packet(src, dst, op, arg) \in Datagram
BY NoAddrType DEF Packet, Datagram

(* A datagram that causes nothing: most of them.                           *)
LEMMA PlainPacket ==
  ASSUME NEW src \in Clients \cup {Server}, NEW dst \in Clients \cup {Server},
         NEW op \in Opcode \ {"V_UAP", "V_UAP_S", "S_IP", "RESP_M_IP", "CON_ESTAB"},
         NEW arg \in Code,
         op = "GET_REQ" => arg \notin {"0x0a", "0x0e", "0x10"}
  PROVE  Good({Packet(src, dst, op, arg)})
<1>1. Packet(src, dst, op, arg) \in Datagram
  BY PacketType
<1>2. Caused(Packet(src, dst, op, arg))
  BY DEF Caused, Packet
<1> QED BY <1>1, <1>2 DEF Good

(* Good sets of datagrams may be sent together.                            *)
LEMMA GoodUnion ==
  ASSUME NEW ps, NEW qs, Good(ps), Good(qs)
  PROVE  Good(ps \cup qs)
BY DEF Good

(* Sending nothing is good.                                                *)
LEMMA GoodEmpty == Good({})
BY DEF Good

(* A step that leaves msgs alone sends nothing.                            *)
LEMMA SendNothing == UNCHANGED msgs => Send({})
BY DEF Send

-----------------------------------------------------------------------------
(* The datagrams the clients send.                                         *)

LEMMA ToServerGood ==
  ASSUME NEW c \in Clients, NEW arg \in Code,
         NEW op \in Opcode \ {"V_UAP", "V_UAP_S", "S_IP", "RESP_M_IP", "CON_ESTAB"},
         op = "GET_REQ" => arg \notin {"0x0a", "0x0e", "0x10"}
  PROVE  Good(ToServer(c, op, arg))
BY PlainPacket DEF ToServer

(* The logins (Send_VUAP, Send_VUAPS) come from the right kind of client.  *)
LEMMA LoginGood ==
  /\ \A m \in Masters : Good(ToServer(m, "V_UAP", "0x00"))
  /\ \A s \in Slaves : Good(ToServer(s, "V_UAP_S", "0x00"))
<1>1. ASSUME NEW m \in Masters PROVE Good(ToServer(m, "V_UAP", "0x00"))
  <2>1. Packet(m, Server, "V_UAP", "0x00") \in Datagram
    BY PacketType DEF Clients, Opcode, Code
  <2> QED BY <2>1 DEF Good, ToServer, Packet, Caused
<1>2. ASSUME NEW s \in Slaves PROVE Good(ToServer(s, "V_UAP_S", "0x00"))
  <2>1. Packet(s, Server, "V_UAP_S", "0x00") \in Datagram
    BY PacketType DEF Clients, Opcode, Code
  <2> QED BY <2>1 DEF Good, ToServer, Packet, Caused
<1> QED BY <1>1, <1>2

(* A report of a probe that succeeded is good once a path has been         *)
(* punched.                                                                *)
LEMMA SuccessGood ==
  ASSUME NEW c \in Clients, NEW good \in {"0x0e", "0x10"}, Punched
  PROVE  Good(ToServer(c, "GET_REQ", good))
<1>1. Packet(c, Server, "GET_REQ", good) \in Datagram
  BY PacketType DEF Opcode, Code
<1> QED BY <1>1 DEF Good, ToServer, Packet, Caused

(* What a client sends to its peer's address in a probe is a POL_REQ, or   *)
(* nothing.                                                                *)
LEMMA ProbeGood ==
  ASSUME NEW c \in Clients, NEW a \in AddressOf(Clients) \cup {NoAddr, Unset}
  PROVE  Good(ToPeer(c, a, "POL_REQ", "0x00"))
<1>1. CASE a \in {NoAddr, Unset}
  BY <1>1, GoodEmpty DEF ToPeer, NoAddr, Unset
<1>2. CASE a \in AddressOf(Clients)
  <2>1. a.of \in Clients
    BY <1>2 DEF AddressOf
  <2>2. Good({Packet(c, a.of, "POL_REQ", "0x00")})
    BY <2>1, PlainPacket DEF Opcode, Code
  <2> QED BY <2>2, GoodEmpty DEF ToPeer
<1> QED BY <1>1, <1>2

(* An answer to a POL_REQ that really came.                                *)
LEMMA AnswerGood ==
  ASSUME NEW c \in Clients, Asked(c),
         NEW a \in Address,
         \/ a \in {NoAddr, Unset}
         \/ c \in Masters /\ a \in AddressOf(Slaves)
         \/ c \in Slaves /\ a \in AddressOf(Masters)
  PROVE  Good(ToPeer(c, a, "GET_REQ", "0x0a"))
<1>1. CASE a \in {NoAddr, Unset}
  BY <1>1, GoodEmpty DEF ToPeer, NoAddr, Unset
<1>2. CASE a \notin {NoAddr, Unset}
  <2>1. <<c, a.of>> \in Pairs /\ a.of \in Clients
    BY <1>2 DEF AddressOf, Pairs, Clients
  <2>2. Packet(c, a.of, "GET_REQ", "0x0a") \in Datagram
    BY <2>1, PacketType DEF Opcode, Code
  <2>3. Caused(Packet(c, a.of, "GET_REQ", "0x0a"))
    BY <2>1 DEF Caused, Packet
  <2>4. Good({Packet(c, a.of, "GET_REQ", "0x0a")})
    BY <2>2, <2>3 DEF Good
  <2> QED BY <2>4, GoodEmpty DEF ToPeer
<1> QED BY <1>1, <1>2

-----------------------------------------------------------------------------
(* What the steps of a client keep.                                        *)

PC == {"off", "verify", "waitip", "reqip", "polsent", "wait", "probe", "turn",
       "cmd", "up", "closing", "closed", "failed"} \cup Cleaning

(* A client's step leaves the server's part of the invariant alone.        *)
LEMMA ServerRests ==
  ASSUME SessionInv, NEW ps, Send(ps), UNCHANGED serverVars
  PROVE  ServerTypeOK' /\ ServerInv'
<1>1. Punched => Punched'
  BY CauseStays
<1>2. UNCHANGED <<spc, tries, nodes, tmpn, poleRes, uname, sheetIndex, turnSign,
                  turnThreadRunning, cmdThreadRunning, polRuns, disturbed>>
  BY DEF serverVars
<1>3. ServerTypeOK /\ ServerInv
  BY DEF SessionInv, TypeOK
<1>4. ServerTypeOK'
  BY <1>2, <1>3 DEF ServerTypeOK
<1>5. ServerInv'
  BY <1>1, <1>2, <1>3 DEF ServerInv
<1> QED BY <1>4, <1>5

(* A step that keeps the types and sends good datagrams keeps the          *)
(* invariant, given what it does to peer and mode.                         *)
LEMMA ClientStep ==
  ASSUME SessionInv, NEW ps, Good(ps), Send(ps), UNCHANGED serverVars,
         ClientTypeOK', PeersInv', P2POnlyIfPunched'
  PROVE  SessionInv'
<1>1. msgs' \subseteq Datagram /\ (\A p \in msgs : Caused(p))'
  BY SendGood DEF SessionInv, TypeOK
<1> QED BY <1>1, ServerRests DEF SessionInv, TypeOK

(* A client's step that changes neither peer nor mode keeps PeersInv and   *)
(* P2POnlyIfPunched.                                                       *)
LEMMA PeerAndModeStay ==
  ASSUME SessionInv, NEW ps, Send(ps), UNCHANGED <<peer, mode>>
  PROVE  PeersInv' /\ P2POnlyIfPunched'
BY CauseStays DEF SessionInv, PeersInv, P2POnlyIfPunched

(* A client's step that only sends.                                        *)
LEMMA ClientSends ==
  ASSUME SessionInv, NEW ps, Good(ps), Send(ps),
         UNCHANGED serverVars, UNCHANGED clientVars
  PROVE  SessionInv'
<1>1. UNCHANGED <<cpc, ctry, ctl, peer, mode>>
  BY DEF clientVars
<1>2. ClientTypeOK'
  BY <1>1 DEF SessionInv, TypeOK, ClientTypeOK
<1> QED BY <1>1, <1>2, PeerAndModeStay, ClientStep

(* Goto keeps the types of cpc, ctry and ctl.                              *)
LEMMA GotoType ==
  ASSUME ClientTypeOK, MaxTry \in Nat, NEW c \in Clients, NEW pc \in PC,
         NEW buf \in Buffer \cup {Blank}, Goto(c, pc, buf)
  PROVE  /\ cpc' \in [Clients -> PC]
         /\ ctry' \in [Clients -> 0 .. MaxTry]
         /\ ctl' \in [Clients -> Buffer \cup {Blank}]
BY DEF Goto, ClientTypeOK, PC

(* A client's step that ends a receive and sends good datagrams.           *)
LEMMA ClientGoto ==
  ASSUME SessionInv, NEW c \in Clients, NEW pc \in PC,
         NEW buf \in Buffer \cup {Blank}, Goto(c, pc, buf),
         NEW ps, Good(ps), Send(ps), UNCHANGED serverVars, UNCHANGED <<peer, mode>>
  PROVE  SessionInv'
<1>1. ClientTypeOK'
  BY GotoType, NetAssumption DEF SessionInv, TypeOK, ClientTypeOK, PC
<1> QED BY <1>1, PeerAndModeStay, ClientStep

(* A client's step that makes another pass and sends good datagrams.       *)
LEMMA ClientRetry ==
  ASSUME SessionInv, NEW c \in Clients, ctry[c] < MaxTry,
         NEW buf \in Buffer \cup {Blank}, Retry(c, buf),
         NEW ps, Good(ps), Send(ps), UNCHANGED serverVars, UNCHANGED <<peer, mode>>
  PROVE  SessionInv'
<1>1. ClientTypeOK'
  BY NetAssumption DEF SessionInv, TypeOK, ClientTypeOK, Retry
<1> QED BY <1>1, PeerAndModeStay, ClientStep

(* A receive puts a Buffer or nothing of interest in Ctl_Rec.              *)
LEMMA ReceivedType ==
  ASSUME SessionInv, NEW c \in Clients
  PROVE  /\ Received(c) \subseteq Buffer \cup {Blank}
         /\ {Held(p) : p \in Inbox(c)} \subseteq Buffer \cup {Blank}
<1>1. \A p \in Inbox(c) : Held(p) \in Buffer \cup {Blank}
  BY DEF SessionInv, TypeOK, Inbox, Datagram, Held, Buffer
<1>2. ctl[c] \in Buffer \cup {Blank}
  BY DEF SessionInv, TypeOK, ClientTypeOK
<1> QED BY <1>1, <1>2 DEF Received

(* A POL_REQ in its inbox means that the client has been asked.            *)
LEMMA InboxAsks ==
  ASSUME NEW c, NEW p \in Inbox(c), p.op = "POL_REQ"
  PROVE  Asked(c)
BY DEF Inbox, Asked

(* A GET_REQ 0x0a in a client's inbox means that a path has been punched.  *)
LEMMA InboxPunched ==
  ASSUME SessionInv, NEW c, NEW p \in Inbox(c), p.op = "GET_REQ", p.arg = "0x0a"
  PROVE  Punched
BY DEF SessionInv, Inbox, Caused, Punched, Answers

(* The loop counters and their bound are natural numbers.                  *)
LEMMA CtryType ==
  ASSUME SessionInv, NEW c \in Clients
  PROVE  ctry[c] \in Nat /\ MaxTry \in Nat
BY NetAssumption DEF SessionInv, TypeOK, ClientTypeOK

(* What PeersInv says of a single client's peer.                           *)
LEMMA PeerType ==
  ASSUME SessionInv, NEW c \in Clients
  PROVE  /\ peer[c] \in AddressOf(Clients) \cup {NoAddr, Unset}
         /\ peer[c] \in Address
         /\ \/ peer[c] \in {NoAddr, Unset}
            \/ c \in Masters /\ peer[c] \in AddressOf(Slaves)
            \/ c \in Slaves /\ peer[c] \in AddressOf(Masters)
BY NoAddrType DEF SessionInv, TypeOK, ClientTypeOK, PeersInv, AddressOf, Clients

(* The POL_REQ loops of both programs keep the invariant.                  *)
LEMMA ProbeKeeps ==
  ASSUME SessionInv, NEW c \in Clients, UNCHANGED serverVars,
         NEW good \in {"0x0e", "0x10"}, NEW bad \in {"0x0f", "0x11"},
         Probe(c, "wait", good, bad)
  PROVE  SessionInv'
<1> USE DEF PC
<1>1. UNCHANGED <<peer, mode>>
  BY DEF Probe
<1>2. CASE /\ \E p \in Inbox(c) : p.op = "GET_REQ" /\ p.arg = "0x0a"
           /\ Goto(c, "wait", Blank)
           /\ Send(ToServer(c, "GET_REQ", good))
  <2>1. Punched
    BY <1>2, InboxPunched
  <2> QED BY <1>1, <1>2, <2>1, SuccessGood, ClientGoto
<1>3. CASE /\ ctry[c] + 1 < MaxTry
           /\ Retry(c, Blank)
           /\ Send(ToPeer(c, peer[c], "POL_REQ", "0x00"))
  <2>1. ctry[c] < MaxTry
    BY <1>3, CtryType
  <2> QED BY <1>1, <1>3, <2>1, PeerType, ProbeGood, ClientRetry
<1>4. CASE /\ ctry[c] + 1 >= MaxTry
           /\ Goto(c, "wait", Blank)
           /\ Send(ToServer(c, "GET_REQ", bad))
  <2>1. Good(ToServer(c, "GET_REQ", bad))
    BY ToServerGood DEF Opcode, Code
  <2> QED BY <1>1, <1>4, <2>1, ClientGoto
<1> QED BY <1>2, <1>3, <1>4 DEF Probe

(* So does CON_ESTAB: its 1 means that a path has been punched.            *)
LEMMA VerdictKeeps ==
  ASSUME SessionInv, NEW c \in Clients, UNCHANGED serverVars,
         NEW p \in Inbox(c), TakeVerdict(c, p)
  PROVE  SessionInv'
<1>1. /\ Good(ToServer(c, "GET_REQ", "0x14"))
      /\ Good(ToServer(c, "TURN_REQ", "0x00"))
  BY ToServerGood DEF Opcode, Code
<1>2. PICK m \in {"P2P", "TURN"}, pc \in {"clean cmd", "turn"},
           ps \in {{}, ToServer(c, "TURN_REQ", "0x00")} :
        /\ m = "P2P" => p.arg = "0x01"
        /\ mode' = [mode EXCEPT ![c] = m]
        /\ Goto(c, pc, Blank)
        /\ Send(ToServer(c, "GET_REQ", "0x14") \cup ps)
  <2>1. ToServer(c, "GET_REQ", "0x14") \cup {} = ToServer(c, "GET_REQ", "0x14")
    OBVIOUS
  <2> QED BY <2>1 DEF TakeVerdict
<1>3. Good(ToServer(c, "GET_REQ", "0x14") \cup ps)
  BY <1>1, GoodUnion, GoodEmpty
<1>4. ClientTypeOK'
  <2>1. mode' \in [Clients -> {"FAIL", "P2P", "TURN"}] /\ peer' \in [Clients -> Address]
    BY <1>2 DEF TakeVerdict, SessionInv, TypeOK, ClientTypeOK
  <2>2. pc \in PC
    BY DEF PC, Cleaning
  <2> QED BY <1>2, <2>1, <2>2, GotoType, NetAssumption
          DEF SessionInv, TypeOK, ClientTypeOK, PC
<1>5. PeersInv'
  BY DEF TakeVerdict, SessionInv, PeersInv
<1>6. P2POnlyIfPunched'
  <2>1. CASE m = "P2P"
    <3>1. Punched
      BY <1>2, <2>1 DEF TakeVerdict, SessionInv, Inbox, Caused
    <3> QED BY <1>2, <3>1, CauseStays DEF P2POnlyIfPunched
  <2>2. CASE m = "TURN"
    <3>1. (\E d \in Clients : mode'[d] = "P2P") => \E d \in Clients : mode[d] = "P2P"
      BY <1>2, <2>2 DEF SessionInv, TypeOK, ClientTypeOK
    <3> QED BY <1>2, <3>1, CauseStays DEF P2POnlyIfPunched, SessionInv
  <2> QED BY <2>1, <2>2
<1> QED BY <1>2, <1>3, <1>4, <1>5, <1>6, ClientStep

(* The loops that open a channel and close the session.                    *)
LEMMA ChannelKeeps ==
  ASSUME SessionInv, NEW c \in Clients, UNCHANGED serverVars,
         UNCHANGED <<peer, mode>>, NEW pc \in PC, NEW b \in Buffer \cup {Blank},
         NEW buf \in {b, Blank}, NEW ps, Good(ps), NEW qs, Good(qs),
         \/ Goto(c, pc, buf) /\ Send(qs)
         \/ ctry[c] < MaxTry /\ Retry(c, b) /\ Send(ps)
         \/ Goto(c, "failed", Blank) /\ UNCHANGED msgs
  PROVE  SessionInv'
<1> USE DEF PC
<1>1. CASE Goto(c, pc, buf) /\ Send(qs)
  BY <1>1, ClientGoto
<1>2. CASE ctry[c] < MaxTry /\ Retry(c, b) /\ Send(ps)
  BY <1>2, ClientRetry
<1>3. CASE Goto(c, "failed", Blank) /\ UNCHANGED msgs
  BY <1>3, SendNothing, GoodEmpty, ClientGoto
<1> QED BY <1>1, <1>2, <1>3

(* The TURN loops keep the invariant.                                      *)
LEMMA TurnKeeps ==
  ASSUME SessionInv, NEW c \in Clients, UNCHANGED serverVars,
         NEW bufs \in SUBSET (Buffer \cup {Blank}), OpenTurn(c, bufs)
  PROVE  SessionInv'
<1>1. Good(ToServer(c, "TURN_REQ", "0x00"))
  BY ToServerGood DEF Opcode, Code
<1>2. PICK b \in bufs :
        \/ Goto(c, "clean cmd", b) /\ UNCHANGED msgs
        \/ ctry[c] < MaxTry /\ Retry(c, b) /\ Send(ToServer(c, "TURN_REQ", "0x00"))
        \/ Goto(c, "failed", Blank) /\ UNCHANGED msgs
  BY DEF OpenTurn
<1>3. UNCHANGED <<peer, mode>>
  BY DEF OpenTurn
<1> QED BY <1>1, <1>2, <1>3, SendNothing, GoodEmpty, ChannelKeeps DEF PC, Cleaning

(* The end of clean_rec_buff keeps the invariant.                          *)
LEMMA CleanKeeps ==
  ASSUME SessionInv, NEW c \in Clients, UNCHANGED serverVars,
         NEW before, NEW after \in PC, NEW ps, Good(ps), CleanRecBuff(c, before, after, ps)
  PROVE  SessionInv'
<1>1. ctl[c] \in Buffer \cup {Blank}
  BY DEF SessionInv, TypeOK, ClientTypeOK
<1> QED BY <1>1, ClientGoto DEF CleanRecBuff

(* The CMD_CHAN loops keep the invariant.                                  *)
LEMMA CmdKeeps ==
  ASSUME SessionInv, NEW c \in Clients, UNCHANGED serverVars,
         NEW who \in {"M", "S"}, OpenCmd(c, who)
  PROVE  SessionInv'
<1>1. Good(ToServer(c, "CMD_CHAN", who))
  BY ToServerGood DEF Opcode, Code
<1>2. PICK b \in Received(c) :
        \/ Goto(c, "up", Blank) /\ UNCHANGED msgs
        \/ ctry[c] < MaxTry /\ Retry(c, b) /\ Send(ToServer(c, "CMD_CHAN", who))
        \/ Goto(c, "failed", Blank) /\ UNCHANGED msgs
  BY DEF OpenCmd
<1>3. UNCHANGED <<peer, mode>>
  BY DEF OpenCmd
<1> QED BY <1>1, <1>2, <1>3, ReceivedType, SendNothing, GoodEmpty, ChannelKeeps DEF PC

-----------------------------------------------------------------------------
(* The master.                                                             *)

LEMMA MasterKeeps ==
  ASSUME SessionInv, NEW m \in Masters, MasterNext(m), UNCHANGED serverVars
  PROVE  SessionInv'
<1> m \in Clients
  BY DEF Clients
<1> USE DEF PC, Cleaning
<1>p. PeersInv /\ \A p \in msgs : Caused(p)
  BY DEF SessionInv
<1>1. CASE StartMaster(m)
  <2>1. PICK b \in Stack : Goto(m, "verify", b)
    BY <1>1 DEF StartMaster
  <2>2. b \in Buffer \cup {Blank}
    BY ClientAssumption
  <2> QED BY <1>1, <2>1, <2>2, LoginGood, ClientGoto DEF StartMaster
<1>2. CASE VerifyMaster(m)
  <2>1. PICK b \in Received(m) :
          \/ Goto(m, "clean waitip", Blank) /\ UNCHANGED msgs
          \/ /\ ctry[m] + 1 < MaxTry
             /\ Retry(m, b)
             /\ Send(ToServer(m, "V_UAP", "0x00"))
          \/ Goto(m, "failed", Blank) /\ UNCHANGED msgs
    BY <1>2 DEF VerifyMaster
  <2>2. UNCHANGED <<peer, mode>>
    BY <1>2 DEF VerifyMaster
  <2>3. ctry[m] + 1 < MaxTry => ctry[m] < MaxTry
    BY CtryType
  <2> QED BY <2>1, <2>2, <2>3, ReceivedType, LoginGood, SendNothing, GoodEmpty,
             ChannelKeeps
<1>3. CASE KeepAlive(m)
  <2>1. Good(ToServer(m, "KEEP_CON", "0x01"))
    BY ToServerGood DEF Opcode, Code
  <2> QED BY <1>3, <2>1, ClientSends DEF KeepAlive
<1>4. CASE WaitSlaveIP(m)
  <2>1. PICK p \in Inbox(m) : p.op = "S_IP" /\ peer' = [peer EXCEPT ![m] = p.at]
    BY <1>4 DEF WaitSlaveIP
  <2>2. p.at \in AddressOf(Slaves) \cup {Unset} /\ p.at \in Address
    BY <2>1, <1>p DEF Inbox, Caused, SessionInv, TypeOK, Datagram
  <2>3. Good(ToServer(m, "GET_REQ", "0x08"))
    BY ToServerGood DEF Opcode, Code
  <2>4. ClientTypeOK'
    <3>1. UNCHANGED mode /\ Goto(m, "clean wait", Blank)
      BY <1>4 DEF WaitSlaveIP
    <3>2. peer' \in [Clients -> Address]
      BY <2>1, <2>2 DEF SessionInv, TypeOK, ClientTypeOK
    <3> QED BY <3>1, <3>2, GotoType, NetAssumption DEF SessionInv, TypeOK, ClientTypeOK
  <2>5. PeersInv'
    <3>1. \A s \in Slaves : s # m
      BY NetAssumption
    <3>2. peer \in [Clients -> Address]
      BY DEF SessionInv, TypeOK, ClientTypeOK
    <3> QED BY <2>1, <2>2, <3>1, <3>2, <1>p DEF PeersInv, Clients
  <2>6. P2POnlyIfPunched'
    BY <1>4, CauseStays DEF WaitSlaveIP, P2POnlyIfPunched, SessionInv
  <2> QED BY <1>4, <2>3, <2>4, <2>5, <2>6, ClientStep DEF WaitSlaveIP
<1>5. CASE ConfirmSlaveIP(m)
  <2>1. Good(ToServer(m, "GET_REQ", "0x08"))
    BY ToServerGood DEF Opcode, Code
  <2> QED BY <1>5, <2>1, ClientSends DEF ConfirmSlaveIP
<1>6. CASE MasterAnswersProbe(m)
  <2>1. Asked(m)
    BY <1>6, InboxAsks DEF MasterAnswersProbe
  <2>2. Good(ToPeer(m, peer[m], "GET_REQ", "0x0a"))
    BY <2>1, PeerType, AnswerGood
  <2> QED BY <1>6, <2>2, ClientSends DEF MasterAnswersProbe
<1>7. CASE MasterBeginsProbe(m)
  <2>1. Good(ToServer(m, "GET_REQ", "0x12"))
    BY ToServerGood DEF Opcode, Code
  <2>2. Good(ToPeer(m, peer[m], "POL_REQ", "0x00"))
    BY PeerType, ProbeGood
  <2>3. Good(ToServer(m, "GET_REQ", "0x12") \cup ToPeer(m, peer[m], "POL_REQ", "0x00"))
    BY <2>1, <2>2, GoodUnion
  <2> QED BY <1>7, <2>3, ClientGoto DEF MasterBeginsProbe, BeginProbe
<1>8. CASE MasterProbes(m)
  BY <1>8, ProbeKeeps DEF MasterProbes
<1>9. CASE MasterVerdict(m)
  BY <1>9, VerdictKeeps DEF MasterVerdict
<1>10. CASE MasterTurn(m)
  BY <1>10, ReceivedType, TurnKeeps DEF MasterTurn
<1>11. CASE MasterCmd(m)
  BY <1>11, CmdKeeps DEF MasterCmd
<1>12. CASE CloseMaster(m)
  <2>1. PICK b \in Stack : Goto(m, "clean closing", b)
    BY <1>12 DEF CloseMaster
  <2>2. b \in Buffer \cup {Blank}
    BY ClientAssumption
  <2> QED BY <1>12, <2>1, <2>2, SendNothing, GoodEmpty, ClientGoto DEF CloseMaster
<1>13. CASE AwaitQuit(m)
  <2>1. Good(ToServer(m, "MASTER_QUIT", "0x00"))
    BY ToServerGood DEF Opcode, Code
  <2>2. PICK b \in Received(m) :
          \/ Goto(m, "closed", Blank) /\ UNCHANGED msgs
          \/ ctry[m] < MaxTry /\ Retry(m, b) /\ Send(ToServer(m, "MASTER_QUIT", "0x00"))
          \/ Goto(m, "failed", Blank) /\ UNCHANGED msgs
    BY <1>13 DEF AwaitQuit
  <2>3. UNCHANGED <<peer, mode>>
    BY <1>13 DEF AwaitQuit
  <2> QED BY <2>1, <2>2, <2>3, ReceivedType, SendNothing, GoodEmpty, ChannelKeeps
<1>14. CASE MasterCleans(m)
  <2>1. Good(ToServer(m, "CMD_CHAN", "M")) /\ Good(ToServer(m, "MASTER_QUIT", "0x00"))
    BY ToServerGood DEF Opcode, Code
  <2> QED BY <1>14, <2>1, GoodEmpty, CleanKeeps DEF MasterCleans
<1> QED BY <1>1, <1>2, <1>3, <1>4, <1>5, <1>6, <1>7, <1>8, <1>9, <1>10, <1>11,
           <1>12, <1>13, <1>14 DEF MasterNext, MasterStep

-----------------------------------------------------------------------------
(* The slave.                                                              *)

LEMMA AskAgainKeeps ==
  ASSUME SessionInv, NEW c \in Clients, UNCHANGED serverVars,
         NEW ps, Good(ps), AskAgain(c, ps)
  PROVE  SessionInv'
<1>1. ctry[c] + 1 < MaxTry => ctry[c] < MaxTry
  BY CtryType
<1>2. UNCHANGED <<peer, mode>>
  BY DEF AskAgain
<1> QED BY <1>1, <1>2, GoodEmpty, SendNothing, ClientRetry, ClientGoto DEF AskAgain, PC

(* Every step of a slave keeps the invariant.                              *)
LEMMA SlaveKeeps ==
  ASSUME SessionInv, NEW s \in Slaves, SlaveNext(s), UNCHANGED serverVars
  PROVE  SessionInv'
<1> s \in Clients
  BY DEF Clients
<1> USE DEF PC, Cleaning
<1>p. PeersInv /\ \A p \in msgs : Caused(p)
  BY DEF SessionInv
<1>1. CASE StartSlave(s)
  <2>1. PICK b \in Stack : Goto(s, "verify", b)
    BY <1>1 DEF StartSlave
  <2>2. b \in Buffer \cup {Blank}
    BY ClientAssumption
  <2> QED BY <1>1, <2>1, <2>2, LoginGood, ClientGoto DEF StartSlave
<1>r. Good(ToServer(s, "REQ_M_IP", "0x00")) /\ Good(ToServer(s, "POL_SENT", "0x00"))
  BY ToServerGood DEF Opcode, Code
<1>2. CASE VerifySlave(s)
  <2>1. PICK b \in Received(s) :
          \/ Goto(s, "clean reqip", Blank) /\ UNCHANGED msgs
          \/ /\ ctry[s] + 1 < MaxTry
             /\ Retry(s, b)
             /\ Send(ToServer(s, "V_UAP_S", "0x00"))
          \/ Goto(s, "failed", Blank) /\ UNCHANGED msgs
    BY <1>2 DEF VerifySlave
  <2>2. UNCHANGED <<peer, mode>>
    BY <1>2 DEF VerifySlave
  <2>3. ctry[s] + 1 < MaxTry => ctry[s] < MaxTry
    BY CtryType
  <2> QED BY <2>1, <2>2, <2>3, ReceivedType, LoginGood, SendNothing, GoodEmpty, ChannelKeeps
<1>3. CASE RequestMasterIP(s)
  <2>1. CASE AskAgain(s, ToServer(s, "REQ_M_IP", "0x00"))
    BY <1>r, <2>1, AskAgainKeeps
  <2>2. CASE \E p \in Inbox(s) :
               /\ p.op = "RESP_M_IP"
               /\ peer' = [peer EXCEPT ![s] = p.at]
               /\ Goto(s, "clean hole", Blank)
               /\ UNCHANGED <<msgs, mode>>
    <3>1. PICK p \in Inbox(s) :
               /\ p.op = "RESP_M_IP"
               /\ peer' = [peer EXCEPT ![s] = p.at]
               /\ Goto(s, "clean hole", Blank)
               /\ UNCHANGED <<msgs, mode>>
      BY <2>2
    <3>2. p.at \in AddressOf(Masters) /\ p.at \in Address
      BY <3>1, <1>p DEF Inbox, Caused, AddressOf, Address, Clients
    <3>3. Send({}) /\ Good({})
      BY <3>1, SendNothing, GoodEmpty
    <3>4. ClientTypeOK'
      <4>1. peer' \in [Clients -> Address]
        BY <3>1, <3>2 DEF SessionInv, TypeOK, ClientTypeOK
      <4> QED BY <3>1, <4>1, GotoType, NetAssumption DEF SessionInv, TypeOK, ClientTypeOK
    <3>5. PeersInv'
      <4>1. \A m \in Masters : m # s
        BY NetAssumption
      <4>2. peer \in [Clients -> Address]
        BY DEF SessionInv, TypeOK, ClientTypeOK
      <4> QED BY <3>1, <3>2, <4>1, <4>2, <1>p DEF PeersInv, Clients
    <3>6. P2POnlyIfPunched'
      BY <3>1, <3>3, CauseStays DEF P2POnlyIfPunched, SessionInv
    <3> QED BY <3>1, <3>3, <3>4, <3>5, <3>6, ClientStep
  <2> QED BY <1>3, <2>1, <2>2 DEF RequestMasterIP
<1>4. CASE SendPolSent(s)
  <2>1. CASE AskAgain(s, ToServer(s, "POL_SENT", "0x00"))
    BY <1>r, <2>1, AskAgainKeeps
  <2>2. CASE Goto(s, "wait", Blank) /\ UNCHANGED <<msgs, peer, mode>>
    BY <2>2, SendNothing, GoodEmpty, ClientGoto
  <2> QED BY <1>4, <2>1, <2>2 DEF SendPolSent
<1>5. CASE SlaveAnswersProbe(s)
  <2>1. Asked(s)
    BY <1>5, InboxAsks DEF SlaveAnswersProbe
  <2>2. Good(ToPeer(s, peer[s], "GET_REQ", "0x0a"))
    BY <2>1, PeerType, AnswerGood
  <2> QED BY <1>5, <2>2, ClientSends DEF SlaveAnswersProbe
<1>6. CASE SlaveBeginsProbe(s)
  <2>1. Good(ToPeer(s, peer[s], "POL_REQ", "0x00"))
    BY PeerType, ProbeGood
  <2> QED BY <1>6, <2>1, ClientGoto DEF SlaveBeginsProbe, BeginProbe
<1>7. CASE SlaveProbes(s)
  BY <1>7, ProbeKeeps DEF SlaveProbes
<1>8. CASE SlaveVerdict(s)
  BY <1>8, VerdictKeeps DEF SlaveVerdict
<1>9. CASE SlaveTurn(s)
  BY <1>9, ReceivedType, TurnKeeps DEF SlaveTurn
<1>10. CASE SlaveCmd(s)
  BY <1>10, CmdKeeps DEF SlaveCmd
<1>11. CASE CloseSlave(s)
  BY <1>11, SendNothing, GoodEmpty, ClientGoto DEF CloseSlave
<1>12. CASE SlaveCleans(s)
  <2>1. /\ Good(ToServer(s, "CMD_CHAN", "S"))
        /\ Good(ToPeer(s, peer[s], "POL_REQ", "0x00"))
    BY ToServerGood, PeerType, ProbeGood DEF Opcode, Code
  <2> QED BY <1>12, <1>r, <2>1, CleanKeeps DEF SlaveCleans
<1> QED BY <1>1, <1>2, <1>3, <1>4, <1>5, <1>6, <1>7, <1>8, <1>9, <1>10, <1>11, <1>12
    DEF SlaveNext, SlaveStep

-----------------------------------------------------------------------------
(* The datagrams the server sends.                                         *)

NodeType == [m: Masters, s: Slaves \cup {None}, status: {"INIT_P", "M_GET_SLAVE_IP"}]

(* The server's answers are good, for the opcodes and codes it uses.       *)
LEMMA AnswersGood ==
  ASSUME SessionInv, NEW p \in Inbox(Server), NEW op \in {"V_RESP", "GET_REQ"},
         NEW arg \in Code \ {"0x0a", "0x0e", "0x10"}
  PROVE  Good(Answer(p, op, arg))
<1>1. p.src \in Clients \cup {Server}
  BY DEF SessionInv, TypeOK, Inbox, Datagram
<1> QED BY <1>1, PlainPacket DEF Answer, Opcode

(* Send_S_IP and Send_M_IP hand out a local or a public address.           *)
LEMMA AddressForType ==
  ASSUME NEW c, NEW S, NEW d \in S, d # None
  PROVE  AddressFor(c, d) \in AddressOf(S)
BY DEF AddressFor, AddressOf, Local, Public

(* Send_S_IP writes to a master about a slave, or about nobody.            *)
LEMMA SlaveIPGood ==
  ASSUME NEW n \in NodeType
  PROVE  Good(SlaveIP(n))
<1>1. AddressFor(n.m, n.s) \in AddressOf(Slaves) \cup {Unset}
  BY AddressForType DEF NodeType, AddressFor
<1>2. AddressFor(n.m, n.s) \in Address
  BY <1>1 DEF AddressOf, Address, Clients, Unset
<1>3. n.m \in Masters
  BY DEF NodeType
<1>4. AddrPacket(Server, n.m, "S_IP", AddressFor(n.m, n.s)) \in Datagram
  BY <1>2, <1>3 DEF AddrPacket, Datagram, Clients, Opcode, Code
<1>5. Caused(AddrPacket(Server, n.m, "S_IP", AddressFor(n.m, n.s)))
  BY <1>1, <1>3 DEF AddrPacket, Caused
<1> QED BY <1>4, <1>5 DEF SlaveIP, Good

(* Send_M_IP writes to a slave about a master.                             *)
LEMMA MasterIPGood ==
  ASSUME NEW n \in NodeType
  PROVE  Good(MasterIP(n))
<1>1. CASE n.s = None
  BY <1>1, GoodEmpty DEF MasterIP
<1>2. CASE n.s \in Slaves /\ n.s # None
  <2>1. AddressFor(n.s, n.m) \in AddressOf(Masters)
    BY AddressForType, NetAssumption DEF NodeType, Clients
  <2>2. AddressFor(n.s, n.m) \in Address
    BY <2>1 DEF AddressOf, Address, Clients
  <2>3. AddrPacket(Server, n.s, "RESP_M_IP", AddressFor(n.s, n.m)) \in Datagram
    BY <1>2, <2>2 DEF AddrPacket, Datagram, Clients, Opcode, Code
  <2>4. Caused(AddrPacket(Server, n.s, "RESP_M_IP", AddressFor(n.s, n.m)))
    BY <1>2, <2>1 DEF AddrPacket, Caused
  <2> QED BY <1>2, <2>3, <2>4 DEF MasterIP, Good
<1> QED BY <1>1, <1>2 DEF NodeType

(* Send_M_POL_REQ and Send_S_POL_REQ, whatever they find.                  *)
LEMMA PolReqsGood ==
  ASSUME nodes \in Seq(NodeType), NEW i \in 0 .. Len(nodes)
  PROVE  Good(MPolReq(i)) /\ Good(SPolReq(i))
<1>1. CASE i = 0
  BY <1>1, GoodEmpty DEF MPolReq, SPolReq
<1>2. CASE i # 0
  <2>1. nodes[i] \in NodeType
    <3>1. Len(nodes) \in Nat
      BY LenProperties
    <3>2. i \in 1 .. Len(nodes)
      BY <1>2, <3>1
    <3> QED BY <3>2, ElementOfSeq
  <2>2. Good({Packet(Server, nodes[i].m, "M_POL_REQ", "0x00")})
    BY <2>1, PlainPacket DEF NodeType, Clients, Opcode, Code
  <2>3. ASSUME nodes[i].s # None
        PROVE  Good({Packet(Server, nodes[i].s, "S_POL_REQ", "0x00")})
    BY <2>1, <2>3, PlainPacket DEF NodeType, Clients, Opcode, Code
  <2> QED BY <1>2, <2>2, <2>3, GoodEmpty DEF MPolReq, SPolReq, ToMaster, ToSlave
<1> QED BY <1>1, <1>2

(* A CON_ESTAB of 1 is good once a path has been punched, of 2 always.     *)
LEMMA VerdictGood ==
  ASSUME NEW n \in NodeType, NEW pole \in {0, 1}, pole = 1 => Punched
  PROVE  Good(Verdict(n, pole))
<1> DEFINE res == IF pole = 0 THEN "0x02" ELSE "0x01"
<1>1. res = "0x01" => Punched
  OBVIOUS
<1>2. ASSUME NEW c \in Clients PROVE Good({Packet(Server, c, "CON_ESTAB", res)})
  <2>1. Packet(Server, c, "CON_ESTAB", res) \in Datagram
    BY PacketType DEF Opcode, Code
  <2>2. Caused(Packet(Server, c, "CON_ESTAB", res))
    BY <1>1 DEF Packet, Caused
  <2> QED BY <2>1, <2>2 DEF Good
<1>3. Good(ToMaster(n, "CON_ESTAB", res))
  BY <1>2 DEF ToMaster, Clients, NodeType
<1>4. Good(ToSlave(n, "CON_ESTAB", res))
  BY <1>2, GoodEmpty DEF ToSlave, Clients, NodeType
<1> QED BY <1>3, <1>4, GoodUnion DEF Verdict

-----------------------------------------------------------------------------
(* The server.                                                             *)

LEMMA ServerStep ==
  ASSUME SessionInv, NEW ps, Good(ps), Send(ps), UNCHANGED clientVars,
         ServerTypeOK', ServerInv'
  PROVE  SessionInv'
<1>1. msgs' \subseteq Datagram /\ (\A p \in msgs : Caused(p))'
  BY SendGood DEF SessionInv, TypeOK
<1>2. UNCHANGED <<cpc, ctry, ctl, peer, mode>>
  BY DEF clientVars
<1>3. ClientTypeOK'
  BY <1>2 DEF SessionInv, TypeOK, ClientTypeOK
<1>4. PeersInv' /\ P2POnlyIfPunched'
  BY <1>2, PeerAndModeStay
<1> QED BY <1>1, <1>3, <1>4 DEF SessionInv, TypeOK

(* What the invariant says of the server's state.                          *)
LEMMA ServerFacts ==
  ASSUME SessionInv
  PROVE  /\ nodes \in Seq(NodeType) /\ Len(nodes) \in Nat
         /\ \A i \in 1 .. Len(nodes) : nodes[i] \in NodeType
         /\ tmpn \in 0 .. Len(nodes) /\ poleRes \in {0, 1}
         /\ tries \in 0 .. MaxTry /\ MaxTry \in Nat \ {0}
         /\ sheetIndex \in 0 .. PeerSheetLen /\ PeerSheetLen \in Nat
         /\ spc \in {"main", "sip", "mclean", "mpol", "sclean", "spol", "estab",
                     "crashed", "exited"}
         /\ uname \in {"", "UNAME", "other"} /\ polRuns \in 0 .. 2
         /\ threadVars \in BOOLEAN \X BOOLEAN \X BOOLEAN /\ disturbed \in BOOLEAN
         /\ spc \in {"sip"} \cup Connecting => tmpn # 0 /\ nodes[tmpn] \in NodeType
         /\ poleRes = 1 => Punched
<1>1. ServerTypeOK /\ ServerInv
  BY DEF SessionInv, TypeOK
<1>2. nodes \in Seq(NodeType)
  BY <1>1 DEF ServerTypeOK, NodeType
<1>3. Len(nodes) \in Nat /\ \A i \in 1 .. Len(nodes) : nodes[i] \in NodeType
  BY <1>2, LenProperties, ElementOfSeq
<1>4. spc \in {"sip"} \cup Connecting => tmpn # 0 /\ nodes[tmpn] \in NodeType
  <2>1. tmpn \in 0 .. Len(nodes) /\ (spc \in {"sip"} \cup Connecting => tmpn # 0)
    BY <1>1 DEF ServerTypeOK, ServerInv
  <2>2. tmpn # 0 => tmpn \in 1 .. Len(nodes)
    BY <1>3, <2>1
  <2> QED BY <1>3, <2>1, <2>2
<1>5. threadVars \in BOOLEAN \X BOOLEAN \X BOOLEAN
  BY <1>1 DEF ServerTypeOK, threadVars
<1> QED BY <1>1, <1>2, <1>3, <1>4, <1>5, NetAssumption, ServerAssumption
        DEF ServerTypeOK, ServerInv

(* An index that is not NULL is that of an entry.                          *)
LEMMA EntryAt ==
  ASSUME SessionInv, NEW i \in 0 .. Len(nodes), i # 0
  PROVE  i \in 1 .. Len(nodes) /\ nodes[i] \in NodeType
<1>1. Len(nodes) \in Nat /\ \A j \in 1 .. Len(nodes) : nodes[j] \in NodeType
  BY ServerFacts
<1> QED BY <1>1

(* A handler or a pass of a loop: what it sends is good, each variable     *)
(* keeps its type, a state that works on an entry has one, and pole_res is *)
(* raised on a report only.                                                *)
LEMMA ServerMove ==
  ASSUME SessionInv, NEW ps, Good(ps), Send(ps), UNCHANGED clientVars,
         spc' \in {"main", "sip", "mclean", "mpol", "sclean", "spol", "estab",
                   "crashed", "exited"},
         tries' \in 0 .. MaxTry,
         nodes' \in Seq(NodeType), tmpn' \in 0 .. Len(nodes'),
         poleRes' \in {0, 1}, uname' \in {"", "UNAME", "other"},
         sheetIndex' \in 0 .. PeerSheetLen,
         threadVars' \in BOOLEAN \X BOOLEAN \X BOOLEAN,
         polRuns' \in 0 .. 2, disturbed' \in BOOLEAN,
         spc' \in {"sip"} \cup Connecting => tmpn' # 0,
         poleRes' = 1 => Punched
  PROVE  SessionInv'
<1>1. ServerTypeOK'
  <2>1. turnSign' \in BOOLEAN /\ turnThreadRunning' \in BOOLEAN /\ cmdThreadRunning' \in BOOLEAN
    BY DEF threadVars
  <2> QED BY <2>1 DEF ServerTypeOK, NodeType
<1>2. ServerInv'
  BY CauseStays DEF ServerInv, Connecting
<1> QED BY <1>1, <1>2, ServerStep

(* A lookup gives an index of the list, or 0, and notes in a boolean       *)
(* whether it went wrong.                                                  *)
LEMMA LookupType ==
  ASSUME SessionInv
  PROVE  /\ \A name : FindPeer(name) \in 0 .. Len(nodes)
         /\ \A i \in 0 .. Len(nodes) : \A is : LooksUp(i, is) =>
              is \subseteq 0 .. Len(nodes) /\ disturbed' \in BOOLEAN
<1>1. Len(nodes) \in Nat
  BY ServerFacts
<1>2. \A name : FindPeer(name) \in 0 .. Len(nodes)
  BY <1>1 DEF FindPeer
<1>3. ASSUME NEW i \in 0 .. Len(nodes), NEW is, LooksUp(i, is)
      PROVE  is \subseteq 0 .. Len(nodes) /\ disturbed' \in BOOLEAN
  BY <1>3, ServerFacts DEF LooksUp, Lookup
<1> QED BY <1>2, <1>3

-----------------------------------------------------------------------------
(* The handlers that change the list, or use what they find in it.         *)

(* V_UAP.                                                                  *)
LEMMA MasterLoginKeeps ==
  ASSUME SessionInv, NEW p \in Inbox(Server), UNCHANGED clientVars, MasterLogin(p)
  PROVE  SessionInv'
<1>1. PICK arg \in {"0x01", "0x02", "0x03"} : Send(Answer(p, "V_RESP", arg))
  BY DEF MasterLogin
<1>2. Good(Answer(p, "V_RESP", arg))
  BY AnswersGood DEF Code
<1>3. Entry(p.src) \in NodeType
  <2>1. p.src \in Masters
    BY DEF MasterLogin, AtMain, SessionInv, Inbox, Caused
  <2> QED BY <2>1 DEF Entry, NodeType
<1>4. \/ nodes' = nodes /\ UNCHANGED sheetIndex
      \/ nodes' = Append(nodes, Entry(p.src)) /\ sheetIndex < PeerSheetLen
         /\ sheetIndex' = sheetIndex + 1
  BY DEF MasterLogin
<1>5. nodes' \in Seq(NodeType) /\ Len(nodes') \in Nat /\ Len(nodes') >= Len(nodes)
  <2>1. nodes \in Seq(NodeType) /\ Len(nodes) \in Nat
    BY ServerFacts
  <2>2. /\ Append(nodes, Entry(p.src)) \in Seq(NodeType)
        /\ Len(Append(nodes, Entry(p.src))) = Len(nodes) + 1
    BY <1>3, <2>1, AppendProperties
  <2> QED BY <1>4, <2>1, <2>2
<1>6. sheetIndex' \in 0 .. PeerSheetLen /\ tmpn' \in 0 .. Len(nodes')
  <2>1. sheetIndex' \in 0 .. PeerSheetLen
    <3>1. sheetIndex \in 0 .. PeerSheetLen /\ PeerSheetLen \in Nat
      BY ServerFacts
    <3> QED BY <1>4, <3>1
  <2>2. tmpn' = tmpn
    BY DEF MasterLogin
  <2>3. tmpn \in 0 .. Len(nodes) /\ Len(nodes) \in Nat
    BY ServerFacts
  <2> QED BY <1>5, <2>1, <2>2, <2>3
<1>7. disturbed' \in BOOLEAN
  <2>1. disturbed' = disturbed \/ \E is : LooksUp(FindPeer(uname'), is)
    BY DEF MasterLogin
  <2> QED BY <2>1, LookupType, ServerFacts
<1>8. uname' \in {"UNAME", "other"}
  BY DEF MasterLogin, UName
<1>9. UNCHANGED <<spc, tries, poleRes, threadVars, polRuns>> /\ spc = "main"
  BY DEF MasterLogin, AtMain
<1> QED BY <1>1, <1>2, <1>5, <1>6, <1>7, <1>8, <1>9, ServerFacts, ServerMove DEF Connecting

(* V_UAP_S.                                                                *)
LEMMA SlaveLoginKeeps ==
  ASSUME SessionInv, NEW p \in Inbox(Server), UNCHANGED clientVars, SlaveLogin(p)
  PROVE  SessionInv'
<1>1. /\ UNCHANGED <<poleRes, sheetIndex, threadVars, polRuns>> /\ spc = "main"
      /\ uname' \in {"UNAME", "other"}
  BY DEF SlaveLogin, AtMain, UName
<1>2. disturbed' \in BOOLEAN
  <2>1. disturbed' = disturbed \/ \E is : LooksUp(FindPeer(uname'), is)
    BY DEF SlaveLogin
  <2> QED BY <2>1, LookupType, ServerFacts
<1>3. /\ Good(Answer(p, "GET_REQ", "0x04")) /\ Good(Answer(p, "GET_REQ", "0x05"))
      /\ Good(Answer(p, "GET_REQ", "0x06"))
  BY AnswersGood DEF Code
<1>4. CASE nodes' = nodes
  <2>1. CASE UNCHANGED tmpn /\ spc' \in {"main", "exited"} /\ UNCHANGED tries
             /\ \E arg \in {"0x04", "0x05", "0x06"} : Send(Answer(p, "GET_REQ", arg))
    BY <1>1, <1>2, <1>3, <1>4, <2>1, ServerFacts, ServerMove DEF Connecting
  <2>2. CASE /\ tmpn' \in 1 .. Len(nodes) /\ spc' = "sip" /\ tries' = 0
             /\ Send(Answer(p, "GET_REQ", "0x04") \cup SlaveIP(nodes'[tmpn']))
    <3>1. Good(Answer(p, "GET_REQ", "0x04") \cup SlaveIP(nodes'[tmpn']))
      BY <1>3, <1>4, <2>2, ServerFacts, SlaveIPGood, GoodUnion
    <3>2. tmpn' \in 0 .. Len(nodes') /\ tmpn' # 0 /\ 0 \in 0 .. MaxTry
      <4>1. MaxTry \in Nat
        BY ServerFacts
      <4> QED BY <1>4, <2>2, <4>1
    <3> QED BY <1>1, <1>2, <1>4, <2>2, <3>1, <3>2, ServerFacts, ServerMove DEF Connecting
  <2> QED BY <1>1, <1>4, <2>1, <2>2 DEF SlaveLogin
<1>5. CASE nodes' # nodes
  <2>1. PICK i \in 1 .. Len(nodes) :
          /\ nodes' = [nodes EXCEPT ![i].s = p.src]
          /\ \/ /\ Send(Answer(p, "GET_REQ", "0x04")) /\ UNCHANGED <<spc, tries, tmpn>>
             \/ /\ tmpn' \in 1 .. Len(nodes) /\ spc' = "sip" /\ tries' = 0
                /\ Send(Answer(p, "GET_REQ", "0x04") \cup SlaveIP(nodes'[tmpn']))
    BY <1>5 DEF SlaveLogin
  <2>2. p.src \in Slaves
    BY DEF SlaveLogin, AtMain, SessionInv, Inbox, Caused
  <2>3. [nodes[i] EXCEPT !.s = p.src] \in NodeType
    BY <2>1, <2>2, ServerFacts DEF NodeType
  <2>4. nodes' = [nodes EXCEPT ![i] = [nodes[i] EXCEPT !.s = p.src]]
    BY <2>1
  <2>5. nodes' \in Seq(NodeType) /\ Len(nodes') = Len(nodes)
    <3>1. nodes \in Seq(NodeType) /\ i \in 1 .. Len(nodes)
      BY <2>1, ServerFacts
    <3> HIDE DEF NodeType
    <3> QED BY <2>3, <2>4, <3>1, ExceptSeq
  <2>6. CASE Send(Answer(p, "GET_REQ", "0x04")) /\ UNCHANGED <<spc, tries, tmpn>>
    BY <1>1, <1>2, <1>3, <2>5, <2>6, ServerFacts, ServerMove DEF Connecting
  <2>7. CASE /\ tmpn' \in 1 .. Len(nodes) /\ spc' = "sip" /\ tries' = 0
             /\ Send(Answer(p, "GET_REQ", "0x04") \cup SlaveIP(nodes'[tmpn']))
    <3>1. tmpn' \in 0 .. Len(nodes') /\ tmpn' # 0 /\ 0 \in 0 .. MaxTry
      <4>1. MaxTry \in Nat
        BY ServerFacts
      <4> QED BY <2>5, <2>7, <4>1
    <3>2. nodes'[tmpn'] \in NodeType
      BY <2>5, <2>7, ElementOfSeq
    <3>3. Good(Answer(p, "GET_REQ", "0x04") \cup SlaveIP(nodes'[tmpn']))
      BY <1>3, <3>2, SlaveIPGood, GoodUnion
    <3> QED BY <1>1, <1>2, <2>5, <2>7, <3>1, <3>3, ServerFacts, ServerMove DEF Connecting
  <2> QED BY <2>1, <2>6, <2>7
<1> QED BY <1>4, <1>5

(* GET_REQ 8.                                                              *)
LEMMA GotSlaveIPKeeps ==
  ASSUME SessionInv, NEW p \in Inbox(Server), UNCHANGED clientVars, GotSlaveIP(p)
  PROVE  SessionInv'
<1>1. Good(Answer(p, "GET_REQ", "0x09"))
  BY AnswersGood DEF Code
<1>2. /\ nodes' \in Seq(NodeType) /\ Len(nodes') = Len(nodes)
      /\ spc' \in {"main", "crashed"}
  <2>1. CASE nodes' = nodes
    BY <2>1, ServerFacts DEF GotSlaveIP, AtMain
  <2>2. CASE nodes' # nodes
    <3>1. PICK i \in 0 .. Len(nodes) :
            i # 0 /\ nodes' = [nodes EXCEPT ![i].status = "M_GET_SLAVE_IP"] /\ spc' = spc
      BY <2>2 DEF GotSlaveIP
    <3>2. i \in 1 .. Len(nodes)
      BY <3>1, EntryAt
    <3>3. [nodes[i] EXCEPT !.status = "M_GET_SLAVE_IP"] \in NodeType
      BY <3>2, ServerFacts DEF NodeType
    <3>4. nodes' = [nodes EXCEPT ![i] = [nodes[i] EXCEPT !.status = "M_GET_SLAVE_IP"]]
      BY <3>1
    <3>5. nodes \in Seq(NodeType)
      BY ServerFacts
    <3>6. nodes' \in Seq(NodeType) /\ Len(nodes') = Len(nodes)
      BY <3>2, <3>3, <3>4, <3>5, ExceptSeq
    <3> QED BY <3>1, <3>6 DEF GotSlaveIP, AtMain
  <2> QED BY <2>1, <2>2
<1>3. disturbed' \in BOOLEAN
  BY ServerFacts DEF GotSlaveIP, LooksUp
<1> QED BY <1>1, <1>2, <1>3, ServerFacts, ServerMove DEF GotSlaveIP, Connecting

(* POL_SENT, up to its first clean_rec_buff.                               *)
LEMMA PolSentKeeps ==
  ASSUME SessionInv, NEW p \in Inbox(Server), UNCHANGED clientVars, PolSent(p)
  PROVE  SessionInv'
<1>1. /\ UNCHANGED <<tries, nodes, poleRes, sheetIndex, threadVars>>
      /\ tmpn' \in 0 .. Len(nodes) /\ disturbed' \in BOOLEAN
  BY LookupType DEF PolSent
<1>2. CASE spc' = "crashed" /\ UNCHANGED <<msgs, uname, polRuns>>
  BY <1>1, <1>2, SendNothing, GoodEmpty, ServerFacts, ServerMove DEF Connecting
<1>3. CASE /\ tmpn' # 0 /\ spc' = "mclean" /\ uname' = UName(p.src)
           /\ polRuns' = (IF polRuns < 2 THEN polRuns + 1 ELSE 2)
           /\ Send(Answer(p, "GET_REQ", "0x0b"))
  <2>1. Good(Answer(p, "GET_REQ", "0x0b"))
    BY AnswersGood DEF Code
  <2>2. uname' \in {"", "UNAME", "other"} /\ polRuns' \in 0 .. 2
    <3>1. polRuns \in 0 .. 2
      BY ServerFacts
    <3> QED BY <1>3, <3>1 DEF UName
  <2> QED BY <1>1, <1>3, <2>1, <2>2, ServerFacts, ServerMove DEF Connecting
<1> QED BY <1>2, <1>3 DEF PolSent

(* Every handler of the dispatch loop keeps the invariant.                 *)
LEMMA DispatchKeeps ==
  ASSUME SessionInv, NEW p \in Inbox(Server), UNCHANGED clientVars,
         \/ MasterLogin(p) \/ SlaveLogin(p) \/ ReqMasterIP(p) \/ KeepCon(p)
         \/ GotSlaveIP(p) \/ MasterQuit(p) \/ PolSent(p)
         \/ TurnReq(p) \/ CmdChan(p)
  PROVE  SessionInv'
<1>a. Good(Answer(p, "GET_REQ", "0x01")) /\ Good(Answer(p, "GET_REQ", "0x03"))
  BY AnswersGood DEF Code
<1>1. CASE ReqMasterIP(p)
  <2>1. PICK found \in 0 .. Len(nodes), i \in 0 .. Len(nodes) :
          /\ LooksUp(FindPeer(uname'), IF found = 0 THEN {0} ELSE {found, i})
          /\ Send(IF found = 0 \/ i = 0 THEN {} ELSE MasterIP(nodes[i]))
    BY <1>1 DEF ReqMasterIP
  <2>2. Good(IF found = 0 \/ i = 0 THEN {} ELSE MasterIP(nodes[i]))
    <3>1. CASE found = 0 \/ i = 0
      BY <3>1, GoodEmpty
    <3>2. CASE ~(found = 0 \/ i = 0)
      <4>1. nodes[i] \in NodeType
        BY <3>2, EntryAt
      <4> QED BY <3>2, <4>1, MasterIPGood
    <3> QED BY <3>1, <3>2
  <2>3. disturbed' \in BOOLEAN /\ uname' \in {"", "UNAME", "other"}
    BY <1>1, <2>1, LookupType DEF ReqMasterIP, UName
  <2> QED BY <1>1, <2>1, <2>2, <2>3, ServerFacts, ServerMove DEF ReqMasterIP, AtMain
<1>2. CASE KeepCon(p)
  BY <1>2, <1>a, ServerFacts, ServerMove DEF KeepCon, serverVars, threadVars, AtMain
<1>3. CASE MasterQuit(p)
  <2>1. nodes' = nodes
    BY <1>3 DEF MasterQuit, FindPeer
  <2>2. threadVars' \in BOOLEAN \X BOOLEAN \X BOOLEAN
    BY <1>3, ServerFacts DEF MasterQuit, threadVars
  <2> QED BY <1>3, <1>a, <2>1, <2>2, ServerFacts, ServerMove DEF MasterQuit, AtMain
<1>4. CASE TurnReq(p)
  <2>1. threadVars' \in BOOLEAN \X BOOLEAN \X BOOLEAN
    BY <1>4, ServerFacts DEF TurnReq, threadVars
  <2> QED BY <1>4, <1>a, <2>1, ServerFacts, ServerMove DEF TurnReq, AtMain
<1>5. CASE CmdChan(p)
  <2>1. threadVars' \in BOOLEAN \X BOOLEAN \X BOOLEAN
    BY <1>5, ServerFacts DEF CmdChan, threadVars
  <2> QED BY <1>5, <1>a, <2>1, ServerFacts, ServerMove DEF CmdChan, AtMain
<1> QED BY <1>1, <1>2, <1>3, <1>4, <1>5, MasterLoginKeeps, SlaveLoginKeeps,
           GotSlaveIPKeeps, PolSentKeeps

-----------------------------------------------------------------------------
(* The nested loops, clean_rec_buff and the relay threads.                 *)

(* What the server has heard, a client has sent.                           *)
LEMMA HeardPunched ==
  ASSUME SessionInv, NEW arg \in {"0x0e", "0x10"}, Heard(arg)
  PROVE  Punched
BY DEF SessionInv, Heard, Inbox, Caused

(* A loop that works on an entry goes on, to the next or to the dispatch   *)
(* loop.                                                                   *)
LEMMA LoopMove ==
  ASSUME SessionInv, spc \in {"sip"} \cup Connecting, UNCHANGED loopRest, UNCHANGED clientVars,
         spc' \in {"main", "sip"} \cup Connecting, tries' \in 0 .. MaxTry,
         poleRes' \in {0, 1}, poleRes' = 1 => Punched, disturbed' \in BOOLEAN,
         NEW ps, Good(ps), Send(ps)
  PROVE  SessionInv'
BY ServerFacts, ServerMove DEF loopRest, Connecting

(* The passes of the loops, and their ends.                                *)
LEMMA LoopKeeps ==
  ASSUME SessionInv, UNCHANGED clientVars, ServerLoop \/ EmptySocket
  PROVE  SessionInv'
<1>i. spc \in {"sip"} \cup Connecting /\ UNCHANGED loopRest
  BY DEF ServerLoop, EmptySocket, SendSlaveIP, MasterPoles, SlavePoles, Announce,
         Conclude, Poled, Goes, Connecting
<1>f. /\ 0 \in 0 .. MaxTry /\ nodes[tmpn] \in NodeType
      /\ \A i \in 0 .. Len(nodes) : Good(MPolReq(i)) /\ Good(SPolReq(i))
      /\ \A i \in 0 .. Len(nodes) : LooksUp(FindPeer(uname), {i}) => disturbed' \in BOOLEAN
  <2>1. nodes[tmpn] \in NodeType /\ nodes \in Seq(NodeType)
    BY <1>i, ServerFacts
  <2>2. 0 \in 0 .. MaxTry
    <3>1. MaxTry \in Nat
      BY ServerFacts
    <3> QED BY <3>1
  <2>3. \A i \in 0 .. Len(nodes) : Good(MPolReq(i)) /\ Good(SPolReq(i))
    BY <2>1, PolReqsGood
  <2>4. \A i \in 0 .. Len(nodes) : LooksUp(FindPeer(uname), {i}) => disturbed' \in BOOLEAN
    BY LookupType
  <2> QED BY <2>1, <2>2, <2>3, <2>4
<1>g. /\ poleRes \in {0, 1} /\ disturbed \in BOOLEAN /\ (poleRes = 1 => Punched)
  BY ServerFacts
<1>1. ASSUME NEW from, BackToMain(from) PROVE SessionInv'
  BY <1>1, <1>i, <1>f, <1>g, SendNothing, GoodEmpty, LoopMove DEF BackToMain, Goes
<1>2. CASE Again
  <2>1. tries' \in 0 .. MaxTry
    <3>1. tries' = tries + 1 /\ ~LastTry
      BY <1>2 DEF Again
    <3>2. tries \in 0 .. MaxTry /\ MaxTry \in Nat
      BY ServerFacts
    <3> QED BY <3>1, <3>2 DEF LastTry
  <2>2. Good(SlaveIP(nodes[tmpn])) /\ Good(Verdict(nodes[tmpn], poleRes))
    BY <1>f, <1>g, SlaveIPGood, VerdictGood
  <2>3. PICK ps : Good(ps) /\ Send(ps)
    BY <1>2, <1>f, <2>2 DEF Again
  <2>4. UNCHANGED <<spc, poleRes>> /\ disturbed' \in BOOLEAN
    BY <1>2, <1>f, <1>g DEF Again
  <2> QED BY <1>i, <1>g, <2>1, <2>3, <2>4, LoopMove
<1>3. ASSUME NEW from, NEW res \in {0, 1}, Conclude(from, res), res = 1 => Punched
      PROVE  SessionInv'
  <2>1. Good(Verdict(nodes[tmpn], res))
    BY <1>3, <1>f, VerdictGood
  <2> QED BY <1>3, <1>i, <1>f, <1>g, <2>1, LoopMove DEF Conclude, Poled, Goes, Connecting
<1>4. ASSUME NEW res \in {0, 1}, Poled("mpol", res, "sclean"), UNCHANGED <<msgs, disturbed>>,
             res = 1 => Punched
      PROVE  SessionInv'
  BY <1>4, <1>i, <1>f, <1>g, SendNothing, GoodEmpty, LoopMove DEF Poled, Goes, Connecting
<1>5. CASE SendSlaveIP
  BY <1>5, <1>1, <1>2 DEF SendSlaveIP
<1>6. CASE MasterPoles
  BY <1>6, <1>2, <1>4, HeardPunched DEF MasterPoles, SlaveMode
<1>7. CASE SlavePoles
  BY <1>7, <1>2, <1>3, HeardPunched DEF SlavePoles
<1>8. CASE Announce
  BY <1>8, <1>1, <1>2 DEF Announce
<1>9. CASE EmptySocket
  <2>1. CASE Conclude("sclean", 1) /\ poleRes = 1
    BY <1>3, <1>g, <2>1
  <2>2. CASE \E i \in 0 .. Len(nodes) :
               /\ LooksUp(FindPeer(uname), {i})
               /\ \/ Goes("mclean", "mpol") /\ Send(MPolReq(i))
                  \/ Goes("sclean", "spol") /\ poleRes = 0 /\ Send(SPolReq(i))
               /\ UNCHANGED poleRes
    BY <1>i, <1>f, <1>g, <2>2, LoopMove DEF Goes, Connecting
  <2> QED BY <1>9, <2>1, <2>2 DEF EmptySocket
<1> QED BY <1>5, <1>6, <1>7, <1>8, <1>9 DEF ServerLoop

(* The end of a relay thread, or of the process with it.                   *)
LEMMA ThreadsKeep ==
  ASSUME SessionInv, TurnThreadEnds \/ TurnThreadKills \/ CmdThreadEnds, UNCHANGED clientVars
  PROVE  SessionInv'
<1>1. /\ UNCHANGED <<tries, nodes, tmpn, poleRes, uname, sheetIndex, polRuns, msgs>>
      /\ spc' \in {spc, "crashed"} /\ disturbed' \in {disturbed, TRUE}
  BY DEF TurnThreadEnds, TurnThreadKills, CmdThreadEnds
<1>2. threadVars' \in BOOLEAN \X BOOLEAN \X BOOLEAN
  BY ServerFacts DEF TurnThreadEnds, TurnThreadKills, CmdThreadEnds, threadVars
<1> QED BY <1>1, <1>2, SendNothing, GoodEmpty, ServerFacts, ServerMove DEF Connecting

(* Every step of the server keeps the invariant.                           *)
LEMMA ServerKeeps ==
  ASSUME SessionInv, ServerNext, UNCHANGED clientVars
  PROVE  SessionInv'
BY DispatchKeeps, LoopKeeps, ThreadsKeep DEF ServerNext, Dispatch

-----------------------------------------------------------------------------
(* The invariant holds initially.                                          *)
LEMMA InitInv == Init => SessionInv
<1> SUFFICES ASSUME Init PROVE SessionInv
  OBVIOUS
<1> USE NetAssumption, ServerAssumption DEF Init
<1>1. msgs \subseteq Datagram /\ \A p \in msgs : Caused(p)
  OBVIOUS
<1>2. ServerTypeOK /\ ServerInv
  <2>0. /\ spc = "main" /\ tries = 0 /\ tmpn = 0 /\ poleRes = 0
        /\ sheetIndex = 0 /\ polRuns = 0
    BY DEF ServerInit
  <2>1. 0 \in 0 .. MaxTry /\ 0 \in 0 .. PeerSheetLen
    OBVIOUS
  <2>2. nodes \in Seq(NodeType) /\ Len(nodes) = 0
    BY EmptySeq DEF ServerInit
  <2>3. ServerTypeOK
    <3>1. tmpn \in 0 .. Len(nodes) /\ tries \in 0 .. MaxTry /\ sheetIndex \in 0 .. PeerSheetLen
      BY <2>0, <2>1, <2>2
    <3>2. polRuns \in 0 .. 2 /\ poleRes \in {0, 1}
      BY <2>0
    <3> QED BY <2>2, <3>1, <3>2 DEF ServerInit, ServerTypeOK, NodeType
  <2>4. ServerInv
    BY <2>0 DEF ServerInv, Connecting
  <2> QED BY <2>3, <2>4
<1>3. ClientTypeOK /\ PeersInv /\ P2POnlyIfPunched
  BY NoAddrType DEF ClientInit, ClientTypeOK, PeersInv, P2POnlyIfPunched, Clients
<1> QED BY <1>1, <1>2, <1>3 DEF SessionInv, TypeOK

(* Every step keeps the invariant.                                         *)
LEMMA NextInv == SessionInv /\ [Next]_vars => SessionInv'
<1> SUFFICES ASSUME SessionInv, [Next]_vars PROVE SessionInv'
  OBVIOUS
<1>1. CASE ServerMoves
  BY <1>1, ServerKeeps DEF ServerMoves
<1>2. CASE \E m \in Masters : MasterMoves(m)
  BY <1>2, MasterKeeps DEF MasterMoves
<1>3. CASE \E s \in Slaves : SlaveMoves(s)
  BY <1>3, SlaveKeeps DEF SlaveMoves
<1>4. CASE UNCHANGED vars
  BY <1>4, SendNothing, GoodEmpty, ClientSends DEF vars
<1> QED BY <1>1, <1>2, <1>3, <1>4 DEF Next

(* The inductive invariant holds in every reachable state.                 *)
THEOREM Invariance == Spec => []SessionInv
BY InitInv, NextInv, PTL DEF Spec

(* Every variable of the server, of both clients and of the network keeps  *)
(* its type: the counters of the retry loops stay within MaxTry, and a     *)
(* client's peer address is an address, or what was in memory.             *)
THEOREM TypeCorrect == Spec => []TypeOK
<1>1. SessionInv => TypeOK
  BY DEF SessionInv
<1> QED BY <1>1, Invariance, PTL

(* Whatever the network does with their datagrams, a client leaves         *)
(* JEAN_init_master or JEAN_init_slave in P2P mode only after a direct     *)
(* round trip between a master and a slave.                                *)
THEOREM DirectPathIsReal == Spec => []P2POnlyIfPunched
<1>1. SessionInv => P2POnlyIfPunched
  BY DEF SessionInv
<1> QED BY <1>1, Invariance, PTL
=============================================================================
