---------------------------- MODULE MasterClient ----------------------------
(***************************************************************************)
(* The master program (p2p-src/client-master/main.c): JEAN_init_master     *)
(* and JEAN_close_master, one action per recvfrom.  All its receives time  *)
(* out after a second, except that "waitip" starts again on a timeout.     *)
(***************************************************************************)
EXTENDS P2PClient

StartMaster(m) ==
  /\ cpc[m] = "off"
  /\ \E b \in Stack : Goto(m, "verify", b)
  /\ Send(ToServer(m, "V_UAP", "0x00"))
  /\ UNCHANGED <<peer, mode>>

(* 1 "registered" and 3 "a node already exists" are treated alike.         *)
VerifyMaster(m) ==
  /\ cpc[m] = "verify"
  /\ \E b \in Received(m) :
       \/ /\ b.op = "V_RESP" /\ b.arg \in {"0x01", "0x03"}
          /\ Goto(m, "clean waitip", Blank)
          /\ UNCHANGED msgs
       \/ /\ b.op = "V_RESP" /\ b.arg = "0x02"
          /\ Goto(m, "failed", Blank)
          /\ UNCHANGED msgs
       \/ /\ ~(b.op = "V_RESP" /\ b.arg \in {"0x01", "0x02", "0x03"})
          /\ ctry[m] + 1 < MaxTry
          /\ Retry(m, b)
          /\ Send(ToServer(m, "V_UAP", "0x00"))
       \/ /\ ~(b.op = "V_RESP" /\ b.arg \in {"0x01", "0x02", "0x03"})
          /\ ctry[m] + 1 >= MaxTry
          /\ Goto(m, "failed", Blank)
          /\ UNCHANGED msgs
  /\ UNCHANGED <<peer, mode>>

(* The Keep_con thread, started once the master is verified.               *)
KeepAlive(m) ==
  /\ cpc[m] \in {"waitip", "wait", "probe", "turn", "cmd", "up", "closing"} \cup Cleaning
  /\ Send(ToServer(m, "KEEP_CON", "0x01"))
  /\ UNCHANGED clientVars

(* Ctl_Rec is not cleared here, but what it holds is never an S_IP.        *)
WaitSlaveIP(m) ==
  /\ cpc[m] = "waitip"
  /\ \E p \in Inbox(m) :
       /\ p.op = "S_IP"
       /\ peer' = [peer EXCEPT ![m] = p.at]
  /\ Goto(m, "clean wait", Blank)
  /\ Send(ToServer(m, "GET_REQ", "0x08"))
  /\ UNCHANGED mode

(* Confirms an address it does not have yet.                               *)
ConfirmSlaveIP_Early(m) ==
  /\ cpc[m] \in {"waitip", "wait"}
  /\ \E p \in Inbox(m) : p.op = "GET_REQ"
  /\ Send(ToServer(m, "GET_REQ", "0x08"))
  /\ UNCHANGED clientVars

(* The loop that waits for the connection to be established.  Any GET_REQ, *)
(* the answer to a keep-alive included, makes the master repeat that it    *)
(* has the slave's address.                                                *)
ConfirmSlaveIP(m) ==
  /\ cpc[m] = "wait"
  /\ \E p \in Inbox(m) : p.op = "GET_REQ"
  /\ Send(ToServer(m, "GET_REQ", "0x08"))
  /\ UNCHANGED clientVars

MasterAnswersProbe(m) ==
  /\ cpc[m] = "wait"
  /\ \E p \in Inbox(m) : p.op = "POL_REQ"
  /\ Send(ToPeer(m, peer[m], "GET_REQ", "0x0a"))
  /\ UNCHANGED clientVars

MasterBeginsProbe(m) ==
  /\ cpc[m] = "wait"
  /\ \E p \in Inbox(m) : p.op = "M_POL_REQ"
  /\ BeginProbe(m)
  /\ Send(ToServer(m, "GET_REQ", "0x12") \cup ToPeer(m, peer[m], "POL_REQ", "0x00"))

MasterProbes(m) == Probe(m, "wait", "0x0e", "0x0f")

MasterVerdict(m) ==
  /\ cpc[m] = "wait"
  /\ \E p \in Inbox(m) : TakeVerdict(m, p)

MasterTurn(m) == OpenTurn(m, Received(m))

MasterCmd(m) == OpenCmd(m, "M")

(* JEAN_close_master: the same loop as the channels', with its own Ctl_Rec. *)
CloseMaster(m) ==
  /\ cpc[m] = "up"
  /\ \E b \in Stack : Goto(m, "clean closing", b)
  /\ UNCHANGED <<msgs, peer, mode>>

AwaitQuit(m) ==
  /\ cpc[m] = "closing"
  /\ \E b \in Received(m) :
       \/ /\ b.op = "GET_REQ"
          /\ Goto(m, "closed", Blank)
          /\ UNCHANGED msgs
       \/ /\ b.op # "GET_REQ" /\ ctry[m] < MaxTry
          /\ Retry(m, b)
          /\ Send(ToServer(m, "MASTER_QUIT", "0x00"))
       \/ /\ b.op # "GET_REQ" /\ ctry[m] >= MaxTry
          /\ Goto(m, "failed", Blank)
          /\ UNCHANGED msgs
  /\ UNCHANGED <<peer, mode>>

(* The ends of clean_rec_buff, which nothing but silence brings about.     *)
MasterCleans(m) ==
  \/ CleanRecBuff(m, "clean waitip", "waitip", {})
  \/ CleanRecBuff(m, "clean wait", "wait", {})
  \/ CleanRecBuff(m, "clean cmd", "cmd", ToServer(m, "CMD_CHAN", "M"))
  \/ CleanRecBuff(m, "clean closing", "closing", ToServer(m, "MASTER_QUIT", "0x00"))

(* The steps the program takes by itself, since its receives time out.     *)
MasterStep(m) ==
  VerifyMaster(m) \/ MasterProbes(m) \/ MasterTurn(m) \/ MasterCmd(m) \/ AwaitQuit(m)

MasterNext(m) ==
  \/ StartMaster(m) \/ KeepAlive(m) \/ CloseMaster(m)
  \/ WaitSlaveIP(m) \/ ConfirmSlaveIP(m) \/ MasterAnswersProbe(m)
  \/ MasterBeginsProbe(m) \/ MasterVerdict(m)
  \/ MasterCleans(m) \/ MasterStep(m)

=============================================================================
