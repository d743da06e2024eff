---------------------------- MODULE SlaveClient -----------------------------
(***************************************************************************)
(* The slave program (p2p-src/client-slave/main.c): JEAN_init_slave, one   *)
(* action per recvfrom.  "wait" and "turn" block without a timeout, the    *)
(* other receives give up after a second.                                  *)
(***************************************************************************)
EXTENDS P2PClient

StartSlave(s) ==
  /\ cpc[s] = "off"
  /\ \E b \in Stack : Goto(s, "verify", b)
  /\ Send(ToServer(s, "V_UAP_S", "0x00"))
  /\ UNCHANGED <<peer, mode>>

VerifySlave(s) ==
  /\ cpc[s] = "verify"
  /\ \E b \in Received(s) :
       \/ /\ b.op = "GET_REQ" /\ b.arg = "0x04"
          /\ Goto(s, "clean reqip", Blank)
          /\ UNCHANGED msgs
       \/ /\ b.op = "GET_REQ" /\ b.arg \in {"0x05", "0x06"}
          /\ Goto(s, "failed", Blank)
          /\ UNCHANGED msgs
       \/ /\ ~(b.op = "GET_REQ" /\ b.arg \in {"0x04", "0x05", "0x06"})
          /\ ctry[s] + 1 < MaxTry
          /\ Retry(s, b)
          /\ Send(ToServer(s, "V_UAP_S", "0x00"))
       \/ /\ ~(b.op = "GET_REQ" /\ b.arg \in {"0x04", "0x05", "0x06"})
          /\ ctry[s] + 1 >= MaxTry
          /\ Goto(s, "failed", Blank)
          /\ UNCHANGED msgs
  /\ UNCHANGED <<peer, mode>>

(* A loop that clears Ctl_Rec before every receive and repeats ps until    *)
(* its answer arrives.                                                     *)
AskAgain(s, ps) ==
  /\ \/ /\ ctry[s] + 1 < MaxTry
        /\ Retry(s, Blank)
        /\ Send(ps)
     \/ /\ ctry[s] + 1 >= MaxTry
        /\ Goto(s, "failed", Blank)
        /\ UNCHANGED msgs
  /\ UNCHANGED <<peer, mode>>

RequestMasterIP(s) ==
  /\ cpc[s] = "reqip"
  /\ \/ \E p \in Inbox(s) :
          /\ p.op = "RESP_M_IP"
          /\ peer' = [peer EXCEPT ![s] = p.at]
          /\ Goto(s, "clean hole", Blank)
          /\ UNCHANGED <<msgs, mode>>
     \/ AskAgain(s, ToServer(s, "REQ_M_IP", "0x00"))

SendPolSent(s) ==
  /\ cpc[s] = "polsent"
  /\ \/ /\ \E p \in Inbox(s) : p.op = "GET_REQ" /\ p.arg = "0x0b"
        /\ Goto(s, "wait", Blank)
        /\ UNCHANGED <<msgs, peer, mode>>
     \/ AskAgain(s, ToServer(s, "POL_SENT", "0x00"))

SlaveAnswersProbe(s) ==
  /\ cpc[s] = "wait"
  /\ \E p \in Inbox(s) : p.op = "POL_REQ"
  /\ Send(ToPeer(s, peer[s], "GET_REQ", "0x0a"))
  /\ UNCHANGED clientVars

SlaveBeginsProbe(s) ==
  /\ cpc[s] = "wait"
  /\ \E p \in Inbox(s) : p.op = "S_POL_REQ"
  /\ BeginProbe(s)
  /\ Send(ToPeer(s, peer[s], "POL_REQ", "0x00"))

SlaveProbes(s) == Probe(s, "wait", "0x10", "0x11")

SlaveVerdict(s) ==
  /\ cpc[s] = "wait"
  /\ \E p \in Inbox(s) : TakeVerdict(s, p)

(* No timeout: only a datagram ends a pass.                                *)
SlaveTurn(s) == OpenTurn(s, {Held(p) : p \in Inbox(s)})

SlaveCmd(s) == OpenCmd(s, "S")

(* JEAN_close_slave tells nobody.                                          *)
CloseSlave(s) ==
  /\ cpc[s] = "up"
  /\ Goto(s, "closed", Blank)
  /\ UNCHANGED <<msgs, peer, mode>>

(* The ends of clean_rec_buff.  With the master's address the slave opens  *)
(* a hole towards it, and asks the server to connect the two.              *)
SlaveCleans(s) ==
  \/ CleanRecBuff(s, "clean reqip", "reqip", ToServer(s, "REQ_M_IP", "0x00"))
  \/ CleanRecBuff(s, "clean hole", "clean polsent", ToPeer(s, peer[s], "POL_REQ", "0x00"))
  \/ CleanRecBuff(s, "clean polsent", "polsent", ToServer(s, "POL_SENT", "0x00"))
  \/ CleanRecBuff(s, "clean cmd", "cmd", ToServer(s, "CMD_CHAN", "S"))

(* The steps the program takes by itself, since their receives time out.   *)
SlaveStep(s) ==
  VerifySlave(s) \/ RequestMasterIP(s) \/ SendPolSent(s) \/ SlaveProbes(s) \/ SlaveCmd(s)

SlaveNext(s) ==
  \/ StartSlave(s) \/ CloseSlave(s)
  \/ SlaveAnswersProbe(s) \/ SlaveBeginsProbe(s) \/ SlaveVerdict(s) \/ SlaveTurn(s)
  \/ SlaveCleans(s) \/ SlaveStep(s)

=============================================================================
