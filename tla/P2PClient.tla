----------------------------- MODULE P2PClient -----------------------------
(***************************************************************************)
(* What the master and the slave program have in common: the state of one  *)
(* run of JEAN_init_master / JEAN_init_slave, and how it receives.         *)
(*                                                                         *)
(* A run blocks in one recvfrom at a time; cpc[c] names it.  recvfrom      *)
(* leaves Ctl_Rec as it was when it times out, and the code looks at       *)
(* Ctl_Rec without looking at recvfrom's result.  A timeout therefore      *)
(* reads again what the buffer holds, which is ctl[c]: Blank after a       *)
(* memset, otherwise the last datagram, and at first whatever the stack    *)
(* held.                                                                   *)
(*                                                                         *)
(* Between these receives the programs empty the socket (clean_rec_buff):  *)
(* they receive, and discard, until 100 ms bring nothing.  There is no     *)
(* count, so the loop lasts as long as datagrams keep coming.              *)
(***************************************************************************)
EXTENDS P2PNet

CONSTANT
  Stack     \* what an uninitialised Ctl_Rec may hold

VARIABLES
  cpc, ctry, \* the recvfrom client c is in, and its loop counter
  ctl,       \* Ctl_Rec
  peer,      \* slave_sin in a master, master_sin in a slave
  mode       \* connectionStatus

clientVars == <<cpc, ctry, ctl, peer, mode>>

(* Only these two opcodes are looked for in a buffer that was not cleared. *)
Buffer == [op: {"V_RESP", "GET_REQ"}, arg: Code]
Blank  == [op |-> "other", arg |-> "0x00"]

ASSUME ClientAssumption ==
  /\ Stack \subseteq Buffer \cup {Blank}
  /\ Stack # {}

Held(p) == IF p.op \in {"V_RESP", "GET_REQ"} THEN [op |-> p.op, arg |-> p.arg]
                                             ELSE Blank

(* In clean_rec_buff, by what comes next.                                  *)
Cleaning == {"clean waitip", "clean wait", "clean reqip", "clean hole",
             "clean polsent", "clean cmd", "clean closing"}

ClientTypeOK ==
  /\ cpc \in [Clients -> {"off", "verify", "waitip", "reqip", "polsent", "wait",
                          "probe", "turn", "cmd", "up", "closing", "closed",
                          "failed"} \cup Cleaning]
  /\ ctry \in [Clients -> 0 .. MaxTry]
  /\ ctl \in [Clients -> Buffer \cup {Blank}]
  /\ peer \in [Clients -> Address]
  /\ mode \in [Clients -> {"FAIL", "P2P", "TURN"}]

ClientInit ==
  /\ cpc  = [c \in Clients |-> "off"]
  /\ ctry = [c \in Clients |-> 0]
  /\ ctl  = [c \in Clients |-> Blank]
  /\ peer = [c \in Clients |-> NoAddr]
  /\ mode = [c \in Clients |-> "FAIL"]

----------------------------------------------------------------------------
(* Goto ends a receive: the next one is pc, with buf in Ctl_Rec.           *)
Goto(c, pc, buf) ==
  /\ cpc'  = [cpc  EXCEPT ![c] = pc]
  /\ ctry' = [ctry EXCEPT ![c] = 0]
  /\ ctl'  = [ctl  EXCEPT ![c] = buf]

(* The counter is not advanced.                                            *)
Retry_Uncounted(c, buf) ==
  /\ ctl' = [ctl EXCEPT ![c] = buf]
  /\ UNCHANGED <<cpc, ctry>>

(* Another pass of the same loop.                                          *)
Retry(c, buf) ==
  /\ ctry' = [ctry EXCEPT ![c] = @ + 1]
  /\ ctl'  = [ctl  EXCEPT ![c] = buf]
  /\ UNCHANGED cpc

(* clean_rec_buff leaves Ctl_Rec alone.  What it discards stays in msgs,   *)
(* as the copy that the network may still bring, so that only its end is a *)
(* step; ps is what is sent next, before the receive after.                *)
CleanRecBuff(c, before, after, ps) ==
  /\ cpc[c] = before
  /\ Goto(c, after, ctl[c])
  /\ Send(ps)
  /\ UNCHANGED <<peer, mode>>

ToServer(c, op, arg) == {Packet(c, Server, op, arg)}

(* What Ctl_Rec can hold when recvfrom returns: a datagram or, after a     *)
(* timeout, what it held.                                                  *)
Received(c) == {Held(p) : p \in Inbox(c)} \cup {ctl[c]}

(* Any GET_REQ is taken for the peer's, as in the loops that open channels. *)
Probe_AnyAnswer(c, back, good, bad) ==
  /\ cpc[c] = "probe"
  /\ \E p \in Inbox(c) : p.op = "GET_REQ"
  /\ Goto(c, back, Blank)
  /\ Send(ToServer(c, "GET_REQ", good))
  /\ UNCHANGED <<peer, mode>>

(* A POL_REQ loop, the same in both programs: ask the peer, clear Ctl_Rec, *)
(* and report to the server whether its GET_REQ 0x0a came within MaxTry    *)
(* passes.  back is the receive of the loop around it.                     *)
Probe(c, back, good, bad) ==
  /\ cpc[c] = "probe"
  /\ \/ /\ \E p \in Inbox(c) : p.op = "GET_REQ" /\ p.arg = "0x0a"
        /\ Goto(c, back, Blank)
        /\ Send(ToServer(c, "GET_REQ", good))
     \/ /\ ctry[c] + 1 < MaxTry
        /\ Retry(c, Blank)
        /\ Send(ToPeer(c, peer[c], "POL_REQ", "0x00"))
     \/ /\ ctry[c] + 1 >= MaxTry
        /\ Goto(c, back, Blank)
        /\ Send(ToServer(c, "GET_REQ", bad))
  /\ UNCHANGED <<peer, mode>>

BeginProbe(c) ==
  /\ Goto(c, "probe", Blank)
  /\ UNCHANGED <<peer, mode>>

(* CON_ESTAB: acknowledge, take the verdict, and go on to the command      *)
(* channel, by way of the TURN channel if there is no direct path.         *)
TakeVerdict(c, p) ==
  /\ p.op = "CON_ESTAB"
  /\ \/ /\ p.arg = "0x01"
        /\ mode' = [mode EXCEPT ![c] = "P2P"]
        /\ Goto(c, "clean cmd", Blank)
        /\ Send(ToServer(c, "GET_REQ", "0x14"))
     \/ /\ p.arg # "0x01"
        /\ mode' = [mode EXCEPT ![c] = "TURN"]
        /\ Goto(c, "turn", Blank)
        /\ Send(ToServer(c, "GET_REQ", "0x14") \cup ToServer(c, "TURN_REQ", "0x00"))
  /\ UNCHANGED peer

(* The loops that open a channel, MaxTry + 1 passes: any GET_REQ in        *)
(* Ctl_Rec is taken for the answer, whoever sent it and whatever it        *)
(* confirms.  bufs is what the receive can leave in Ctl_Rec.               *)
OpenTurn(c, bufs) ==
  /\ cpc[c] = "turn"
  /\ \E b \in bufs :
       \/ /\ b.op = "GET_REQ"
          /\ Goto(c, "clean cmd", b)
          /\ UNCHANGED msgs
       \/ /\ b.op # "GET_REQ" /\ ctry[c] < MaxTry
          /\ Retry(c, b)
          /\ Send(ToServer(c, "TURN_REQ", "0x00"))
       \/ /\ b.op # "GET_REQ" /\ ctry[c] >= MaxTry
          /\ Goto(c, "failed", Blank)
          /\ UNCHANGED msgs
  /\ UNCHANGED <<peer, mode>>

(* who is "M" or "S".                                                      *)
OpenCmd(c, who) ==
  /\ cpc[c] = "cmd"
  /\ \E b \in Received(c) :
       \/ /\ b.op = "GET_REQ"
          /\ Goto(c, "up", Blank)
          /\ UNCHANGED msgs
       \/ /\ b.op # "GET_REQ" /\ ctry[c] < MaxTry
          /\ Retry(c, b)
          /\ Send(ToServer(c, "CMD_CHAN", who))
       \/ /\ b.op # "GET_REQ" /\ ctry[c] >= MaxTry
          /\ Goto(c, "failed", Blank)
          /\ UNCHANGED msgs
  /\ UNCHANGED <<peer, mode>>

=============================================================================
