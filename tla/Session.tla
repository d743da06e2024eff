------------------------------ MODULE Session -------------------------------
(***************************************************************************)
(* A connection attempt as a whole: the rendezvous server and every run of *)
(* the two client programs, over UDP.                                      *)
(***************************************************************************)
EXTENDS RendezvousServer, MasterClient, SlaveClient

vars == <<msgs, serverVars, clientVars>>

Init ==
  /\ msgs = {}
  /\ ServerInit
  /\ ClientInit

ServerMoves    == ServerNext /\ UNCHANGED clientVars
MasterMoves(m) == MasterNext(m) /\ UNCHANGED serverVars
SlaveMoves(s)  == SlaveNext(s) /\ UNCHANGED serverVars

Next ==
  \/ ServerMoves
  \/ \E m \in Masters : MasterMoves(m)
  \/ \E s \in Slaves : SlaveMoves(s)

Spec == Init /\ [][Next]_vars

(* SO_RCVTIMEO makes a recvfrom return whether or not anything arrives:    *)
(* the server's nested loops and the clients' timed receives go on by      *)
(* themselves.  Nothing is assumed about the network; nothing about the    *)
(* receives that block: the server's dispatch loop, the master's wait for  *)
(* an S_IP, the slave's wait and its TURN loop; and nothing about          *)
(* clean_rec_buff, which ends only when the network falls silent.          *)
Fairness ==
  /\ WF_vars(ServerLoop /\ UNCHANGED clientVars)
  /\ \A m \in Masters : WF_vars(MasterStep(m) /\ UNCHANGED serverVars)
  /\ \A s \in Slaves : WF_vars(SlaveStep(s) /\ UNCHANGED serverVars)

FairSpec == Spec /\ Fairness

TypeOK ==
  /\ msgs \subseteq Datagram
  /\ ServerTypeOK
  /\ ClientTypeOK

-----------------------------------------------------------------------------
(* Server and both clients, causally: CON_ESTAB(1) needs a GRQ 0x0e or     *)
(* 0x10, which needs a GET_REQ 0x0a, which only a peer sends.              *)

(* The direct round trips completed so far: <<who answered, who had asked>>. *)
Answers == {p \in msgs : p.op = "GET_REQ" /\ p.arg = "0x0a"}
RoundTrips == {<<p.src, p.dst>> : p \in Answers}

Pairs == (Masters \X Slaves) \cup (Slaves \X Masters)

Asked(c) == \E q \in msgs : q.op = "POL_REQ" /\ q.dst = c

Punched == \E p \in Answers : <<p.src, p.dst>> \in Pairs /\ Asked(p.src)

(* A client takes the direct path only if a POL_REQ was answered with      *)
(* GET_REQ 0x0a, directly, between a master and a slave, and somebody had  *)
(* sent that POL_REQ to the one that answered: no loss, delay, duplicate   *)
(* or second attempt makes the server announce a path nobody has seen.     *)
P2POnlyIfPunched == (\E c \in Clients : mode[c] = "P2P") => Punched

(* The first master that was registered.                                   *)
Host == IF nodes = <<>> THEN None ELSE nodes[1].m

Connecting == {"mclean", "mpol", "sclean", "spol", "estab"}

(* While the server connects the two, and when it has a verdict, the       *)
(* registered master has received some slave's address: the status read in *)
(* POL_SENT was set by a confirmation the master really sent.  (A relay    *)
(* thread that makes a lookup go wrong can bring in a second master.)      *)
MasterIntroduced ==
  /\ ~disturbed
  /\ \/ spc \in Connecting
     \/ \E i \in 1 .. Len(nodes) : nodes[i].status = "M_GET_SLAVE_IP"
     \/ \E p \in msgs : p.op = "CON_ESTAB"
  => Host \in Masters /\ peer[Host].of \in Slaves

(* All clients agree who hosts, as long as no relay thread has made a      *)
(* lookup go wrong.  Of several masters that log in at once, with their    *)
(* answers late or lost, only the registered one is ever introduced, and   *)
(* every slave is introduced to that one.                                  *)
OneHost ==
  ~disturbed =>
    /\ \A m \in Masters : peer[m] # NoAddr => m = Host
    /\ \A s \in Slaves : peer[s] # NoAddr => peer[s].of = Host

(* An address handed out can be reached from where it is used: Send_S_IP   *)
(* and Send_M_IP decide on the local or the public address for the peer    *)
(* they write to, though a later login may have replaced the slave.        *)
RoutablePeers ==
  \A c \in Clients :
    peer[c].net = "local" => Site[c] = Site[peer[c].of]

(* POL_SENT dereferences the entry named by the last request that carried  *)
(* a name, and V_UAP_S returns from main when it cannot find twice what it *)
(* found once.  The server dies of either only if a master has quit, a     *)
(* client with another name has asked for something, or a relay thread has *)
(* disturbed a lookup or died in its own.                                  *)
CrashOnlyAfterQuit ==
  spc \in {"crashed", "exited"} =>
    \/ \E p \in msgs : p.op = "MASTER_QUIT"
    \/ \E c \in BadCred : cpc[c] # "off"
    \/ disturbed

(* One connection attempt has one outcome: however the verdict is repeated *)
(* and whoever hears it first, no two clients are left in different modes  *)
(* unless POL_SENT was taken twice.                                        *)
OneVerdictPerAttempt ==
  polRuns < 2 =>
    \A c, d \in Clients :
      mode[c] # "FAIL" /\ mode[d] # "FAIL" => mode[c] = mode[d]

(* The same without the proviso.  The server says "Send connection         *)
(* result(%d) to master and slave" (server/main.c:1097), one result.       *)
ModesAgree ==
  \A c, d \in Clients :
    mode[c] # "FAIL" /\ mode[d] # "FAIL" => mode[c] = mode[d]

(* The server always comes back to its dispatch loop (or has died), unless *)
(* it stays for ever in one of the two clean_rec_buff of POL_SENT, which   *)
(* datagrams at less than 100 ms from each other bring about: no traffic   *)
(* holds it in a loop that counts for more than MaxTry passes.  (CMD_CHAN  *)
(* is one step here; that it comes to an end is CmdRelay's.)               *)
ServerReturns ==
  \/ []<>(spc \in {"main", "crashed", "exited"})
  \/ <>[](spc \in {"mclean", "sclean"})

(* Nor does any client stay among the receives that time out and count:    *)
(* from each of them it gets to one that may block, to the end of its run, *)
(* or into a clean_rec_buff that does not end.                             *)
Timed(c) ==
  IF c \in Masters THEN {"verify", "probe", "turn", "cmd", "closing"}
                   ELSE {"verify", "reqip", "polsent", "probe", "cmd"}

ClientsMoveOn ==
  \A c \in Clients :
    \/ []<>(cpc[c] \notin Timed(c) \cup Cleaning)
    \/ <>[](cpc[c] \in Cleaning)

-----------------------------------------------------------------------------
(* Why P2POnlyIfPunched holds: every datagram that reports a direct path,  *)
(* or is on the way to one, has its cause in msgs.                         *)
AddressOf(S) == [net: {"public", "local"}, of: S]

Caused(p) ==
  /\ p.op = "V_UAP" => p.src \in Masters
  /\ p.op = "V_UAP_S" => p.src \in Slaves
  /\ p.op = "S_IP" => p.dst \in Masters /\ p.at \in AddressOf(Slaves) \cup {Unset}
  /\ p.op = "RESP_M_IP" => p.dst \in Slaves /\ p.at \in AddressOf(Masters)
  /\ p.op = "GET_REQ" /\ p.arg = "0x0a" =>
       <<p.src, p.dst>> \in Pairs /\ Asked(p.src)
  /\ p.op = "GET_REQ" /\ p.arg \in {"0x0e", "0x10"} => Punched
  /\ p.op = "CON_ESTAB" /\ p.arg = "0x01" => Punched

PeersInv ==
  /\ \A m \in Masters : peer[m] \in AddressOf(Slaves) \cup {NoAddr, Unset}
  /\ \A s \in Slaves : peer[s] \in AddressOf(Masters) \cup {NoAddr}

ServerInv ==
  /\ spc \in {"sip"} \cup Connecting => tmpn # 0
  /\ poleRes = 1 => Punched

(* The inductive invariant.                                                *)
SessionInv ==
  /\ TypeOK
  /\ \A p \in msgs : Caused(p)
  /\ PeersInv
  /\ ServerInv
  /\ P2POnlyIfPunched

-----------------------------------------------------------------------------
(* The session implements Rendezvous: the messages are how the server and  *)
(* the clients bring about its steps.                                      *)
Abstract == INSTANCE Rendezvous WITH
  host       <- Host,
  introduced <- \E m \in Masters : peer[m] # NoAddr,
  attempted  <- polRuns > 0,
  contact    <- RoundTrips,
  settled    <- mode

ImplementsRendezvous == Abstract!AbsSpec
=============================================================================
