-------------------------- MODULE RendezvousProofs --------------------------
(***************************************************************************)
(* More proofs about Session: who hosts, who has been introduced to whom,  *)
(* what an attempt ends in, and that all of it implements Rendezvous.      *)
(***************************************************************************)
EXTENDS SessionProofs

(* The verdicts on their way or taken.                                     *)
Verdicts == {p \in msgs : p.op = "CON_ESTAB"}

(* Where a client is that has taken its verdict.                           *)
Late == {"turn", "clean cmd", "cmd", "up", "clean closing", "closing", "closed", "failed"}

(* The first registered master has received some slave's address.          *)
Introduced == Host \in Masters /\ peer[Host].of \in Slaves

Confirmed == \E i \in 1 .. Len(nodes) : nodes[i].status = "M_GET_SLAVE_IP"

(* What a datagram tells of the time it was sent at.  Nothing of it is     *)
(* ever undone, until a lookup goes wrong.                                 *)
Told(p) ==
  /\ p.op \in {"S_IP", "RESP_M_IP"} => nodes # <<>>
  /\ p.op = "S_IP" => disturbed \/ (p.dst = Host /\ p.at.of \in Slaves)
  /\ p.op = "RESP_M_IP" => disturbed \/ p.at.of = Host
  /\ p.op \in {"S_IP", "RESP_M_IP"} /\ p.at.net = "local" => Site[p.dst] = Site[p.at.of]
  /\ p.op = "CON_ESTAB" => polRuns > 0
  /\ p.op = "GET_REQ" /\ p.arg = "0x08" => \E m \in Masters : peer[m] # NoAddr
  /\ p.op = "POL_SENT" => \E s \in Slaves : peer[s] # NoAddr
  /\ p.src \in Clients => cpc[p.src] # "off"

(* What a client knows at each of its receives.                            *)
At(c) ==
  /\ c \in Masters /\ cpc[c] \in {"clean wait", "wait", "probe"} => peer[c] # NoAddr
  /\ c \in Slaves /\ cpc[c] \in {"clean hole", "clean polsent", "polsent"} => peer[c] # NoAddr
  /\ mode[c] # "FAIL" => cpc[c] \in Late
  /\ mode[c] = "P2P" => \E p \in Verdicts : p.arg = "0x01"
  /\ mode[c] = "TURN" => \E p \in Verdicts : p.arg # "0x01"

(* OneHost and RoutablePeers, of one client.                               *)
PeerRight(c) ==
  /\ peer[c] # NoAddr => nodes # <<>>
  /\ c \in Masters /\ peer[c] # NoAddr => disturbed \/ (c = Host /\ peer[c].of \in Slaves)
  /\ c \in Slaves /\ peer[c] # NoAddr => disturbed \/ peer[c].of = Host
  /\ peer[c].net = "local" => Site[c] = Site[peer[c].of]

(* What the list tells.                                                    *)
ListInv ==
  /\ ~disturbed => Len(nodes) <= 1
  /\ ~disturbed /\ spc = "sip" => nodes[tmpn].s # None
  /\ Confirmed => \E m \in Masters : peer[m] # NoAddr

(* Why POL_SENT may find no entry.                                         *)
Excused ==
  \/ \E p \in msgs : p.op = "MASTER_QUIT"
  \/ \E c \in BadCred : cpc[c] # "off"
  \/ disturbed

Res(pole) == IF pole = 0 THEN "0x02" ELSE "0x01"

(* The attempt under way.                                                  *)
AttemptInv ==
  /\ spc \in Connecting => polRuns > 0
  /\ nodes = <<>> \/ uname = "UNAME" \/ Excused
  /\ polRuns < 2 =>
       /\ \A p, q \in Verdicts : p.arg = q.arg
       /\ spc \in Connecting \ {"estab"} => Verdicts = {}
       /\ spc = "estab" => \A p \in Verdicts : p.arg = Res(poleRes)

(* The inductive invariant, on top of SessionInv.                          *)
RendezvousInv ==
  /\ \A p \in msgs : Told(p)
  /\ \A c \in Clients : At(c) /\ PeerRight(c)
  /\ ListInv /\ AttemptInv
  /\ MasterIntroduced /\ CrashOnlyAfterQuit

(* A step of Rendezvous, or none.                                          *)
AbsStep == [Abstract!AbsNext]_(Abstract!absVars)

-----------------------------------------------------------------------------
(* What is sent.                                                           *)

(* Datagrams of x that tell nothing and answer no probe: most of them.     *)
Plain(x, ps) ==
  \A p \in ps :
    /\ p.src = x
    /\ p.op \notin {"S_IP", "RESP_M_IP", "CON_ESTAB", "POL_SENT"}
    /\ p.op = "GET_REQ" => p.arg \notin {"0x08", "0x0a"}

(* No answer to a probe is among them.                                     *)
Silent(ps) == \A p \in ps : ~(p.op = "GET_REQ" /\ p.arg = "0x0a")

(* What a client sends besides the datagrams RendezvousInv speaks of is    *)
(* plain.                                                                  *)
LEMMA PlainPackets ==
  ASSUME NEW x, NEW y, NEW arg,
         NEW op, op \notin {"S_IP", "RESP_M_IP", "CON_ESTAB", "POL_SENT"},
         op = "GET_REQ" => arg \notin {"0x08", "0x0a"}
  PROVE  /\ Plain(x, {Packet(x, y, op, arg)}) /\ Plain(x, {})
         /\ Plain(x, ToServer(x, op, arg))
         /\ \A a : Plain(x, ToPeer(x, a, op, arg))
<1>1. \A z : Plain(x, {Packet(x, z, op, arg)})
  BY DEF Plain, Packet
<1>2. Plain(x, {})
  BY DEF Plain
<1>3. Plain(x, ToServer(x, op, arg))
  BY <1>1 DEF ToServer
<1>4. \A a : Plain(x, ToPeer(x, a, op, arg))
  BY <1>1, <1>2 DEF ToPeer
<1> QED BY <1>1, <1>2, <1>3, <1>4

LEMMA PlainUnion ==
  ASSUME NEW x, NEW ps, NEW qs, Plain(x, ps), Plain(x, qs)
  PROVE  Plain(x, ps \cup qs)
BY DEF Plain

(* A plain datagram answers no probe and carries no verdict.               *)
LEMMA PlainSilent ==
  ASSUME NEW x, NEW ps, Plain(x, ps)
  PROVE  Silent(ps) /\ \A p \in ps : p.op # "CON_ESTAB"
BY DEF Plain, Silent

(* Only an answer to a probe makes a round trip.                           *)
LEMMA SilentStays ==
  ASSUME NEW ps, Send(ps), Silent(ps)
  PROVE  RoundTrips' = RoundTrips
<1>1. Answers' = Answers
  BY DEF Send, Silent, Answers
<1> QED BY <1>1 DEF RoundTrips

(* A step that changes none of the five things the refinement reads is a   *)
(* stutter of Rendezvous.                                                  *)
LEMMA Stutters ==
  ASSUME Host' = Host, polRuns' > 0 <=> polRuns > 0,
         \A m \in Masters : peer'[m] # NoAddr <=> peer[m] # NoAddr,
         RoundTrips' = RoundTrips, mode' = mode
  PROVE  AbsStep
<1>1. (\E m \in Masters : peer'[m] # NoAddr) = (\E m \in Masters : peer[m] # NoAddr)
  OBVIOUS
<1>2. (polRuns' > 0) = (polRuns > 0)
  OBVIOUS
<1> QED BY <1>1, <1>2 DEF AbsStep, Abstract!absVars

(* The host is the first entry's master.                                   *)
LEMMA HostIsMaster ==
  ASSUME SessionInv, nodes # <<>>
  PROVE  Host \in Masters
<1>1. nodes \in Seq(NodeType)
  BY ServerFacts
<1>2. 1 \in 1 .. Len(nodes)
  BY <1>1, EmptySeq
<1>3. nodes[1] \in NodeType
  BY <1>1, <1>2, ElementOfSeq
<1> QED BY <1>3 DEF Host, NodeType

-----------------------------------------------------------------------------
(* The clients.                                                            *)

(* What a client's step does to the invariant is a matter of what it sends *)
(* and of its own variables.                                               *)
LEMMA ClientTells ==
  ASSUME SessionInv, SessionInv', RendezvousInv, UNCHANGED serverVars,
         NEW c \in Clients, NEW ps, Send(ps),
         \A p \in ps : /\ p.src = c
                       /\ p.op \notin {"S_IP", "RESP_M_IP", "CON_ESTAB"}
                       /\ p.op = "GET_REQ" /\ p.arg = "0x08" => c \in Masters /\ peer'[c] # NoAddr
                       /\ p.op = "POL_SENT" => c \in Slaves /\ peer'[c] # NoAddr,
         \A d \in Clients : d # c => cpc'[d] = cpc[d] /\ peer'[d] = peer[d] /\ mode'[d] = mode[d],
         cpc'[c] # "off",
         peer[c] # NoAddr => peer'[c] # NoAddr,
         PeerRight(c)', At(c)'
  PROVE  RendezvousInv'
<1>s. UNCHANGED <<spc, nodes, tmpn, poleRes, uname, polRuns, disturbed>> /\ Host' = Host
  BY DEF serverVars, Host
<1>m. msgs' = msgs \cup ps
  BY DEF Send
<1>v. Verdicts' = Verdicts
  BY <1>m DEF Verdicts
<1>p. \A d \in Clients : /\ peer[d] # NoAddr => peer'[d] # NoAddr
                         /\ cpc[d] # "off" => cpc'[d] # "off"
  OBVIOUS
<1>c. Masters \subseteq Clients /\ Slaves \subseteq Clients /\ BadCred \subseteq Clients
      /\ None \notin Clients /\ Masters \cap Slaves = {}
  BY NetAssumption, ServerAssumption DEF Clients
<1>1. ASSUME NEW p \in msgs' PROVE Told(p)'
  <2>1. CASE p \in msgs
    <3>1. Told(p)
      BY <2>1 DEF RendezvousInv
    <3> QED BY <1>s, <1>p, <1>c, <3>1 DEF Told
  <2>2. CASE p \in ps
    BY <1>c, <2>2 DEF Told
  <2> QED BY <1>m, <2>1, <2>2
<1>2. ASSUME NEW d \in Clients PROVE At(d)' /\ PeerRight(d)'
  <2>1. CASE d # c
    <3>1. At(d) /\ PeerRight(d)
      BY DEF RendezvousInv
    <3>2. At(d)'
      BY <1>v, <2>1, <3>1 DEF At
    <3>3. PeerRight(d)'
      BY <1>s, <2>1, <3>1 DEF PeerRight
    <3> QED BY <3>2, <3>3
  <2> QED BY <2>1
<1>e. Excused => Excused'
  BY <1>m, <1>s, <1>p, <1>c DEF Excused
<1>3. AttemptInv'
  BY <1>s, <1>v, <1>e DEF RendezvousInv, AttemptInv
<1>4. ListInv'
  BY <1>s, <1>p, <1>c DEF RendezvousInv, ListInv, Confirmed
<1>5. MasterIntroduced'
  <2> SUFFICES ASSUME ~disturbed, Introduced PROVE Introduced'
    BY <1>s, <1>m DEF RendezvousInv, MasterIntroduced, Introduced
  <2>1. peer[Host] # NoAddr
    BY <1>c DEF Introduced, NoAddr
  <2>2. Host \in Masters /\ peer'[Host] # NoAddr
    BY <1>p, <1>c, <2>1 DEF Introduced
  <2>3. PICK h \in Masters : h = Host
    BY <2>2
  <2>4. PeerRight(h)'
    BY <1>2, <1>c
  <2> QED BY <1>s, <2>2, <2>3, <2>4 DEF PeerRight, Introduced
<1>6. CrashOnlyAfterQuit'
  BY <1>s, <1>e DEF RendezvousInv, CrashOnlyAfterQuit, Excused
<1> QED BY <1>1, <1>2, <1>3, <1>4, <1>5, <1>6 DEF RendezvousInv

(* The step of a client c to its receive pc.                               *)
Moves(c, pc) == cpc' = [cpc EXCEPT ![c] = pc] \/ (pc = cpc[c] /\ UNCHANGED cpc)

(* Where a client may go that keeps its peer and its mode.                 *)
PcRight(c, pc) ==
  /\ c \in Masters /\ pc \in {"clean wait", "wait", "probe"} => peer[c] # NoAddr
  /\ c \in Slaves /\ pc \in {"clean hole", "clean polsent", "polsent"} => peer[c] # NoAddr
  /\ cpc[c] \in Late => pc \in Late

(* Such a step, with its peer known if it says so.                         *)
LEMMA QuietStep ==
  ASSUME SessionInv, SessionInv', RendezvousInv, UNCHANGED serverVars, UNCHANGED <<peer, mode>>,
         NEW c \in Clients, NEW pc \in PC \ {"off"}, Moves(c, pc), PcRight(c, pc),
         NEW ps, Send(ps),
         \A p \in ps : /\ p.src = c
                       /\ p.op \notin {"S_IP", "RESP_M_IP", "CON_ESTAB"}
                       /\ p.op = "GET_REQ" /\ p.arg = "0x08" => c \in Masters /\ peer[c] # NoAddr
                       /\ p.op = "POL_SENT" => c \in Slaves /\ peer[c] # NoAddr
  PROVE  RendezvousInv' /\ (Silent(ps) => AbsStep)
<1>s. UNCHANGED <<spc, nodes, polRuns, disturbed>> /\ Host' = Host
  BY DEF serverVars, Host
<1>1. cpc'[c] = pc /\ \A d \in Clients : d # c => cpc'[d] = cpc[d]
  BY DEF Moves, SessionInv, TypeOK, ClientTypeOK
<1>2. PeerRight(c)'
  BY <1>s DEF RendezvousInv, PeerRight
<1>3. At(c)'
  <2>1. At(c) /\ \A p \in Verdicts : p \in Verdicts'
    BY DEF RendezvousInv, Verdicts, Send
  <2> QED BY <1>1, <2>1 DEF At, PcRight
<1>4. RendezvousInv'
  BY <1>1, <1>2, <1>3, ClientTells
<1>5. Silent(ps) => AbsStep
  BY <1>s, SilentStays, Stutters
<1> QED BY <1>4, <1>5

(* A client's step that only sends plain datagrams.                        *)
LEMMA PlainStep ==
  ASSUME SessionInv, SessionInv', RendezvousInv, UNCHANGED serverVars, UNCHANGED <<peer, mode>>,
         NEW c \in Clients, NEW pc \in PC \ {"off"}, Moves(c, pc), PcRight(c, pc),
         NEW ps, Send(ps), Plain(c, ps)
  PROVE  RendezvousInv' /\ AbsStep
BY QuietStep, PlainSilent DEF Plain

(* A pass that sends nothing, makes another pass or gives up.              *)
LEMMA LoopStep ==
  ASSUME SessionInv, SessionInv', RendezvousInv, UNCHANGED serverVars, UNCHANGED <<peer, mode>>,
         NEW c \in Clients, cpc[c] # "off",
         NEW pc \in PC \ {"off"}, PcRight(c, pc), NEW buf, NEW b,
         NEW ps, Plain(c, ps), NEW qs, Plain(c, qs),
         \/ Goto(c, pc, buf) /\ Send(qs)
         \/ Retry(c, b) /\ Send(ps)
         \/ Goto(c, "failed", Blank) /\ UNCHANGED msgs
  PROVE  RendezvousInv' /\ AbsStep
<1>p. cpc[c] \in PC \ {"off"} /\ "failed" \in PC \ {"off"} /\ cpc \in [Clients -> PC]
  BY DEF PC, Cleaning, SessionInv, TypeOK, ClientTypeOK
<1>1. CASE Goto(c, pc, buf) /\ Send(qs)
  <2>1. Moves(c, pc)
    BY <1>1 DEF Moves, Goto
  <2> QED BY <1>1, <2>1, PlainStep
<1>2. CASE Retry(c, b) /\ Send(ps)
  <2>1. Moves(c, cpc[c]) /\ PcRight(c, cpc[c])
    BY <1>2 DEF Moves, Retry, PcRight, RendezvousInv, At
  <2> QED BY <1>p, <1>2, <2>1, PlainStep
<1>3. CASE Goto(c, "failed", Blank) /\ UNCHANGED msgs
  <2>1. Moves(c, "failed") /\ PcRight(c, "failed") /\ Send({}) /\ Plain(c, {})
    BY <1>3, SendNothing DEF Moves, Goto, PcRight, Late, Plain
  <2> QED BY <1>p, <2>1, PlainStep
<1> QED BY <1>1, <1>2, <1>3

(* A client at an early receive goes on to one where it need know nothing. *)
LEMMA EarlyStep ==
  ASSUME SessionInv, SessionInv', RendezvousInv, UNCHANGED serverVars, UNCHANGED <<peer, mode>>,
         NEW c \in Clients, cpc[c] \notin Late, NEW pc \in PC \ {"off"},
         c \in Masters => pc \notin {"clean wait", "wait", "probe"},
         c \in Slaves => pc \notin {"clean hole", "clean polsent", "polsent"},
         NEW buf, Goto(c, pc, buf), NEW ps, Send(ps), Plain(c, ps)
  PROVE  RendezvousInv' /\ AbsStep
<1>1. Moves(c, pc) /\ PcRight(c, pc)
  BY DEF Moves, Goto, PcRight
<1> QED BY <1>1, PlainStep

(* The probing loop: its answers are what a contact is in Rendezvous.      *)
LEMMA ProbeRight ==
  ASSUME SessionInv, SessionInv', RendezvousInv, UNCHANGED serverVars, NEW c \in Clients,
         NEW good \in {"0x0e", "0x10"}, NEW bad \in {"0x0f", "0x11"},
         Probe(c, "wait", good, bad)
  PROVE  RendezvousInv' /\ AbsStep
<1>1. /\ cpc[c] = "probe" /\ UNCHANGED <<peer, mode>>
      /\ \/ Goto(c, "wait", Blank) /\ Send(ToServer(c, "GET_REQ", good))
         \/ Retry(c, Blank) /\ Send(ToPeer(c, peer[c], "POL_REQ", "0x00"))
         \/ Goto(c, "wait", Blank) /\ Send(ToServer(c, "GET_REQ", bad))
  BY DEF Probe
<1>2. PcRight(c, "wait") /\ "wait" \in PC \ {"off"}
  BY <1>1, NetAssumption DEF RendezvousInv, At, PcRight, Late, PC
<1>3. /\ Plain(c, ToServer(c, "GET_REQ", good)) /\ Plain(c, ToServer(c, "GET_REQ", bad))
      /\ Plain(c, ToPeer(c, peer[c], "POL_REQ", "0x00"))
  BY PlainPackets
<1> QED BY <1>1, <1>2, <1>3, LoopStep

(* A verdict is taken once, of an attempt.                                 *)
LEMMA VerdictRight ==
  ASSUME SessionInv, SessionInv', RendezvousInv, UNCHANGED serverVars, NEW c \in Clients,
         cpc[c] = "wait", NEW p \in Inbox(c), TakeVerdict(c, p)
  PROVE  RendezvousInv' /\ AbsStep
<1>1. PICK m \in {"P2P", "TURN"}, pc \in {"clean cmd", "turn"},
           ps \in {{}, ToServer(c, "TURN_REQ", "0x00")} :
        /\ m = "P2P" <=> p.arg = "0x01"
        /\ mode' = [mode EXCEPT ![c] = m]
        /\ Goto(c, pc, Blank)
        /\ Send(ToServer(c, "GET_REQ", "0x14") \cup ps)
  <2>1. ToServer(c, "GET_REQ", "0x14") \cup {} = ToServer(c, "GET_REQ", "0x14")
    OBVIOUS
  <2>2. CASE p.arg = "0x01"
    BY <2>1, <2>2 DEF TakeVerdict
  <2>3. CASE p.arg # "0x01"
    BY <2>3 DEF TakeVerdict
  <2> QED BY <2>2, <2>3
<1>s. UNCHANGED <<spc, nodes, polRuns, disturbed, peer>> /\ Host' = Host
  BY DEF serverVars, TakeVerdict, Host
<1>2. Plain(c, ToServer(c, "GET_REQ", "0x14") \cup ps)
  <2>1. Plain(c, ToServer(c, "GET_REQ", "0x14")) /\ Plain(c, ToServer(c, "TURN_REQ", "0x00"))
        /\ Plain(c, {})
    BY PlainPackets
  <2> QED BY <2>1, PlainUnion
<1>3. p \in Verdicts /\ p \in Verdicts' /\ p \in msgs
  BY <1>1 DEF TakeVerdict, Verdicts, Inbox, Send
<1>4. /\ cpc'[c] = pc /\ mode'[c] = m
      /\ \A d \in Clients : d # c => cpc'[d] = cpc[d] /\ mode'[d] = mode[d]
  BY <1>1 DEF Goto, SessionInv, TypeOK, ClientTypeOK
<1>5. At(c)' /\ PeerRight(c)'
  <2>1. At(c)'
    BY <1>1, <1>3, <1>4 DEF At, Late
  <2>2. PeerRight(c)'
    BY <1>s DEF RendezvousInv, PeerRight
  <2> QED BY <2>1, <2>2
<1>6. RendezvousInv'
  BY <1>1, <1>2, <1>s, <1>4, <1>5, ClientTells DEF Plain
<1>7. AbsStep
  <2>1. RoundTrips' = RoundTrips
    BY <1>1, <1>2, PlainSilent, SilentStays
  <2>2. polRuns > 0 /\ mode[c] = "FAIL"
    <3>1. Told(p) /\ At(c) /\ mode[c] \in {"FAIL", "P2P", "TURN"}
      BY <1>3 DEF RendezvousInv, SessionInv, TypeOK, ClientTypeOK
    <3> QED BY <1>3, <3>1 DEF Told, At, Late, Verdicts
  <2>3. m = "P2P" => RoundTrips # {}
    <3>1. m = "P2P" => Punched
      BY <1>1, <1>3 DEF SessionInv, Caused, Verdicts
    <3> QED BY <3>1 DEF Punched, RoundTrips
  <2>4. Abstract!Settle(c)
    BY <1>s, <1>1, <2>1, <2>2, <2>3 DEF Abstract!Settle
  <2> QED BY <2>4 DEF AbsStep, Abstract!AbsNext, Abstract!Parties, Clients
<1> QED BY <1>6, <1>7

(* The TURN loop and the command loop, which both programs share.          *)
LEMMA TurnRight ==
  ASSUME SessionInv, SessionInv', RendezvousInv, UNCHANGED serverVars, NEW c \in Clients,
         NEW bufs, OpenTurn(c, bufs)
  PROVE  RendezvousInv' /\ AbsStep
<1>1. PICK b \in bufs :
        \/ Goto(c, "clean cmd", b) /\ UNCHANGED msgs
        \/ Retry(c, b) /\ Send(ToServer(c, "TURN_REQ", "0x00"))
        \/ Goto(c, "failed", Blank) /\ UNCHANGED msgs
  BY DEF OpenTurn
<1>2. /\ cpc[c] # "off" /\ UNCHANGED <<peer, mode>>
      /\ "clean cmd" \in PC \ {"off"} /\ PcRight(c, "clean cmd")
  BY DEF OpenTurn, PC, Cleaning, PcRight, Late
<1>3. Plain(c, ToServer(c, "TURN_REQ", "0x00")) /\ Plain(c, {})
  BY PlainPackets DEF Plain
<1> QED BY <1>1, <1>2, <1>3, SendNothing, LoopStep

(* The end of clean_rec_buff, where the next receive is no news.           *)
LEMMA CleanRight ==
  ASSUME SessionInv, SessionInv', RendezvousInv, UNCHANGED serverVars, NEW c \in Clients,
         NEW before \in Cleaning, NEW after \in PC \ {"off"}, NEW ps, Plain(c, ps),
         CleanRecBuff(c, before, after, ps), PcRight(c, after)
  PROVE  RendezvousInv' /\ AbsStep
<1>1. Moves(c, after) /\ Send(ps) /\ UNCHANGED <<peer, mode>>
  BY DEF CleanRecBuff, Moves, Goto
<1> QED BY <1>1, PlainStep

LEMMA CmdRight ==
  ASSUME SessionInv, SessionInv', RendezvousInv, UNCHANGED serverVars, NEW c \in Clients,
         NEW who, OpenCmd(c, who)
  PROVE  RendezvousInv' /\ AbsStep
<1>1. PICK b \in Received(c) :
        \/ Goto(c, "up", Blank) /\ UNCHANGED msgs
        \/ Retry(c, b) /\ Send(ToServer(c, "CMD_CHAN", who))
        \/ Goto(c, "failed", Blank) /\ UNCHANGED msgs
  BY DEF OpenCmd
<1>2. cpc[c] # "off" /\ UNCHANGED <<peer, mode>> /\ "up" \in PC \ {"off"} /\ PcRight(c, "up")
  BY DEF OpenCmd, PC, PcRight, Late
<1>3. Plain(c, ToServer(c, "CMD_CHAN", who)) /\ Plain(c, {})
  BY PlainPackets DEF Plain
<1> QED BY <1>1, <1>2, <1>3, SendNothing, LoopStep

(* An answer to a probe is a round trip.                                   *)
LEMMA AnswerRight ==
  ASSUME SessionInv, SessionInv', RendezvousInv, UNCHANGED serverVars, UNCHANGED clientVars,
         NEW c \in Clients, cpc[c] = "wait", Send(ToPeer(c, peer[c], "GET_REQ", "0x0a"))
  PROVE  RendezvousInv' /\ AbsStep
<1> DEFINE ps == ToPeer(c, peer[c], "GET_REQ", "0x0a")
<1>s. UNCHANGED <<spc, nodes, polRuns, cpc, peer, mode>> /\ Host' = Host
  BY DEF serverVars, clientVars, Host
<1>1. ps = {} \/ (ps = {Packet(c, peer[c].of, "GET_REQ", "0x0a")} /\ peer[c] # NoAddr)
  BY DEF ToPeer, NoAddr
<1>0. ps # {} => peer[c] # Unset
  BY DEF ToPeer, Unset
<1>2. RendezvousInv' /\ (Silent(ps) => AbsStep)
  <2>1. Moves(c, "wait") /\ PcRight(c, "wait") /\ "wait" \in PC \ {"off"}
    BY <1>s, NetAssumption DEF Moves, PcRight, RendezvousInv, At, Late, PC
  <2>2. \A p \in ps : p.src = c /\ p.op = "GET_REQ" /\ p.arg = "0x0a"
    BY <1>1 DEF Packet
  <2> HIDE DEF ps
  <2> QED BY <1>s, <2>1, <2>2, QuietStep DEF ps
<1>3. CASE ps = {}
  BY <1>2, <1>3 DEF Silent
<1>4. CASE ps = {Packet(c, peer[c].of, "GET_REQ", "0x0a")} /\ peer[c] # NoAddr
  <2>1. <<c, peer[c].of>> \in Pairs
    BY <1>0, <1>4, PeerType DEF AddressOf, Pairs
  <2>2. RoundTrips' = RoundTrips \cup {<<c, peer[c].of>>}
    <3>1. Answers' = Answers \cup {Packet(c, peer[c].of, "GET_REQ", "0x0a")}
      BY <1>4 DEF Send, Answers, Packet
    <3>2. /\ Packet(c, peer[c].of, "GET_REQ", "0x0a").src = c
          /\ Packet(c, peer[c].of, "GET_REQ", "0x0a").dst = peer[c].of
      BY DEF Packet
    <3>3. \A r : r \in RoundTrips' <=> (\E p \in Answers' : r = <<p.src, p.dst>>)
      BY DEF RoundTrips
    <3>4. \A r : r \in RoundTrips <=> (\E p \in Answers : r = <<p.src, p.dst>>)
      BY DEF RoundTrips
    <3>5. \A r : r \in RoundTrips' <=> (r \in RoundTrips \/ r = <<c, peer[c].of>>)
      BY <3>1, <3>2, <3>3, <3>4
    <3> QED BY <3>5
  <2>3. Abstract!Contact
    BY <1>s, <2>1, <2>2 DEF Abstract!Contact, Abstract!Pairs, Pairs
  <2> QED BY <1>2, <2>3 DEF AbsStep, Abstract!AbsNext
<1> QED BY <1>1, <1>3, <1>4

(* Datagrams that say that c has an address.                               *)
Confirms(c, ps) ==
  \A p \in ps : /\ p.src = c
                /\ p.op \notin {"S_IP", "RESP_M_IP", "CON_ESTAB"}
                /\ p.op = "GET_REQ" /\ p.arg = "0x08" => c \in Masters
                /\ p.op = "POL_SENT" => c \in Slaves

(* A client is sent an address: the master's S_IP is for the host only,    *)
(* the slave's RESP_M_IP is about it.                                      *)
LEMMA LearnStep ==
  ASSUME SessionInv, SessionInv', RendezvousInv, UNCHANGED serverVars, UNCHANGED mode,
         NEW c \in Clients, cpc[c] \notin Late, NEW pc \in PC \ {"off"}, NEW buf, Goto(c, pc, buf),
         NEW p \in Inbox(c), c \in Masters => p.op = "S_IP", c \in Slaves => p.op = "RESP_M_IP",
         peer' = [peer EXCEPT ![c] = p.at],
         NEW ps, Send(ps), Silent(ps), Confirms(c, ps)
  PROVE  RendezvousInv' /\ AbsStep
<1>s. UNCHANGED <<spc, nodes, polRuns, disturbed>> /\ Host' = Host
  BY DEF serverVars, Host
<1>t. p \in msgs /\ Told(p) /\ Caused(p) /\ p.dst = c
  BY DEF Inbox, RendezvousInv, SessionInv
<1>c. c \in Masters \/ (c \in Slaves /\ c \notin Masters)
  BY NetAssumption DEF Clients
<1>1. /\ cpc'[c] = pc /\ peer'[c] = p.at
      /\ \A d \in Clients : d # c => cpc'[d] = cpc[d] /\ peer'[d] = peer[d]
  BY DEF Goto, SessionInv, TypeOK, ClientTypeOK
<1>2. p.at # NoAddr /\ nodes # <<>>
  BY <1>t, <1>c DEF Told, Caused, AddressOf, NoAddr, Unset
<1>3. PeerRight(c)'
  BY <1>s, <1>t, <1>c, <1>1, <1>2 DEF Told, PeerRight
<1>4. At(c)'
  <2>1. At(c) /\ mode[c] \in {"FAIL", "P2P", "TURN"} /\ mode'[c] = mode[c]
    BY DEF RendezvousInv, SessionInv, TypeOK, ClientTypeOK
  <2> QED BY <1>1, <1>2, <2>1 DEF At
<1>5. RendezvousInv'
  BY <1>1, <1>2, <1>3, <1>4, ClientTells DEF Confirms
<1>6. RoundTrips' = RoundTrips
  BY SilentStays
<1>7. AbsStep
  <2>1. CASE c \in Masters
    <3>1. (\E m \in Masters : peer'[m] # NoAddr) = TRUE
      BY <1>1, <1>2, <2>1
    <3>2. Host # None
      BY <1>2, HostIsMaster, NetAssumption DEF Clients
    <3>3. Abstract!Introduce
      BY <1>s, <1>6, <3>1, <3>2 DEF Abstract!Introduce
    <3> QED BY <3>3 DEF AbsStep, Abstract!AbsNext
  <2>2. CASE c \in Slaves /\ c \notin Masters
    <3>1. \A m \in Masters : peer'[m] = peer[m]
      BY <1>1, <2>2 DEF Clients
    <3> QED BY <1>s, <1>6, <3>1, Stutters
  <2> QED BY <1>c, <2>1, <2>2
<1> QED BY <1>5, <1>7

-----------------------------------------------------------------------------
(* The master's steps.                                                     *)
LEMMA MasterRight ==
  ASSUME SessionInv, SessionInv', RendezvousInv, NEW m \in Masters, MasterNext(m),
         UNCHANGED serverVars
  PROVE  RendezvousInv' /\ AbsStep
<1>c. m \in Clients /\ m \notin Slaves
  BY NetAssumption DEF Clients
<1>a. At(m)
  BY <1>c DEF RendezvousInv
<1>1. CASE StartMaster(m)
  <2>1. Plain(m, ToServer(m, "V_UAP", "0x00"))
    BY PlainPackets
  <2>2. PICK b \in Stack : Goto(m, "verify", b)
    BY <1>1 DEF StartMaster
  <2> QED BY <1>1, <1>c, <2>1, <2>2, EarlyStep DEF StartMaster, Late, PC
<1>2. CASE VerifyMaster(m)
  <2>1. PICK b \in Received(m) :
          \/ Goto(m, "clean waitip", Blank) /\ UNCHANGED msgs
          \/ Retry(m, b) /\ Send(ToServer(m, "V_UAP", "0x00"))
          \/ Goto(m, "failed", Blank) /\ UNCHANGED msgs
    BY <1>2 DEF VerifyMaster
  <2>2. Plain(m, ToServer(m, "V_UAP", "0x00")) /\ Plain(m, {})
    BY PlainPackets DEF Plain
  <2>3. cpc[m] = "verify" /\ UNCHANGED <<peer, mode>>
    BY <1>2 DEF VerifyMaster
  <2>4. PcRight(m, "clean waitip") /\ "clean waitip" \in PC \ {"off"}
    BY <1>c, <2>3 DEF PcRight, Late, PC, Cleaning
  <2> QED BY <1>c, <2>1, <2>2, <2>3, <2>4, SendNothing, LoopStep
<1>3. CASE KeepAlive(m)
  <2>1. Plain(m, ToServer(m, "KEEP_CON", "0x01"))
    BY PlainPackets
  <2>2. UNCHANGED <<cpc, peer, mode>> /\ Send(ToServer(m, "KEEP_CON", "0x01"))
    BY <1>3 DEF KeepAlive, clientVars
  <2>3. cpc[m] \in PC \ {"off"} /\ Moves(m, cpc[m]) /\ PcRight(m, cpc[m])
    BY <1>3, <1>c, <1>a, <2>2 DEF KeepAlive, PC, Cleaning, Moves, PcRight, At
  <2> QED BY <1>c, <2>1, <2>2, <2>3, PlainStep
<1>4. CASE WaitSlaveIP(m)
  <2>1. /\ cpc[m] = "waitip" /\ Goto(m, "clean wait", Blank) /\ UNCHANGED mode
        /\ Send(ToServer(m, "GET_REQ", "0x08"))
    BY <1>4 DEF WaitSlaveIP
  <2>2. PICK p \in Inbox(m) : p.op = "S_IP" /\ peer' = [peer EXCEPT ![m] = p.at]
    BY <1>4 DEF WaitSlaveIP
  <2>3. \A q \in ToServer(m, "GET_REQ", "0x08") :
          q.src = m /\ q.op = "GET_REQ" /\ q.arg = "0x08"
    BY DEF ToServer, Packet
  <2>4. /\ Silent(ToServer(m, "GET_REQ", "0x08"))
        /\ Confirms(m, ToServer(m, "GET_REQ", "0x08"))
    BY <2>3 DEF Silent, Confirms
  <2>5. "waitip" \notin Late /\ "clean wait" \in PC \ {"off"}
    BY DEF Late, PC, Cleaning
  <2> QED BY <1>c, <2>1, <2>2, <2>4, <2>5, LearnStep
<1>5. CASE ConfirmSlaveIP(m)
  <2>1. /\ cpc[m] = "wait" /\ UNCHANGED <<cpc, peer, mode>>
        /\ Send(ToServer(m, "GET_REQ", "0x08"))
    BY <1>5 DEF ConfirmSlaveIP, clientVars
  <2>2. \A q \in ToServer(m, "GET_REQ", "0x08") :
          q.src = m /\ q.op = "GET_REQ" /\ q.arg = "0x08"
    BY DEF ToServer, Packet
  <2>3. Silent(ToServer(m, "GET_REQ", "0x08"))
    BY <2>2 DEF Silent
  <2>4. Moves(m, "wait") /\ PcRight(m, "wait") /\ "wait" \in PC \ {"off"} /\ peer[m] # NoAddr
    BY <1>c, <1>a, <2>1 DEF Moves, PcRight, At, Late, PC
  <2> QED BY <1>c, <2>1, <2>2, <2>3, <2>4, QuietStep
<1>6. CASE MasterAnswersProbe(m)
  BY <1>c, <1>6, AnswerRight DEF MasterAnswersProbe
<1>7. CASE MasterBeginsProbe(m)
  <2>1. /\ cpc[m] = "wait" /\ Goto(m, "probe", Blank) /\ UNCHANGED <<peer, mode>>
        /\ Send(ToServer(m, "GET_REQ", "0x12") \cup ToPeer(m, peer[m], "POL_REQ", "0x00"))
    BY <1>7 DEF MasterBeginsProbe, BeginProbe
  <2>2. /\ Plain(m, ToServer(m, "GET_REQ", "0x12"))
        /\ Plain(m, ToPeer(m, peer[m], "POL_REQ", "0x00"))
    BY PlainPackets
  <2>3. Plain(m, ToServer(m, "GET_REQ", "0x12") \cup ToPeer(m, peer[m], "POL_REQ", "0x00"))
    BY <2>2, PlainUnion
  <2>4. Moves(m, "probe") /\ PcRight(m, "probe") /\ "probe" \in PC \ {"off"}
    BY <1>c, <1>a, <2>1 DEF Moves, Goto, PcRight, At, Late, PC
  <2> QED BY <1>c, <2>1, <2>3, <2>4, PlainStep
<1>8. CASE MasterProbes(m)
  BY <1>c, <1>8, ProbeRight DEF MasterProbes
<1>9. CASE MasterVerdict(m)
  BY <1>c, <1>9, VerdictRight DEF MasterVerdict
<1>10. CASE MasterTurn(m)
  BY <1>c, <1>10, TurnRight DEF MasterTurn
<1>11. CASE MasterCmd(m)
  BY <1>c, <1>11, CmdRight DEF MasterCmd
<1>12. CASE CloseMaster(m)
  <2>1. PICK b \in Stack : Goto(m, "clean closing", b)
    BY <1>12 DEF CloseMaster
  <2>2. UNCHANGED <<peer, mode>> /\ Send({}) /\ Plain(m, {})
    BY <1>12, SendNothing DEF CloseMaster, Plain
  <2>3. Moves(m, "clean closing") /\ PcRight(m, "clean closing") /\ "clean closing" \in PC \ {"off"}
    BY <1>c, <2>1 DEF Moves, Goto, PcRight, Late, PC, Cleaning
  <2> QED BY <1>c, <2>2, <2>3, PlainStep
<1>13. CASE AwaitQuit(m)
  <2>1. PICK b \in Received(m) :
          \/ Goto(m, "closed", Blank) /\ UNCHANGED msgs
          \/ Retry(m, b) /\ Send(ToServer(m, "MASTER_QUIT", "0x00"))
          \/ Goto(m, "failed", Blank) /\ UNCHANGED msgs
    BY <1>13 DEF AwaitQuit
  <2>2. Plain(m, ToServer(m, "MASTER_QUIT", "0x00")) /\ Plain(m, {})
    BY PlainPackets DEF Plain
  <2>3. cpc[m] = "closing" /\ UNCHANGED <<peer, mode>>
    BY <1>13 DEF AwaitQuit
  <2>4. PcRight(m, "closed") /\ "closed" \in PC \ {"off"}
    BY <1>c, <2>3 DEF PcRight, Late, PC
  <2> QED BY <1>c, <2>1, <2>2, <2>3, <2>4, SendNothing, LoopStep
<1>14. CASE MasterCleans(m)
  <2>1. /\ Plain(m, ToServer(m, "CMD_CHAN", "M")) /\ Plain(m, ToServer(m, "MASTER_QUIT", "0x00"))
        /\ Plain(m, {})
    BY PlainPackets DEF Plain
  <2>2. PICK before \in Cleaning, after \in {"waitip", "wait", "cmd", "closing"},
             ps \in {{}, ToServer(m, "CMD_CHAN", "M"), ToServer(m, "MASTER_QUIT", "0x00")} :
          /\ CleanRecBuff(m, before, after, ps)
          /\ after = "wait" => before = "clean wait"
          /\ before \in Late => after \in Late
    BY <1>14 DEF MasterCleans, Cleaning, Late
  <2>3. PcRight(m, after) /\ after \in PC \ {"off"}
    BY <1>c, <1>a, <2>2 DEF CleanRecBuff, PcRight, At, PC
  <2> QED BY <1>c, <2>1, <2>2, <2>3, CleanRight
<1> QED BY <1>1, <1>2, <1>3, <1>4, <1>5, <1>6, <1>7, <1>8, <1>9, <1>10, <1>11,
           <1>12, <1>13, <1>14 DEF MasterNext, MasterStep

-----------------------------------------------------------------------------
(* The slave's two loops that repeat a request, and all of its steps.      *)
LEMMA AskAgainRight ==
  ASSUME SessionInv, SessionInv', RendezvousInv, NEW c \in Clients, UNCHANGED serverVars,
         cpc[c] # "off", NEW ps, Plain(c, ps), AskAgain(c, ps)
  PROVE  RendezvousInv' /\ AbsStep
<1>1. /\ UNCHANGED <<peer, mode>>
      /\ \/ Retry(c, Blank) /\ Send(ps)
         \/ Goto(c, "failed", Blank) /\ UNCHANGED msgs
  BY DEF AskAgain
<1>2. PcRight(c, "failed") /\ "failed" \in PC \ {"off"}
  BY DEF PcRight, Late, PC
<1> QED BY <1>1, <1>2, LoopStep

LEMMA SlaveRight ==
  ASSUME SessionInv, SessionInv', RendezvousInv, NEW s \in Slaves, SlaveNext(s),
         UNCHANGED serverVars
  PROVE  RendezvousInv' /\ AbsStep
<1>c. s \in Clients /\ s \notin Masters
  BY NetAssumption DEF Clients
<1>a. At(s)
  BY <1>c DEF RendezvousInv
<1>1. CASE StartSlave(s)
  <2>1. Plain(s, ToServer(s, "V_UAP_S", "0x00"))
    BY PlainPackets
  <2>2. PICK b \in Stack : Goto(s, "verify", b)
    BY <1>1 DEF StartSlave
  <2> QED BY <1>1, <1>c, <2>1, <2>2, EarlyStep DEF StartSlave, Late, PC
<1>2. CASE VerifySlave(s)
  <2>1. PICK b \in Received(s) :
          \/ Goto(s, "clean reqip", Blank) /\ UNCHANGED msgs
          \/ Retry(s, b) /\ Send(ToServer(s, "V_UAP_S", "0x00"))
          \/ Goto(s, "failed", Blank) /\ UNCHANGED msgs
    BY <1>2 DEF VerifySlave
  <2>2. Plain(s, ToServer(s, "V_UAP_S", "0x00")) /\ Plain(s, {})
    BY PlainPackets DEF Plain
  <2>3. cpc[s] = "verify" /\ UNCHANGED <<peer, mode>>
    BY <1>2 DEF VerifySlave
  <2>4. PcRight(s, "clean reqip") /\ "clean reqip" \in PC \ {"off"}
    BY <1>c, <2>3 DEF PcRight, Late, PC, Cleaning
  <2> QED BY <1>c, <2>1, <2>2, <2>3, <2>4, SendNothing, LoopStep
<1>3. CASE RequestMasterIP(s)
  <2>i. cpc[s] = "reqip"
    BY <1>3 DEF RequestMasterIP
  <2>1. CASE AskAgain(s, ToServer(s, "REQ_M_IP", "0x00"))
    <3>1. Plain(s, ToServer(s, "REQ_M_IP", "0x00"))
      BY PlainPackets
    <3> QED BY <1>c, <2>i, <2>1, <3>1, AskAgainRight
  <2>2. CASE ~AskAgain(s, ToServer(s, "REQ_M_IP", "0x00"))
    <3>1. PICK p \in Inbox(s) :
            /\ p.op = "RESP_M_IP"
            /\ peer' = [peer EXCEPT ![s] = p.at]
            /\ Goto(s, "clean hole", Blank)
            /\ UNCHANGED <<msgs, mode>>
      BY <1>3, <2>2 DEF RequestMasterIP
    <3>2. Send({}) /\ Silent({}) /\ Confirms(s, {})
      BY <3>1, SendNothing DEF Silent, Confirms
    <3>3. "reqip" \notin Late /\ "clean hole" \in PC \ {"off"}
      BY DEF Late, PC, Cleaning
    <3> QED BY <1>c, <2>i, <3>1, <3>2, <3>3, LearnStep
  <2> QED BY <2>1, <2>2
<1>4. CASE SendPolSent(s)
  <2>1. cpc[s] = "polsent" /\ peer[s] # NoAddr
    BY <1>4, <1>a DEF SendPolSent, At
  <2>2. \A q \in ToServer(s, "POL_SENT", "0x00") : q.src = s /\ q.op = "POL_SENT"
    BY DEF ToServer, Packet
  <2>3. Silent(ToServer(s, "POL_SENT", "0x00"))
    BY <2>2 DEF Silent
  <2>4. CASE Retry(s, Blank) /\ Send(ToServer(s, "POL_SENT", "0x00"))
    <3>1. Moves(s, "polsent") /\ PcRight(s, "polsent") /\ "polsent" \in PC \ {"off"}
      BY <1>c, <2>1, <2>4 DEF Moves, Retry, PcRight, Late, PC
    <3>2. UNCHANGED <<peer, mode>>
      BY <1>4 DEF SendPolSent, AskAgain
    <3> QED BY <1>c, <2>1, <2>2, <2>3, <2>4, <3>1, <3>2, QuietStep
  <2>5. CASE (Goto(s, "wait", Blank) \/ Goto(s, "failed", Blank)) /\ UNCHANGED msgs
    <3>1. UNCHANGED <<peer, mode>>
      BY <1>4 DEF SendPolSent, AskAgain
    <3>2. Plain(s, {}) /\ Send({})
      BY <2>5, SendNothing DEF Plain
    <3> QED BY <1>c, <2>1, <2>5, <3>1, <3>2, EarlyStep DEF Late, PC
  <2> QED BY <1>4, <2>4, <2>5 DEF SendPolSent, AskAgain
<1>5. CASE SlaveAnswersProbe(s)
  BY <1>c, <1>5, AnswerRight DEF SlaveAnswersProbe
<1>6. CASE SlaveBeginsProbe(s)
  <2>1. Plain(s, ToPeer(s, peer[s], "POL_REQ", "0x00"))
    BY PlainPackets
  <2> QED BY <1>c, <1>6, <2>1, EarlyStep DEF SlaveBeginsProbe, BeginProbe, Late, PC
<1>7. CASE SlaveProbes(s)
  BY <1>c, <1>7, ProbeRight DEF SlaveProbes
<1>8. CASE SlaveVerdict(s)
  BY <1>c, <1>8, VerdictRight DEF SlaveVerdict
<1>9. CASE SlaveTurn(s)
  BY <1>c, <1>9, TurnRight DEF SlaveTurn
<1>10. CASE SlaveCmd(s)
  BY <1>c, <1>10, CmdRight DEF SlaveCmd
<1>11. CASE CloseSlave(s)
  <2>1. Goto(s, "closed", Blank) /\ UNCHANGED <<msgs, peer, mode>> /\ cpc[s] = "up"
    BY <1>11 DEF CloseSlave
  <2>2. Moves(s, "closed") /\ PcRight(s, "closed") /\ "closed" \in PC \ {"off"}
        /\ Plain(s, {}) /\ Send({})
    BY <1>c, <2>1, SendNothing DEF Moves, Goto, PcRight, Late, PC, Plain
  <2> QED BY <1>c, <2>1, <2>2, PlainStep
<1>12. CASE SlaveCleans(s)
  <2>1. CASE CleanRecBuff(s, "clean polsent", "polsent", ToServer(s, "POL_SENT", "0x00"))
    <3>1. /\ cpc[s] = "clean polsent" /\ UNCHANGED <<peer, mode>> /\ peer[s] # NoAddr
          /\ Send(ToServer(s, "POL_SENT", "0x00")) /\ Goto(s, "polsent", ctl[s])
      BY <1>c, <1>a, <2>1 DEF CleanRecBuff, At
    <3>2. \A q \in ToServer(s, "POL_SENT", "0x00") : q.src = s /\ q.op = "POL_SENT"
      BY DEF ToServer, Packet
    <3>3. Silent(ToServer(s, "POL_SENT", "0x00"))
      BY <3>2 DEF Silent
    <3>4. Moves(s, "polsent") /\ PcRight(s, "polsent") /\ "polsent" \in PC \ {"off"}
      BY <1>c, <3>1 DEF Moves, Goto, PcRight, Late, PC
    <3> QED BY <1>c, <3>1, <3>2, <3>3, <3>4, QuietStep
  <2>2. CASE ~CleanRecBuff(s, "clean polsent", "polsent", ToServer(s, "POL_SENT", "0x00"))
    <3>1. /\ Plain(s, ToServer(s, "CMD_CHAN", "S")) /\ Plain(s, ToServer(s, "REQ_M_IP", "0x00"))
          /\ Plain(s, ToPeer(s, peer[s], "POL_REQ", "0x00"))
      BY PlainPackets
    <3>2. PICK before \in Cleaning, after \in {"reqip", "clean polsent", "cmd"},
               ps \in {ToServer(s, "CMD_CHAN", "S"), ToServer(s, "REQ_M_IP", "0x00"),
                       ToPeer(s, peer[s], "POL_REQ", "0x00")} :
            /\ CleanRecBuff(s, before, after, ps)
            /\ after = "clean polsent" => before = "clean hole"
            /\ before \in Late => after \in Late
      BY <1>12, <2>2 DEF SlaveCleans, Cleaning, Late
    <3>3. PcRight(s, after) /\ after \in PC \ {"off"}
      BY <1>c, <1>a, <3>2 DEF CleanRecBuff, PcRight, At, PC, Cleaning
    <3> QED BY <1>c, <3>1, <3>2, <3>3, CleanRight
  <2> QED BY <2>1, <2>2
<1> QED BY <1>1, <1>2, <1>3, <1>4, <1>5, <1>6, <1>7, <1>8, <1>9, <1>10, <1>11, <1>12
    DEF SlaveNext, SlaveStep

-----------------------------------------------------------------------------
(* The server.                                                             *)

(* While it connects, or has a verdict, the master has been introduced.    *)
Triggered ==
  \/ spc \in Connecting
  \/ Confirmed
  \/ \E p \in msgs : p.op = "CON_ESTAB"

(* The first registered master stays, so that what was told of it stays    *)
(* true.                                                                   *)
LEMMA ServerTells ==
  ASSUME SessionInv, SessionInv', RendezvousInv, UNCHANGED clientVars,
         NEW ps, Send(ps), \A p \in ps : Told(p)',
         nodes # <<>> => nodes' # <<>> /\ Host' = Host,
         disturbed => disturbed',
         polRuns > 0 => polRuns' > 0,
         ListInv', AttemptInv', CrashOnlyAfterQuit',
         disturbed' \/ (Triggered' => Triggered \/ Introduced)
  PROVE  RendezvousInv'
<1>s. UNCHANGED <<cpc, peer, mode>>
  BY DEF clientVars
<1>m. msgs' = msgs \cup ps
  BY DEF Send
<1>c. Masters \subseteq Clients /\ Slaves \subseteq Clients /\ None \notin Clients
  BY NetAssumption DEF Clients
<1>1. ASSUME NEW p \in msgs' PROVE Told(p)'
  <2>1. CASE p \in msgs
    <3>1. Told(p)
      BY <2>1 DEF RendezvousInv
    <3> QED BY <1>s, <3>1 DEF Told
  <2> QED BY <1>m, <2>1
<1>2. ASSUME NEW d \in Clients PROVE At(d)' /\ PeerRight(d)'
  <2>1. At(d) /\ PeerRight(d) /\ \A p \in Verdicts : p \in Verdicts'
    BY <1>m DEF RendezvousInv, Verdicts
  <2>2. At(d)'
    BY <1>s, <2>1 DEF At
  <2>3. PeerRight(d)'
    BY <1>s, <2>1 DEF PeerRight
  <2> QED BY <2>2, <2>3
<1>3. MasterIntroduced'
  <2>1. Triggered => disturbed \/ Introduced
    BY DEF RendezvousInv, MasterIntroduced, Triggered, Confirmed, Introduced
  <2>2. Introduced => nodes # <<>>
    BY <1>c DEF Introduced, Host
  <2>3. Introduced => Introduced'
    BY <1>s, <2>2 DEF Introduced
  <2> QED BY <2>1, <2>3 DEF MasterIntroduced, Triggered, Confirmed, Introduced
<1> QED BY <1>1, <1>2, <1>3 DEF RendezvousInv

(* Nothing the server sends in plain tells anything.                       *)
LEMMA PlainTold ==
  ASSUME NEW ps, Plain(Server, ps)
  PROVE  \A p \in ps : Told(p)'
BY NetAssumption DEF Plain, Told

(* A plain datagram adds no verdict.                                       *)
LEMMA PlainVerdicts ==
  ASSUME NEW ps, Plain(Server, ps), Send(ps)
  PROVE  Verdicts' = Verdicts
BY DEF Plain, Verdicts, Send

(* An excuse stays one.                                                    *)
LEMMA ExcuseStays ==
  ASSUME NEW ps, Send(ps), UNCHANGED clientVars, disturbed => disturbed', Excused
  PROVE  Excused'
BY DEF Excused, Send, clientVars

(* A name other than the server's comes from a client that has started.    *)
LEMMA NameExcused ==
  ASSUME RendezvousInv, NEW p \in msgs, UName(p.src) # "UNAME"
  PROVE  Excused
<1>1. p.src \in BadCred /\ Told(p) /\ BadCred \subseteq Clients
  BY ServerAssumption DEF UName, RendezvousInv
<1> QED BY <1>1 DEF Told, Excused

(* What a lookup does to disturbed.                                        *)
LEMMA LookupDisturbs ==
  ASSUME NEW i, NEW is, LooksUp(i, is)
  PROVE  (disturbed => disturbed') /\ (is # {i} => disturbed')
BY DEF LooksUp

(* A list that is left alone tells the same.                               *)
LEMMA ListRests ==
  ASSUME RendezvousInv, UNCHANGED <<nodes, clientVars>>, disturbed => disturbed',
         spc' # "sip" \/ UNCHANGED <<spc, tmpn>>
  PROVE  ListInv' /\ Host' = Host /\ Confirmed' = Confirmed
<1>1. UNCHANGED peer
  BY DEF clientVars
<1>2. Confirmed' = Confirmed /\ Host' = Host
  BY DEF Confirmed, Host
<1>3. ListInv
  BY DEF RendezvousInv
<1> QED BY <1>1, <1>2, <1>3 DEF ListInv

(* An entry changes, but for the master it is of.                          *)
LEMMA EntryChanges ==
  ASSUME SessionInv, NEW i \in 1 .. Len(nodes), NEW e \in NodeType, e.m = nodes[i].m,
         nodes' = [nodes EXCEPT ![i] = e]
  PROVE  /\ nodes # <<>> /\ nodes' # <<>> /\ Host' = Host /\ Len(nodes') = Len(nodes)
         /\ \A j \in 1 .. Len(nodes) : nodes'[j] = IF j = i THEN e ELSE nodes[j]
<1>1. nodes \in Seq(NodeType) /\ Len(nodes) \in Nat
  BY ServerFacts
<1>2. /\ nodes' \in Seq(NodeType) /\ Len(nodes') = Len(nodes)
      /\ \A j \in 1 .. Len(nodes) : nodes'[j] = IF j = i THEN e ELSE nodes[j]
  BY <1>1, ExceptSeq
<1>3. 1 \in 1 .. Len(nodes) /\ Len(nodes) # 0
  BY <1>1
<1>4. nodes # <<>> /\ nodes' # <<>>
  BY <1>2, <1>3, EmptySeq
<1>5. Host' = Host
  BY <1>2, <1>3, <1>4 DEF Host
<1> QED BY <1>2, <1>4, <1>5

(* An empty list has no entries, another has.                              *)
LEMMA ListLength ==
  ASSUME SessionInv
  PROVE  Len(nodes) \in Nat /\ (nodes = <<>> <=> Len(nodes) = 0)
<1>1. nodes \in Seq(NodeType) /\ Len(nodes) \in Nat
  BY ServerFacts
<1> QED BY <1>1, EmptySeq

(* A handler that begins no attempt and registers no first master.         *)
LEMMA AnswerStep ==
  ASSUME SessionInv, SessionInv', RendezvousInv, UNCHANGED clientVars,
         spc = "main", spc' \in {"main", "sip", "exited"}, UNCHANGED polRuns,
         nodes = <<>> <=> nodes' = <<>>, Host' = Host, ListInv',
         disturbed => disturbed', spc' = "exited" => disturbed',
         disturbed' \/ (Confirmed' => Confirmed \/ Introduced),
         uname' = uname \/ uname' = "UNAME" \/ Excused,
         NEW ps, Send(ps), Silent(ps),
         \A p \in ps : Told(p)' /\ p.op # "CON_ESTAB"
  PROVE  RendezvousInv' /\ AbsStep
<1>1. UNCHANGED <<cpc, peer, mode>> /\ msgs' = msgs \cup ps
  BY DEF clientVars, Send
<1>v. Verdicts' = Verdicts
  BY <1>1 DEF Verdicts
<1>2. AttemptInv'
  <2>1. Excused => Excused'
    BY ExcuseStays
  <2>2. spc' \notin Connecting
    BY DEF Connecting
  <2> QED BY <1>v, <2>1, <2>2 DEF RendezvousInv, AttemptInv, Connecting
<1>3. CrashOnlyAfterQuit'
  BY DEF CrashOnlyAfterQuit
<1>4. disturbed' \/ (Triggered' => Triggered \/ Introduced)
  BY <1>1 DEF Triggered, Connecting
<1>5. RendezvousInv'
  BY <1>2, <1>3, <1>4, ServerTells
<1>6. AbsStep
  BY <1>1, SilentStays, Stutters
<1> QED BY <1>5, <1>6

-----------------------------------------------------------------------------
(* The handlers: a login makes a host, POL_SENT begins an attempt.         *)

(* What a handler knows of its datagram.                                   *)
LEMMA Dispatched ==
  ASSUME SessionInv, RendezvousInv, NEW p \in Inbox(Server)
  PROVE  /\ p \in msgs /\ Told(p) /\ Caused(p)
         /\ UName(p.src) \in {"UNAME", "other"} /\ (UName(p.src) = "UNAME" \/ Excused)
         /\ \A arg : /\ arg \notin {"0x08", "0x0a"} => Plain(Server, Answer(p, "GET_REQ", arg))
                     /\ Plain(Server, Answer(p, "V_RESP", arg))
<1>1. p \in msgs
  BY DEF Inbox
<1>2. Told(p) /\ Caused(p)
  BY <1>1 DEF RendezvousInv, SessionInv
<1>3. UName(p.src) \in {"UNAME", "other"} /\ (UName(p.src) = "UNAME" \/ Excused)
  BY <1>1, NameExcused DEF UName
<1>4. \A arg : /\ arg \notin {"0x08", "0x0a"} => Plain(Server, Answer(p, "GET_REQ", arg))
               /\ Plain(Server, Answer(p, "V_RESP", arg))
  BY PlainPackets DEF Answer
<1> QED BY <1>1, <1>2, <1>3, <1>4

(* A handler that leaves the list alone and answers in plain.              *)
LEMMA QuietAnswer ==
  ASSUME SessionInv, SessionInv', RendezvousInv, UNCHANGED clientVars,
         spc = "main", spc' \in {"main", "exited"}, UNCHANGED <<nodes, polRuns>>,
         disturbed => disturbed', spc' = "exited" => disturbed',
         uname' = uname \/ uname' = "UNAME" \/ Excused,
         NEW ps, Send(ps), Plain(Server, ps)
  PROVE  RendezvousInv' /\ AbsStep
<1>1. ListInv' /\ Host' = Host /\ Confirmed' = Confirmed
  BY ListRests
<1> QED BY <1>1, PlainTold, PlainSilent, AnswerStep

(* V_UAP.                                                                  *)
LEMMA MasterLoginRight ==
  ASSUME SessionInv, SessionInv', RendezvousInv, NEW p \in Inbox(Server), UNCHANGED clientVars,
         MasterLogin(p)
  PROVE  RendezvousInv' /\ AbsStep
<1>1. PICK arg \in {"0x01", "0x02", "0x03"} : Send(Answer(p, "V_RESP", arg))
  BY DEF MasterLogin
<1>2. UNCHANGED <<spc, tmpn, poleRes, polRuns>> /\ uname' = UName(p.src) /\ spc = "main"
  BY DEF MasterLogin, AtMain
<1>d. disturbed => disturbed'
  BY LookupDisturbs DEF MasterLogin
<1>p. Plain(Server, Answer(p, "V_RESP", arg))
  BY Dispatched
<1>3. CASE nodes' = nodes
  BY <1>1, <1>2, <1>3, <1>d, <1>p, Dispatched, QuietAnswer
<1>4. CASE nodes' # nodes
  <2>1. /\ nodes' = Append(nodes, Entry(p.src)) /\ LooksUp(FindPeer("UNAME"), {0})
        /\ uname' = "UNAME"
    BY <1>2, <1>4 DEF MasterLogin, UName
  <2>2. /\ p.src \in Masters /\ Entry(p.src) \in NodeType
        /\ Entry(p.src).m = p.src /\ Entry(p.src).status = "INIT_P"
    BY Dispatched DEF MasterLogin, AtMain, Caused, Entry, NodeType
  <2>3. /\ Len(nodes') = Len(nodes) + 1
        /\ \A j \in 1 .. Len(nodes) : nodes'[j] = nodes[j]
        /\ nodes'[Len(nodes) + 1] = Entry(p.src)
    <3>1. nodes \in Seq(NodeType)
      BY ServerFacts
    <3> QED BY <2>1, <2>2, <3>1, AppendProperties
  <2>l. Len(nodes) \in Nat /\ (nodes = <<>> <=> Len(nodes) = 0)
    BY ListLength
  <2>4. nodes' # <<>>
    <3>1. nodes \in Seq(NodeType)
      BY ServerFacts
    <3> QED BY <2>1, <2>2, <3>1, AppendProperties
  <2>5. Confirmed' => Confirmed
    <3> SUFFICES ASSUME NEW j \in 1 .. Len(nodes'), nodes'[j].status = "M_GET_SLAVE_IP"
                 PROVE  Confirmed
      BY DEF Confirmed
    <3>1. j \in 1 .. Len(nodes) \/ j = Len(nodes) + 1
      BY <2>3, <2>l
    <3> QED BY <2>2, <2>3, <3>1 DEF Confirmed
  <2>6. nodes # <<>> => disturbed'
    BY <2>1, <2>l, LookupDisturbs DEF FindPeer
  <2>7. ListInv'
    <3>1. ListInv /\ UNCHANGED peer
      BY DEF RendezvousInv, clientVars
    <3>2. disturbed' \/ Len(nodes') <= 1
      BY <2>3, <2>6, <2>l
    <3> QED BY <1>2, <2>5, <3>1, <3>2 DEF ListInv
  <2>8. CASE nodes # <<>>
    <3>1. Host' = Host
      <4>1. 1 \in 1 .. Len(nodes)
        BY <2>8, <2>l
      <4> QED BY <2>3, <2>4, <2>8, <4>1 DEF Host
    <3> QED BY <1>1, <1>2, <1>d, <1>p, <2>1, <2>4, <2>5, <2>7, <2>8, <3>1,
               PlainTold, PlainSilent, AnswerStep
  <2>9. CASE nodes = <<>>
    <3>1. Host = None /\ Host' = p.src
      BY <2>2, <2>3, <2>4, <2>9, <2>l DEF Host
    <3>2. Verdicts' = Verdicts /\ RoundTrips' = RoundTrips
      BY <1>1, <1>p, PlainVerdicts, PlainSilent, SilentStays
    <3>3. AttemptInv'
      BY <1>2, <2>1, <3>2 DEF RendezvousInv, AttemptInv
    <3>4. Triggered' => Triggered
      BY <1>2, <2>5, <3>2 DEF Triggered, Verdicts
    <3>5. RendezvousInv'
      <4>1. \A q \in Answer(p, "V_RESP", arg) : Told(q)'
        BY <1>p, PlainTold
      <4>2. CrashOnlyAfterQuit'
        BY <1>2 DEF CrashOnlyAfterQuit
      <4> QED BY <1>1, <1>2, <1>d, <2>7, <2>9, <3>3, <3>4, <4>1, <4>2, ServerTells
    <3>6. Abstract!Register
      <4>1. UNCHANGED <<peer, mode, polRuns>>
        BY <1>2 DEF clientVars
      <4> QED BY <2>2, <3>1, <3>2, <4>1 DEF Abstract!Register
    <3> QED BY <3>5, <3>6 DEF AbsStep, Abstract!AbsNext
  <2> QED BY <2>8, <2>9
<1> QED BY <1>3, <1>4

(* What Send_S_IP writes, about an entry that has a slave unless a lookup  *)
(* went wrong.                                                             *)
LEMMA SlaveIPTold ==
  ASSUME SessionInv', nodes' # <<>>, NEW i \in 1 .. Len(nodes'),
         disturbed' \/ (Len(nodes') <= 1 /\ nodes'[i].s # None)
  PROVE  \A q \in SlaveIP(nodes'[i]) : Told(q)' /\ q.op \notin {"CON_ESTAB", "GET_REQ"}
<1>1. nodes'[i] \in NodeType /\ Len(nodes') \in Nat
  <2>1. nodes' \in Seq(NodeType)
    BY DEF SessionInv, TypeOK, ServerTypeOK, NodeType
  <2> QED BY <2>1, ElementOfSeq, LenProperties
<1>2. \A q \in SlaveIP(nodes'[i]) :
        /\ q.src = Server /\ q.op = "S_IP" /\ q.dst = nodes'[i].m
        /\ q.at.net = "local" => Site[q.dst] = Site[q.at.of]
        /\ nodes'[i].s # None => q.at.of = nodes'[i].s
  BY DEF SlaveIP, AddrPacket, AddressFor, Local, Public, Unset
<1>3. disturbed' \/ (nodes'[i].m = Host' /\ nodes'[i].s \in Slaves)
  <2>1. Len(nodes') <= 1 => i = 1
    BY <1>1
  <2> QED BY <1>1, <2>1 DEF Host, NodeType
<1> QED BY <1>2, <1>3, NetAssumption DEF Told

(* V_UAP_S.                                                                *)
LEMMA SlaveLoginRight ==
  ASSUME SessionInv, SessionInv', RendezvousInv, NEW p \in Inbox(Server), UNCHANGED clientVars,
         SlaveLogin(p)
  PROVE  RendezvousInv' /\ AbsStep
<1>1. UNCHANGED polRuns /\ uname' = UName(p.src) /\ spc = "main"
  BY DEF SlaveLogin, AtMain
<1>d. disturbed => disturbed'
  BY LookupDisturbs DEF SlaveLogin
<1>s. p.src \in Slaves /\ p.src # None
  BY Dispatched, NetAssumption DEF SlaveLogin, AtMain, Caused, Clients
<1>a. Plain(Server, Answer(p, "GET_REQ", "0x04")) /\ Plain(Server, Answer(p, "GET_REQ", "0x05"))
        /\ Plain(Server, Answer(p, "GET_REQ", "0x06"))
  BY Dispatched
<1>2. CASE UNCHANGED <<spc, nodes>> /\ (Send(Answer(p, "GET_REQ", "0x05"))
                                       \/ Send(Answer(p, "GET_REQ", "0x06")))
  BY <1>1, <1>2, <1>d, <1>a, Dispatched, QuietAnswer
<1>3. CASE /\ \E found \in 1 .. Len(nodes) : LooksUp(FindPeer(uname'), {found, 0})
           /\ spc' = "exited" /\ Send(Answer(p, "GET_REQ", "0x04")) /\ UNCHANGED nodes
  <2>1. disturbed'
    <3>1. PICK found \in 1 .. Len(nodes) : LooksUp(FindPeer(uname'), {found, 0})
      BY <1>3
    <3>2. found # 0
      OBVIOUS
    <3> QED BY <3>1, <3>2, LookupDisturbs
  <2> QED BY <1>1, <1>3, <1>d, <1>a, <2>1, Dispatched, QuietAnswer
<1>4. ASSUME NEW found \in 1 .. Len(nodes), NEW i \in 1 .. Len(nodes),
             nodes' = [nodes EXCEPT ![i].s = p.src],
             \/ Send(Answer(p, "GET_REQ", "0x04")) /\ UNCHANGED <<spc, tmpn>>
             \/ /\ tmpn' \in 1 .. Len(nodes) /\ spc' = "sip"
                /\ LooksUp(FindPeer(uname'), {found, i, tmpn'})
                /\ Send(Answer(p, "GET_REQ", "0x04") \cup SlaveIP(nodes'[tmpn']))
      PROVE  RendezvousInv' /\ AbsStep
  <2> DEFINE e == [nodes[i] EXCEPT !.s = p.src]
  <2>1. /\ e \in NodeType /\ e.m = nodes[i].m /\ e.s = p.src /\ e.status = nodes[i].status
        /\ nodes' = [nodes EXCEPT ![i] = e]
    BY <1>4, <1>s, ServerFacts DEF NodeType
  <2>2. /\ nodes # <<>> /\ nodes' # <<>> /\ Host' = Host /\ Len(nodes') = Len(nodes)
        /\ \A j \in 1 .. Len(nodes) : nodes'[j] = IF j = i THEN e ELSE nodes[j]
    <3> HIDE DEF e
    <3> QED BY <2>1, EntryChanges
  <2>3. Confirmed' => Confirmed
    BY <2>1, <2>2 DEF Confirmed
  <2>4. disturbed' \/ Len(nodes') <= 1
    BY <1>d, <2>2 DEF RendezvousInv, ListInv
  <2>5. spc' = "sip" => disturbed' \/ nodes'[tmpn'].s # None
    <3> SUFFICES ASSUME spc' = "sip" PROVE disturbed' \/ nodes'[tmpn'].s # None
      OBVIOUS
    <3>1. LooksUp(FindPeer(uname'), {found, i, tmpn'}) /\ tmpn' \in 1 .. Len(nodes)
      BY <1>1, <1>4
    <3>2. CASE tmpn' = i
      BY <1>s, <2>1, <2>2, <3>2
    <3>3. CASE tmpn' # i
      <4>1. {found, i, tmpn'} # {FindPeer(uname')}
        BY <3>3
      <4> QED BY <3>1, <4>1, LookupDisturbs
    <3> QED BY <3>2, <3>3
  <2>6. ListInv'
    <3>1. ListInv /\ UNCHANGED peer
      BY DEF RendezvousInv, clientVars
    <3> QED BY <2>3, <2>4, <2>5, <3>1 DEF ListInv
  <2>7. CASE Send(Answer(p, "GET_REQ", "0x04")) /\ UNCHANGED <<spc, tmpn>>
    BY <1>1, <1>d, <1>a, <2>2, <2>3, <2>6, <2>7, Dispatched, PlainTold, PlainSilent, AnswerStep
  <2>8. CASE /\ tmpn' \in 1 .. Len(nodes) /\ spc' = "sip"
             /\ Send(Answer(p, "GET_REQ", "0x04") \cup SlaveIP(nodes'[tmpn']))
    <3>1. \A q \in SlaveIP(nodes'[tmpn']) : Told(q)' /\ q.op \notin {"CON_ESTAB", "GET_REQ"}
      <4> DEFINE j == tmpn'
      <4>1. j \in 1 .. Len(nodes') /\ (disturbed' \/ (Len(nodes') <= 1 /\ nodes'[j].s # None))
        BY <2>2, <2>4, <2>5, <2>8
      <4> HIDE DEF j
      <4>2. \A q \in SlaveIP(nodes'[j]) : Told(q)' /\ q.op \notin {"CON_ESTAB", "GET_REQ"}
        BY <2>2, <4>1, SlaveIPTold
      <4> QED BY <4>2 DEF j
    <3>2. \A q \in Answer(p, "GET_REQ", "0x04") : Told(q)' /\ q.op # "CON_ESTAB"
      BY <1>a, PlainTold, PlainSilent
    <3>3. Silent(Answer(p, "GET_REQ", "0x04") \cup SlaveIP(nodes'[tmpn']))
      BY <1>a, <3>1, PlainSilent DEF Silent
    <3>4. \A q \in Answer(p, "GET_REQ", "0x04") \cup SlaveIP(nodes'[tmpn']) :
            Told(q)' /\ q.op # "CON_ESTAB"
      BY <3>1, <3>2
    <3>5. uname' = uname \/ uname' = "UNAME" \/ Excused
      BY <1>1, Dispatched
    <3> QED BY <1>1, <1>d, <2>2, <2>3, <2>6, <2>8, <3>3, <3>4, <3>5, AnswerStep
  <2> QED BY <1>4, <2>7, <2>8
<1> QED BY <1>2, <1>3, <1>4 DEF SlaveLogin

(* REQ_M_IP.                                                               *)
LEMMA ReqMasterIPRight ==
  ASSUME SessionInv, SessionInv', RendezvousInv, NEW p \in Inbox(Server), UNCHANGED clientVars,
         ReqMasterIP(p)
  PROVE  RendezvousInv' /\ AbsStep
<1>1. UNCHANGED <<spc, nodes, polRuns>> /\ uname' = UName(p.src) /\ spc = "main"
  BY DEF ReqMasterIP, AtMain
<1>d. disturbed => disturbed'
  BY LookupDisturbs DEF ReqMasterIP
<1>2. PICK i \in 0 .. Len(nodes) : Send(IF i = 0 THEN {} ELSE MasterIP(nodes[i]))
  <2>1. PICK found \in 0 .. Len(nodes), i \in 0 .. Len(nodes) :
          Send(IF found = 0 \/ i = 0 THEN {} ELSE MasterIP(nodes[i]))
    BY DEF ReqMasterIP
  <2>2. CASE found = 0
    <3>1. 0 \in 0 .. Len(nodes)
      BY ListLength
    <3> QED BY <2>1, <2>2, <3>1
  <2> QED BY <2>1, <2>2
<1> DEFINE ps == IF i = 0 THEN {} ELSE MasterIP(nodes[i])
<1>3. ListInv' /\ Host' = Host /\ Confirmed' = Confirmed
  BY <1>1, <1>d, ListRests
<1>4. (\A q \in ps : Told(q)' /\ q.op # "CON_ESTAB") /\ Silent(ps)
  <2>1. CASE i = 0
    BY <2>1 DEF Silent
  <2>2. CASE i # 0
    <3>1. i \in 1 .. Len(nodes) /\ nodes[i] \in NodeType
      BY <2>2, EntryAt
    <3>2. nodes # <<>> /\ (disturbed \/ i = 1)
      <4>1. Len(nodes) <= 1 => i = 1
        BY <3>1, ListLength
      <4> QED BY <3>1, <4>1, ListLength DEF RendezvousInv, ListInv
    <3>3. \A q \in ps : /\ q.src = Server /\ q.op = "RESP_M_IP" /\ q.at.of = nodes[i].m
                        /\ q.at.net = "local" => Site[q.dst] = Site[q.at.of]
      <4>1. nodes[i].m # None
        BY <3>1, NetAssumption DEF NodeType, Clients
      <4> QED BY <2>2, <4>1 DEF MasterIP, AddrPacket, AddressFor, Local, Public
    <3>4. disturbed' \/ nodes[i].m = Host'
      BY <1>d, <1>3, <3>2 DEF Host
    <3>5. nodes' # <<>>
      BY <1>1, <3>2
    <3> HIDE DEF ps
    <3> QED BY <3>3, <3>4, <3>5, NetAssumption DEF Told, Silent
  <2> QED BY <2>1, <2>2
<1> HIDE DEF ps
<1> QED BY <1>1, <1>2, <1>3, <1>4, <1>d, Dispatched, AnswerStep DEF ps

(* GET_REQ 8: no list is empty by then.                                    *)
LEMMA GotSlaveIPRight ==
  ASSUME SessionInv, SessionInv', RendezvousInv, NEW p \in Inbox(Server), UNCHANGED clientVars,
         GotSlaveIP(p)
  PROVE  RendezvousInv' /\ AbsStep
<1>1. PICK m \in Masters : peer[m] # NoAddr
  BY Dispatched DEF GotSlaveIP, AtMain, Told
<1>2. m \in Clients /\ PeerRight(m)
  BY DEF Clients, RendezvousInv
<1>3. nodes # <<>> /\ (disturbed \/ Introduced)
  BY <1>1, <1>2 DEF PeerRight, Introduced
<1>4. /\ UNCHANGED <<spc, tmpn, polRuns, uname>> /\ spc = "main"
      /\ Send(Answer(p, "GET_REQ", "0x09"))
  BY <1>3 DEF GotSlaveIP, AtMain
<1>d. disturbed => disturbed'
  BY <1>3, LookupDisturbs DEF GotSlaveIP
<1>a. Plain(Server, Answer(p, "GET_REQ", "0x09"))
  BY Dispatched
<1>5. CASE nodes' = nodes
  BY <1>4, <1>5, <1>d, <1>a, QuietAnswer
<1>6. CASE nodes' # nodes
  <2>1. PICK i \in 0 .. Len(nodes) :
          i # 0 /\ nodes' = [nodes EXCEPT ![i].status = "M_GET_SLAVE_IP"]
    BY <1>3, <1>6 DEF GotSlaveIP
  <2>2. i \in 1 .. Len(nodes)
    BY <2>1, EntryAt
  <2> DEFINE e == [nodes[i] EXCEPT !.status = "M_GET_SLAVE_IP"]
  <2>3. /\ e \in NodeType /\ e.m = nodes[i].m /\ e.s = nodes[i].s
        /\ nodes' = [nodes EXCEPT ![i] = e]
    BY <2>1, <2>2, ServerFacts DEF NodeType
  <2>4. /\ nodes' # <<>> /\ Host' = Host /\ Len(nodes') = Len(nodes)
        /\ \A j \in 1 .. Len(nodes) : nodes'[j] = IF j = i THEN e ELSE nodes[j]
    <3> HIDE DEF e
    <3> QED BY <2>2, <2>3, EntryChanges
  <2>5. ListInv'
    <3>1. ListInv /\ UNCHANGED peer
      BY DEF RendezvousInv, clientVars
    <3> QED BY <1>1, <1>4, <1>d, <2>4, <3>1 DEF ListInv
  <2> QED BY <1>3, <1>4, <1>d, <1>a, <2>4, <2>5, PlainTold, PlainSilent, AnswerStep
<1> QED BY <1>5, <1>6

(* POL_SENT: without an entry the server dies, with one that the master    *)
(* has confirmed it begins an attempt.                                     *)
LEMMA PolSentRight ==
  ASSUME SessionInv, SessionInv', RendezvousInv, NEW p \in Inbox(Server), UNCHANGED clientVars,
         PolSent(p)
  PROVE  RendezvousInv' /\ AbsStep
<1>1. /\ UNCHANGED <<nodes, poleRes>> /\ spc = "main" /\ UNCHANGED <<peer, mode>>
      /\ tmpn' \in 0 .. Len(nodes) /\ LooksUp(FindPeer(uname), {tmpn'})
  BY DEF PolSent, AtMain, clientVars
<1>d. disturbed => disturbed'
  BY <1>1, LookupDisturbs
<1>2. nodes # <<>>
  <2>1. PICK s \in Slaves : peer[s] # NoAddr
    BY Dispatched DEF PolSent, AtMain, Told
  <2> QED BY <2>1 DEF RendezvousInv, PeerRight, Clients
<1>3. CASE tmpn' = 0 /\ spc' = "crashed" /\ UNCHANGED <<msgs, uname, polRuns>>
  <2>1. Excused \/ disturbed'
    <3>1. CASE FindPeer(uname) = 0
      BY <1>2, <3>1, ListLength DEF FindPeer, RendezvousInv, AttemptInv
    <3>2. CASE FindPeer(uname) # 0
      <4>1. {tmpn'} # {FindPeer(uname)}
        BY <1>3, <3>2
      <4> QED BY <1>1, <4>1, LookupDisturbs
    <3> QED BY <3>1, <3>2
  <2>2. Send({}) /\ Excused' /\ Verdicts' = Verdicts /\ RoundTrips' = RoundTrips
    <3>1. Send({})
      BY <1>3, SendNothing
    <3>2. Excused'
      BY <1>d, <2>1, <3>1, ExcuseStays DEF Excused
    <3> QED BY <1>3, <3>1, <3>2 DEF Verdicts, RoundTrips, Answers
  <2>3. ListInv' /\ Host' = Host /\ Confirmed' = Confirmed
    BY <1>1, <1>3, <1>d, ListRests
  <2>4. AttemptInv'
    BY <1>1, <1>3, <2>2 DEF RendezvousInv, AttemptInv, Connecting
  <2>5. CrashOnlyAfterQuit'
    BY <2>2 DEF CrashOnlyAfterQuit, Excused
  <2>6. Triggered' => Triggered
    BY <1>3, <2>3 DEF Triggered, Connecting
  <2>7. RendezvousInv'
    BY <1>1, <1>2, <1>3, <1>d, <2>2, <2>3, <2>4, <2>5, <2>6, ServerTells
  <2>8. AbsStep
    BY <1>1, <1>3, <2>2, <2>3, Stutters
  <2> QED BY <2>7, <2>8
<1>4. CASE /\ tmpn' # 0 /\ nodes[tmpn'].status = "M_GET_SLAVE_IP"
           /\ uname' = UName(p.src) /\ spc' = "mclean"
           /\ polRuns' = (IF polRuns < 2 THEN polRuns + 1 ELSE 2)
           /\ Send(Answer(p, "GET_REQ", "0x0b"))
  <2>a. Plain(Server, Answer(p, "GET_REQ", "0x0b"))
    BY Dispatched
  <2>1. Verdicts' = Verdicts /\ RoundTrips' = RoundTrips
    BY <1>4, <2>a, PlainVerdicts, PlainSilent, SilentStays
  <2>2. Confirmed
    <3>1. tmpn' \in 1 .. Len(nodes)
      BY <1>1, <1>4, ListLength
    <3> QED BY <1>4, <3>1 DEF Confirmed
  <2>3. ListInv' /\ Host' = Host /\ Confirmed' = Confirmed
    BY <1>1, <1>4, <1>d, ListRests
  <2>4. polRuns \in 0..2 /\ polRuns' > 0 /\ (polRuns' < 2 => polRuns = 0)
    <3>1. polRuns = 0 \/ polRuns = 1 \/ polRuns = 2
      <4>1. polRuns \in 0..2
        BY ServerFacts
      <4> QED BY <4>1
    <3>2. /\ polRuns = 0 => polRuns' = 1
          /\ polRuns # 0 => polRuns' = 2
      BY <1>4, <3>1
    <3> QED BY <3>1, <3>2
  <2>5. AttemptInv'
    <3>1. polRuns = 0 => Verdicts = {}
      BY DEF RendezvousInv, Told, Verdicts
    <3>2. uname' = "UNAME" \/ Excused'
      BY <1>4, <1>d, Dispatched, ExcuseStays
    <3> QED BY <1>4, <2>1, <2>4, <3>1, <3>2 DEF AttemptInv, Connecting
  <2>6. RendezvousInv'
    <3>1. \A q \in Answer(p, "GET_REQ", "0x0b") : Told(q)'
      BY <2>a, PlainTold
    <3>2. CrashOnlyAfterQuit'
      BY <1>4 DEF CrashOnlyAfterQuit
    <3>3. Triggered' => Triggered
      BY <2>2 DEF Triggered
    <3> QED BY <1>1, <1>2, <1>4, <1>d, <2>3, <2>4, <2>5, <3>1, <3>2, <3>3, ServerTells
  <2>7. Abstract!Attempt
    <3>1. (\E m \in Masters : peer[m] # NoAddr) = TRUE
      BY <2>2 DEF RendezvousInv, ListInv
    <3>2. (polRuns' > 0) = TRUE
      BY <2>4
    <3> QED BY <1>1, <2>1, <2>3, <3>1, <3>2 DEF Abstract!Attempt
  <2> QED BY <2>6, <2>7 DEF AbsStep, Abstract!AbsNext
<1> QED BY <1>3, <1>4 DEF PolSent

LEMMA DispatchRight ==
  ASSUME SessionInv, SessionInv', RendezvousInv, NEW p \in Inbox(Server), UNCHANGED clientVars,
         \/ MasterLogin(p) \/ SlaveLogin(p) \/ ReqMasterIP(p) \/ KeepCon(p)
         \/ GotSlaveIP(p) \/ MasterQuit(p) \/ PolSent(p)
         \/ TurnReq(p) \/ CmdChan(p)
  PROVE  RendezvousInv' /\ AbsStep
<1>a. Plain(Server, Answer(p, "GET_REQ", "0x01")) /\ Plain(Server, Answer(p, "GET_REQ", "0x03"))
  BY Dispatched
<1>1. CASE KeepCon(p)
  BY <1>1, <1>a, QuietAnswer DEF KeepCon, serverVars, AtMain
<1>2. CASE MasterQuit(p)
  <2>1. Excused
    BY <1>2, Dispatched DEF MasterQuit, AtMain, Excused
  <2>2. nodes' = nodes
    BY <1>2 DEF MasterQuit, FindPeer
  <2> QED BY <1>2, <1>a, <2>1, <2>2, QuietAnswer DEF MasterQuit, AtMain
<1>3. CASE TurnReq(p)
  BY <1>3, <1>a, QuietAnswer DEF TurnReq, AtMain
<1>4. CASE CmdChan(p)
  BY <1>4, <1>a, QuietAnswer DEF CmdChan, AtMain
<1> QED BY <1>1, <1>2, <1>3, <1>4, MasterLoginRight, SlaveLoginRight, ReqMasterIPRight,
           GotSlaveIPRight, PolSentRight

-----------------------------------------------------------------------------
(* The nested loops and clean_rec_buff; the last loop announces the        *)
(* verdict.                                                                *)

(* Whichever way such a step goes.                                         *)
LEMMA LoopGoes ==
  ASSUME SessionInv, SessionInv', RendezvousInv, UNCHANGED clientVars, UNCHANGED loopRest,
         spc' \in {"main", "sip"} \cup Connecting,
         spc' = "sip" => spc = "sip", spc' \in Connecting => spc \in Connecting,
         disturbed => disturbed',
         NEW ps, Send(ps), Silent(ps), \A p \in ps : Told(p)',
         (\E p \in ps : p.op = "CON_ESTAB") => Triggered,
         polRuns < 2 =>
           /\ \A p, q \in Verdicts' : p.arg = q.arg
           /\ spc' \in Connecting \ {"estab"} => Verdicts' = {}
           /\ spc' = "estab" => \A p \in Verdicts' : p.arg = Res(poleRes')
  PROVE  RendezvousInv' /\ AbsStep
<1>1. UNCHANGED <<nodes, tmpn, uname, polRuns, peer, mode>>
  BY DEF loopRest, clientVars
<1>2. ListInv' /\ Host' = Host /\ Confirmed' = Confirmed
  <2>1. spc' # "sip" \/ UNCHANGED <<spc, tmpn>>
    BY <1>1
  <2> QED BY <1>1, <2>1, ListRests
<1>3. AttemptInv'
  <2>1. Excused => Excused'
    BY ExcuseStays
  <2> QED BY <1>1, <2>1 DEF RendezvousInv, AttemptInv
<1>4. CrashOnlyAfterQuit'
  BY DEF CrashOnlyAfterQuit, Connecting
<1>5. Triggered' => Triggered
  BY <1>2 DEF Triggered, Send
<1>6. RendezvousInv'
  BY <1>1, <1>2, <1>3, <1>4, <1>5, ServerTells
<1>7. AbsStep
  BY <1>1, <1>2, SilentStays, Stutters
<1> QED BY <1>6, <1>7

(* A step that sends plain datagrams and comes to no verdict.              *)
LEMMA LoopQuiet ==
  ASSUME SessionInv, SessionInv', RendezvousInv, UNCHANGED clientVars, UNCHANGED loopRest,
         spc' \in {"main", "sip"} \cup Connecting,
         spc' = "sip" => spc = "sip",
         spc' \in Connecting \ {"estab"} => spc \in Connecting \ {"estab"},
         spc' = "estab" => spc = "estab" /\ poleRes' = poleRes,
         disturbed => disturbed',
         NEW ps, Send(ps), Silent(ps), \A p \in ps : Told(p)' /\ p.op # "CON_ESTAB"
  PROVE  RendezvousInv' /\ AbsStep
<1>1. Verdicts' = Verdicts
  BY DEF Verdicts, Send
<1>2. spc' \in Connecting => spc \in Connecting
  BY DEF Connecting
<1>3. polRuns < 2 =>
        /\ \A p, q \in Verdicts' : p.arg = q.arg
        /\ spc' \in Connecting \ {"estab"} => Verdicts' = {}
        /\ spc' = "estab" => \A p \in Verdicts' : p.arg = Res(poleRes')
  BY <1>1 DEF RendezvousInv, AttemptInv
<1> QED BY <1>2, <1>3, LoopGoes

(* A step that announces the verdict, the first time or again.             *)
LEMMA LoopVerdict ==
  ASSUME SessionInv, SessionInv', RendezvousInv, UNCHANGED clientVars, UNCHANGED loopRest,
         spc \in Connecting, spc' = "estab", spc = "estab" => poleRes' = poleRes,
         UNCHANGED disturbed,
         Send(Verdict(nodes[tmpn], poleRes'))
  PROVE  RendezvousInv' /\ AbsStep
<1> DEFINE ps == Verdict(nodes[tmpn], poleRes')
<1>1. \A p \in ps : p.op = "CON_ESTAB" /\ p.arg = Res(poleRes') /\ p.src = Server
  BY DEF Verdict, Res, ToMaster, ToSlave, Packet
<1>2. msgs' = msgs \cup ps /\ Send(ps)
  BY DEF Send
<1>3. Verdicts' = Verdicts \cup ps
  BY <1>1, <1>2 DEF Verdicts
<1>4. polRuns < 2 => \A p \in Verdicts' : p.arg = Res(poleRes')
  <2>1. polRuns < 2 => \A p \in Verdicts : p.arg = Res(poleRes')
    BY DEF RendezvousInv, AttemptInv
  <2> QED BY <1>1, <1>3, <2>1
<1>5. \A p \in ps : Told(p)'
  BY <1>1, NetAssumption DEF Told, RendezvousInv, AttemptInv, loopRest
<1>6. Silent(ps)
  BY <1>1 DEF Silent
<1>7. Triggered /\ "estab" \in Connecting
  BY DEF Triggered, Connecting
<1> HIDE DEF ps
<1> QED BY <1>2, <1>4, <1>5, <1>6, <1>7, LoopGoes

(* What the probing loops send.                                            *)
LEMMA PolReqTells ==
  ASSUME NEW i, NEW ps \in {MPolReq(i), SPolReq(i)}
  PROVE  Silent(ps) /\ \A q \in ps : Told(q)' /\ q.op # "CON_ESTAB"
<1>1. Plain(Server, ps)
  BY DEF Plain, MPolReq, SPolReq, ToMaster, ToSlave, Packet
<1> QED BY <1>1, PlainTold, PlainSilent

LEMMA LoopRight ==
  ASSUME SessionInv, SessionInv', RendezvousInv, UNCHANGED clientVars,
         ServerLoop \/ EmptySocket
  PROVE  RendezvousInv' /\ AbsStep
<1>r. UNCHANGED loopRest
  BY DEF ServerLoop, SendSlaveIP, MasterPoles, SlavePoles, Announce, EmptySocket
<1>0. UNCHANGED msgs => Send({}) /\ Silent({})
  BY SendNothing DEF Silent
<1>c. Connecting = {"mclean", "mpol", "sclean", "spol", "estab"}
  BY DEF Connecting
<1>1. ASSUME NEW from \in {"sip", "estab"}, BackToMain(from)
      PROVE  RendezvousInv' /\ AbsStep
  BY <1>r, <1>0, <1>c, <1>1, LoopQuiet DEF BackToMain, Goes
<1>2. ASSUME NEW res, Poled("mpol", res, "sclean"), UNCHANGED <<msgs, disturbed>>
      PROVE  RendezvousInv' /\ AbsStep
  BY <1>r, <1>0, <1>c, <1>2, LoopQuiet DEF Poled, Goes
<1>3. ASSUME NEW from \in {"spol", "sclean"}, NEW res, Conclude(from, res)
      PROVE  RendezvousInv' /\ AbsStep
  <2>1. /\ spc \in Connecting /\ spc' = "estab" /\ spc # "estab" /\ UNCHANGED disturbed
        /\ Send(Verdict(nodes[tmpn], poleRes'))
    BY <1>c, <1>3 DEF Conclude, Poled, Goes
  <2> QED BY <1>r, <2>1, LoopVerdict
<1>4. CASE Again
  <2>1. UNCHANGED <<spc, poleRes>>
    BY <1>4 DEF Again
  <2>2. CASE spc = "sip" /\ Send(SlaveIP(nodes[tmpn])) /\ UNCHANGED disturbed
    <3>1. UNCHANGED <<nodes, tmpn>> /\ tmpn # 0 /\ tmpn \in 0 .. Len(nodes)
      BY <1>r, <2>2, ServerFacts DEF loopRest, SessionInv, ServerInv
    <3>2. nodes # <<>> /\ tmpn \in 1 .. Len(nodes)
      BY <3>1, ListLength
    <3>3. disturbed \/ (Len(nodes) <= 1 /\ nodes[tmpn].s # None)
      BY <2>2 DEF RendezvousInv, ListInv
    <3>4. \A q \in SlaveIP(nodes[tmpn]) : Told(q)' /\ q.op \notin {"CON_ESTAB", "GET_REQ"}
      BY <2>2, <3>1, <3>2, <3>3, SlaveIPTold
    <3>5. Silent(SlaveIP(nodes[tmpn]))
      BY <3>4 DEF Silent
    <3> QED BY <1>r, <1>c, <2>1, <2>2, <3>4, <3>5, LoopQuiet
  <2>3. CASE spc = "estab" /\ Send(Verdict(nodes[tmpn], poleRes)) /\ UNCHANGED disturbed
    BY <1>r, <1>c, <2>1, <2>3, LoopVerdict
  <2>4. ASSUME NEW i \in 0 .. Len(nodes), LooksUp(FindPeer(uname), {i}),
               \/ spc = "mpol" /\ Send(MPolReq(i))
               \/ spc = "spol" /\ Send(SPolReq(i))
        PROVE  RendezvousInv' /\ AbsStep
    <3>1. disturbed => disturbed'
      BY <2>4, LookupDisturbs
    <3>2. CASE spc = "mpol" /\ Send(MPolReq(i))
      <4>1. Silent(MPolReq(i)) /\ \A q \in MPolReq(i) : Told(q)' /\ q.op # "CON_ESTAB"
        BY PolReqTells
      <4> QED BY <1>r, <1>c, <2>1, <3>1, <3>2, <4>1, LoopQuiet
    <3>3. CASE spc = "spol" /\ Send(SPolReq(i))
      <4>1. Silent(SPolReq(i)) /\ \A q \in SPolReq(i) : Told(q)' /\ q.op # "CON_ESTAB"
        BY PolReqTells
      <4> QED BY <1>r, <1>c, <2>1, <3>1, <3>3, <4>1, LoopQuiet
    <3> QED BY <2>4, <3>2, <3>3
  <2> QED BY <1>4, <2>2, <2>3, <2>4 DEF Again
<1>5. ASSUME NEW i \in 0 .. Len(nodes), LooksUp(FindPeer(uname), {i}),
             \/ Goes("mclean", "mpol") /\ Send(MPolReq(i))
             \/ Goes("sclean", "spol") /\ Send(SPolReq(i)),
             UNCHANGED poleRes
      PROVE  RendezvousInv' /\ AbsStep
  <2>1. disturbed => disturbed'
    BY <1>5, LookupDisturbs
  <2>2. CASE Goes("mclean", "mpol") /\ Send(MPolReq(i))
    <3>1. Silent(MPolReq(i)) /\ \A q \in MPolReq(i) : Told(q)' /\ q.op # "CON_ESTAB"
      BY PolReqTells
    <3> QED BY <1>r, <1>c, <2>1, <2>2, <3>1, LoopQuiet DEF Goes
  <2>3. CASE Goes("sclean", "spol") /\ Send(SPolReq(i))
    <3>1. Silent(SPolReq(i)) /\ \A q \in SPolReq(i) : Told(q)' /\ q.op # "CON_ESTAB"
      BY PolReqTells
    <3> QED BY <1>r, <1>c, <2>1, <2>3, <3>1, LoopQuiet DEF Goes
  <2> QED BY <1>5, <2>2, <2>3
<1>6. CASE EmptySocket
  BY <1>3, <1>5, <1>6 DEF EmptySocket
<1>7. CASE SendSlaveIP
  BY <1>1, <1>4, <1>7 DEF SendSlaveIP
<1>8. CASE MasterPoles
  BY <1>2, <1>4, <1>8 DEF MasterPoles, SlaveMode
<1>9. CASE SlavePoles
  BY <1>3, <1>4, <1>9 DEF SlavePoles
<1>10. CASE Announce
  BY <1>1, <1>4, <1>10 DEF Announce
<1> QED BY <1>6, <1>7, <1>8, <1>9, <1>10 DEF ServerLoop

(* A relay thread ends, or takes the process with it.                      *)
LEMMA ThreadRight ==
  ASSUME SessionInv, SessionInv', RendezvousInv, UNCHANGED clientVars,
         UNCHANGED <<msgs, nodes, tmpn, poleRes, uname, polRuns>>,
         \/ UNCHANGED <<spc, disturbed>>
         \/ spc' = "crashed" /\ disturbed'
  PROVE  RendezvousInv' /\ AbsStep
<1>1. Send({}) /\ RoundTrips' = RoundTrips /\ Verdicts' = Verdicts
  BY SendNothing DEF RoundTrips, Answers, Verdicts
<1>2. UNCHANGED <<peer, mode>> /\ (disturbed => disturbed')
  BY DEF clientVars
<1>3. ListInv' /\ Host' = Host /\ Confirmed' = Confirmed
  BY <1>2, ListRests
<1>4. Excused => Excused'
  BY <1>1, <1>2, ExcuseStays
<1>5. AttemptInv'
  BY <1>1, <1>4 DEF RendezvousInv, AttemptInv, Connecting
<1>6. CrashOnlyAfterQuit'
  BY <1>4 DEF RendezvousInv, CrashOnlyAfterQuit, Excused
<1>7. Triggered' => Triggered
  BY <1>3 DEF Triggered, Connecting
<1>8. RendezvousInv'
  BY <1>1, <1>2, <1>3, <1>5, <1>6, <1>7, ServerTells
<1>9. AbsStep
  BY <1>1, <1>2, <1>3, Stutters
<1> QED BY <1>8, <1>9

LEMMA ServerRight ==
  ASSUME SessionInv, SessionInv', RendezvousInv, ServerNext, UNCHANGED clientVars
  PROVE  RendezvousInv' /\ AbsStep
<1>1. CASE Dispatch
  BY <1>1, DispatchRight DEF Dispatch
<1>2. CASE ServerLoop \/ EmptySocket
  BY <1>2, LoopRight
<1>3. CASE TurnThreadEnds \/ CmdThreadEnds
  BY <1>3, ThreadRight DEF TurnThreadEnds, CmdThreadEnds
<1>4. CASE TurnThreadKills
  BY <1>4, ThreadRight DEF TurnThreadKills
<1> QED BY <1>1, <1>2, <1>3, <1>4 DEF ServerNext

-----------------------------------------------------------------------------
LEMMA InitRendezvousInv == Init => RendezvousInv /\ Abstract!AbsInit
<1> SUFFICES ASSUME Init PROVE RendezvousInv /\ Abstract!AbsInit
  OBVIOUS
<1>1. /\ msgs = {} /\ spc = "main" /\ nodes = <<>> /\ polRuns = 0 /\ ~disturbed
      /\ \A c \in Clients : cpc[c] = "off" /\ peer[c] = NoAddr /\ mode[c] = "FAIL"
      /\ mode = [c \in Clients |-> "FAIL"]
      /\ NoAddr.net = "none" /\ Masters \subseteq Clients /\ Slaves \subseteq Clients
  BY DEF Init, ServerInit, ClientInit, NoAddr, Clients
<1>2. Verdicts = {} /\ RoundTrips = {} /\ Host = None
  BY <1>1 DEF Verdicts, RoundTrips, Answers, Host
<1>3. AttemptInv /\ MasterIntroduced /\ CrashOnlyAfterQuit /\ ListInv /\ ~Confirmed
  <2>1. Len(nodes) = 0 /\ ~Confirmed
    BY <1>1 DEF Confirmed
  <2> QED BY <1>1, <1>2, <2>1
          DEF AttemptInv, Connecting, MasterIntroduced, CrashOnlyAfterQuit, ListInv, Confirmed
<1>4. \A c \in Clients : At(c) /\ PeerRight(c)
  BY <1>1 DEF At, PeerRight
<1>5. \A p \in msgs : Told(p)
  BY <1>1
<1>6. Abstract!AbsInit
  <2>1. (\E m \in Masters : peer[m] # NoAddr) = FALSE /\ (polRuns > 0) = FALSE
    BY <1>1
  <2> QED BY <1>1, <1>2, <2>1 DEF Abstract!AbsInit, Abstract!Parties, Clients
<1> QED BY <1>3, <1>4, <1>5, <1>6 DEF RendezvousInv

LEMMA NextRendezvousInv ==
  SessionInv /\ SessionInv' /\ RendezvousInv /\ [Next]_vars => RendezvousInv' /\ AbsStep
<1> SUFFICES ASSUME SessionInv, SessionInv', RendezvousInv, [Next]_vars
             PROVE  RendezvousInv' /\ AbsStep
  OBVIOUS
<1>1. CASE ServerMoves
  BY <1>1, ServerRight DEF ServerMoves
<1>2. CASE \E m \in Masters : MasterMoves(m)
  BY <1>2, MasterRight DEF MasterMoves
<1>3. CASE \E s \in Slaves : SlaveMoves(s)
  BY <1>3, SlaveRight DEF SlaveMoves
<1>4. CASE UNCHANGED vars
  BY <1>4, ThreadRight DEF vars, serverVars
<1> QED BY <1>1, <1>2, <1>3, <1>4 DEF Next

-----------------------------------------------------------------------------
(* The inductive invariant holds in every reachable state.                 *)
THEOREM RendezvousInvariance == Spec => []RendezvousInv
<1>1. Init => RendezvousInv
  BY InitRendezvousInv
<1>2. SessionInv /\ SessionInv' /\ RendezvousInv /\ [Next]_vars => RendezvousInv'
  BY NextRendezvousInv
<1> QED BY <1>1, <1>2, Invariance, PTL DEF Spec

(* Of all the masters that log in, only the first registered one is ever   *)
(* given a slave's address, and every slave is given that one's, as long   *)
(* as no relay thread has made a lookup go wrong.                          *)
THEOREM HostIsUnique == Spec => []OneHost
<1>1. RendezvousInv => OneHost
  BY DEF RendezvousInv, PeerRight, OneHost, Clients
<1> QED BY <1>1, RendezvousInvariance, PTL

(* The server begins to connect two clients, and announces a verdict, only *)
(* after the registered master has got some slave's address from it: what  *)
(* POL_SENT reads in the node was set by a confirmation of it, as long as  *)
(* no relay thread has made a lookup go wrong.                             *)
THEOREM IntroducedBeforeConnecting == Spec => []MasterIntroduced
<1>1. RendezvousInv => MasterIntroduced
  BY DEF RendezvousInv
<1> QED BY <1>1, RendezvousInvariance, PTL

(* No client is given a local address of another site, whatever logins     *)
(* come between Send_S_IP's or Send_M_IP's choice and its use.             *)
THEOREM PeersAreRoutable == Spec => []RoutablePeers
<1>1. RendezvousInv => RoutablePeers
  BY DEF RendezvousInv, PeerRight, RoutablePeers
<1> QED BY <1>1, RendezvousInvariance, PTL

(* The entry that POL_SENT and GET_REQ 8 use untested is there, and        *)
(* V_UAP_S finds again what it found, unless a master has quit, a client   *)
(* has come with another name, or a relay thread has moved the cursor of   *)
(* the list under a lookup.                                                *)
THEOREM CrashIsExcused == Spec => []CrashOnlyAfterQuit
<1>1. RendezvousInv => CrashOnlyAfterQuit
  BY DEF RendezvousInv
<1> QED BY <1>1, RendezvousInvariance, PTL

(* As long as one POL_SENT has been taken, all clients that have settled   *)
(* have settled alike, however late each hears the verdict.                *)
THEOREM OneVerdict == Spec => []OneVerdictPerAttempt
<1>1. SessionInv /\ RendezvousInv => OneVerdictPerAttempt
  <2> SUFFICES ASSUME SessionInv, RendezvousInv, polRuns < 2, NEW c \in Clients, NEW d \in Clients,
                      mode[c] # "FAIL", mode[d] # "FAIL"
               PROVE  mode[c] = mode[d]
    BY DEF OneVerdictPerAttempt
  <2>1. /\ mode[c] \in {"P2P", "TURN"} /\ mode[d] \in {"P2P", "TURN"}
        /\ At(c) /\ At(d) /\ \A p, q \in Verdicts : p.arg = q.arg
    BY DEF SessionInv, TypeOK, ClientTypeOK, RendezvousInv, AttemptInv
  <2> QED BY <2>1 DEF At
<1> QED BY <1>1, Invariance, RendezvousInvariance, PTL

(* The session implements Rendezvous: every datagram that is sent, lost,   *)
(* repeated or late brings about a step of it, or none.                    *)
THEOREM Implementation == Spec => ImplementsRendezvous
<1>1. Init => Abstract!AbsInit
  BY InitRendezvousInv
<1>2. SessionInv /\ SessionInv' /\ RendezvousInv /\ [Next]_vars
        => [Abstract!AbsNext]_(Abstract!absVars)
  BY NextRendezvousInv DEF AbsStep
<1> QED BY <1>1, <1>2, Invariance, RendezvousInvariance, PTL
        DEF Spec, ImplementsRendezvous, Abstract!AbsSpec
=============================================================================
