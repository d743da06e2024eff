----------------------------- MODULE TurnRelay -----------------------------
(***************************************************************************)
(* The TURN relay of the P2P server: turnThread, which relays data packets *)
(* between the master and the slave of the node that their sender's IP is  *)
(* found in, and the handlers of the main thread that meet it.  They share *)
(* turnSign, turnThreadRunning, recvProcessBufP, and the cursor of every   *)
(* walk along the node list, which is the global plist, with node, the     *)
(* entry it stands at.  Nothing is locked.                                 *)
(*                                                                         *)
(* The list starts with one node, in which a master and a slave are        *)
(* registered (only then is anybody told to use TURN); a slave that logs   *)
(* in takes the other's place, and a master that logs in gets a node of    *)
(* its own if the lookup misses the first.  A step has one access to a     *)
(* shared variable, save that adjacent writes of the main thread are one   *)
(* step.  The unit of recvProcessBuf is a packet: GETs are not relayed,    *)
(* and the sendto needs no model of its own.                               *)
(***************************************************************************)
EXTENDS Integers, Sequences, FiniteSets

CONSTANTS
  Thread,        \* identities of relay threads; two, to see whether a second can start
  Masters, Slaves,
  PeerSheetLen,  \* PEER_SHEET_LEN: the list takes no more entries
  MaxDatagrams,  \* bound: datagrams that reach the TURN port
  Room,          \* TURN_DATA_SIZE, in packets
  Slack,         \* recv_size
  None

Sender == Masters \cup Slaves

ASSUME TurnAssumption ==
  /\ None \notin Sender \cup Thread
  /\ PeerSheetLen \in Nat \ {0}
  /\ MaxDatagrams \in Nat
  /\ Room \in Nat \ {0} /\ Slack \in 1..Room

VARIABLES
  turnSign, turnThreadRunning,
  size,                   \* entries of the list; the last was added in front of the others
  master, slave,          \* recv_sin_m and recv_sin_s of each
  plist, node,            \* the cursor, 0 at the head; the entry, or 0 for what is not one
  walk,                   \* each thread's walk along the list
  for, caller,            \* what the main thread walks for; who asked
  tpc,                    \* where each relay thread is
  buf, recvProcessBufP,   \* recvProcessBuf
  at, tRecv_sin,          \* where recvfrom writes; the sender of the last datagram
  scanP, reg,             \* turnThread's, and its register for recvProcessBufP
  taken,    \* datagrams received, which also numbers them
  owed,     \* history: packets received and not yet relayed, in order
  intact,   \* history: packets were relayed in order, and lost only when they may be
  member,   \* history: the sender has been registered throughout the lookup
  shut,     \* history: a registered sender was turned away
  since,    \* history: datagrams taken since turnSign was cleared
  raced,    \* history: a TURN_REQ came while the relay had packets in hand
  met,      \* history: both threads walked the list at once
  late,     \* history: the last TURN_REQ came when the thread was leaving
  unbound,  \* history: the last thread could not bind its port
  stopped   \* history: MASTER_QUIT has come since the last thread was started

listVars == <<size, master, slave, plist, node, walk, for, caller>>
bufVars  == <<buf, recvProcessBufP, at, tRecv_sin, scanP, reg>>
fifoVars == <<taken, owed, intact>>
seenVars == <<member, shut, since, raced, late, unbound, stopped>>
(* What most steps of the relay leave alone.                               *)
rest     == <<turnSign, turnThreadRunning, listVars, seenVars>>
turnVars == <<turnSign, turnThreadRunning, listVars, tpc, bufVars, fifoVars, seenVars, met>>

Walker == {"main", "turn"}

Entries == 1..PeerSheetLen
Of(i) == {master[i], slave[i]}
Registered == UNION {Of(i) : i \in 1..size}

TurnTypeOK ==
  /\ {turnSign, turnThreadRunning, intact, member, shut, raced, met, late, unbound, stopped}
       \subseteq BOOLEAN
  /\ size \in Entries
  /\ master \in [Entries -> Masters \cup {None}] /\ slave \in [Entries -> Slaves \cup {None}]
  /\ plist \in 0..size /\ node \in 0..size
  /\ walk \in [Walker -> {"no", "test", "entry", "compare", "next", "found", "end"}]
  /\ for \in {"nothing", "find", "set", "print", "name", "login", "pol", "address",
              "delete", "start"}
  /\ caller \in Sender \cup {None}
  /\ tpc \in [Thread -> {"off", "new", "bind", "loop", "enter", "recv", "add", "added", "check",
                         "scan", "look", "tail", "sub", "subbed", "leave", "wild"}]
  /\ buf \in [0..Room -> Nat] /\ scanP \in 0..Room
  /\ at \in 0..Room - Slack
  /\ recvProcessBufP \in 0..Room /\ reg \in 0..Room
  /\ tRecv_sin \in Sender \cup {None}
  /\ taken \in 0..MaxDatagrams /\ owed \in Seq(1..MaxDatagrams)
  /\ since \in Nat

TurnInit ==
  /\ turnSign = FALSE /\ turnThreadRunning = FALSE
  /\ size = 1
  /\ \E m \in Masters : master = [i \in Entries |-> IF i = 1 THEN m ELSE None]
  /\ \E s \in Slaves : slave = [i \in Entries |-> IF i = 1 THEN s ELSE None]
  /\ plist = 0 /\ node = 1
  /\ walk = [w \in Walker |-> "no"] /\ for = "nothing" /\ caller = None
  /\ tpc = [t \in Thread |-> "off"]
  /\ buf = [i \in 0..Room |-> 0] /\ recvProcessBufP = 0
  /\ at = 0 /\ tRecv_sin = None /\ scanP = 0 /\ reg = 0
  /\ taken = 0 /\ owed = <<>> /\ intact = TRUE
  /\ member = FALSE /\ shut = FALSE /\ since = 0
  /\ raced = FALSE /\ met = FALSE /\ late = FALSE
  /\ unbound = FALSE /\ stopped = FALSE

-----------------------------------------------------------------------------
(* A walk along the list: find_item, find_item_by_ip, printListIp and      *)
(* del_item, whichever thread is in them.                                  *)
Steps(w, from, to) == walk[w] = from /\ walk' = [walk EXCEPT ![w] = to]

ByName == {"find", "set", "name", "login", "pol"}

(* The slave's address is not compared.                                    *)
Matches_MasterOnly(w) ==
  IF w = "turn" THEN tRecv_sin = master[node]
  ELSE for \in ByName \/ (for = "address" /\ caller \in Of(node))

(* The walker w finds what it looks for in the entry.  All have one name.  *)
Matches(w) ==
  IF w = "turn" THEN tRecv_sin \in Of(node)
  ELSE for \in ByName \/ (for = "address" /\ caller \in Of(node))

(* A walk that looks at the list head as if it were an entry, or whose     *)
(* end the main thread is not prepared for: POL_SENT uses the result       *)
(* untested, and V_UAP_S returns from main.                                *)
GoesWild(w) ==
  \/ walk[w] = "entry" /\ w = "main" /\ for = "delete" /\ plist = 0
  \/ walk[w] \in {"compare", "found"} /\ node = 0
  \/ walk[w] = "end" /\ w = "main" /\ for \in {"set", "pol"}

WalkTest(w) ==
  /\ Steps(w, "test", IF plist = 0 THEN "end" ELSE "entry")
  /\ UNCHANGED <<plist, node>>

(* list_entry; del_item has a variable of its own for it.                  *)
WalkEntry(w) ==
  /\ ~GoesWild(w)
  /\ Steps(w, "entry", "compare")
  /\ node' = IF w = "main" /\ for = "delete" THEN node ELSE plist
  /\ UNCHANGED plist

WalkCompare(w) ==
  /\ ~GoesWild(w)
  /\ Steps(w, "compare", IF Matches(w) THEN "found" ELSE "next")
  /\ UNCHANGED <<plist, node>>

(* After the oldest entry comes the head, after the head the newest.       *)
WalkNext(w) ==
  /\ Steps(w, "next", "test")
  /\ plist' = IF plist = 0 THEN size ELSE plist - 1
  /\ UNCHANGED node

Walks(w) == WalkTest(w) \/ WalkEntry(w) \/ WalkCompare(w) \/ WalkNext(w)

Begin(w, from) == plist' = size /\ Steps(w, from, "test")

-----------------------------------------------------------------------------
(* The main thread's handlers.                                             *)
Idle == for = "nothing"
NotTheThread == UNCHANGED <<tpc, buf, at, tRecv_sin, scanP, reg, fifoVars>>
OnlyTheList == UNCHANGED <<turnSign, turnThreadRunning, recvProcessBufP, shut, since, raced,
                           late, unbound, stopped>> /\ NotTheThread

(* The packets the relay has in hand are not told of the reset.            *)
Busy == \/ recvProcessBufP # 0
        \/ \E t \in Thread : tpc[t] \notin {"off", "new", "bind", "loop", "enter", "recv", "leave"}

TurnReq ==
  /\ Idle
  /\ turnSign' = TRUE
  /\ recvProcessBufP' = 0
  /\ for' = "start"
  /\ raced' = (raced \/ Busy) /\ since' = 0
  /\ UNCHANGED <<turnThreadRunning, size, master, slave, plist, node, walk, caller, member,
                 shut, late, unbound, stopped>>
  /\ NotTheThread

startRest == <<turnSign, size, master, slave, plist, node, walk, caller, bufVars, fifoVars,
               member, shut, since, raced>>

(* The flag is left to the new thread.                                     *)
StartTurn_Unflagged ==
  /\ for = "start" /\ for' = "nothing"
  /\ \/ /\ ~turnThreadRunning
        /\ \E t \in Thread : tpc[t] = "off" /\ tpc' = [tpc EXCEPT ![t] = "new"]
        /\ unbound' = FALSE /\ stopped' = FALSE
     \/ turnThreadRunning /\ UNCHANGED <<tpc, unbound, stopped>>
  /\ late' = \E t \in Thread : tpc[t] = "leave"
  /\ UNCHANGED <<turnThreadRunning, startRest>>

StartTurn ==
  /\ for = "start" /\ for' = "nothing"
  /\ \/ /\ ~turnThreadRunning
        /\ turnThreadRunning' = TRUE
        /\ \E t \in Thread : tpc[t] = "off" /\ tpc' = [tpc EXCEPT ![t] = "new"]
        /\ unbound' = FALSE /\ stopped' = FALSE
     \/ turnThreadRunning /\ UNCHANGED <<turnThreadRunning, tpc, unbound, stopped>>
  /\ late' = \E t \in Thread : tpc[t] = "leave"
  /\ UNCHANGED startRest

(* MASTER_QUIT; del_item then looks for the empty name.                    *)
MasterQuit ==
  /\ Idle
  /\ turnSign' = FALSE
  /\ since' = IF turnSign THEN 0 ELSE since
  /\ stopped' = TRUE
  /\ for' = "delete" /\ Begin("main", "no")
  /\ UNCHANGED <<turnThreadRunning, size, master, slave, node, caller, recvProcessBufP,
                 member, shut, raced, late, unbound>>
  /\ NotTheThread

(* V_UAP_S ("find"), V_UAP ("login"), POL_SENT ("pol"), and the requests   *)
(* that look a name up and can do without it ("name").  GET_REQ looks up   *)
(* its sender's IP, None for a stranger's, and first reads node.           *)
LookUp(what, c) ==
  /\ Idle
  /\ what = "address" => node # 0
  /\ for' = what /\ caller' = c /\ Begin("main", "no")
  /\ UNCHANGED <<size, master, slave, node, member>>
  /\ OnlyTheList

(* V_UAP_S found the name: Peer_Set_Slave looks it up again.               *)
FoundPeer ==
  /\ for = "find" /\ ~GoesWild("main")
  /\ for' = "set" /\ Begin("main", "found")
  /\ UNCHANGED <<size, master, slave, node, caller, member>>
  /\ OnlyTheList

(* Peer_Set_Slave, then printListIp.                                       *)
PeerSetSlave ==
  /\ for = "set" /\ ~GoesWild("main")
  /\ slave' = [slave EXCEPT ![node] = caller]
  /\ for' = "print" /\ Begin("main", "found")
  /\ UNCHANGED <<size, master, node, caller>>
  /\ member' = (member /\ tRecv_sin \in Registered')
  /\ OnlyTheList

(* V_UAP did not find the name: Peer_Set adds an entry, then printListIp.  *)
(* The slave of the entry is uninitialised memory, nobody's address.       *)
PeerSet ==
  /\ for = "login" /\ walk["main"] = "end" /\ size < PeerSheetLen
  /\ size' = size + 1
  /\ master' = [master EXCEPT ![size'] = caller]
  /\ for' = "print" /\ plist' = size' /\ Steps("main", "end", "test")
  /\ UNCHANGED <<slave, node, caller, member>>
  /\ OnlyTheList

(* After V_UAP_S, Send_S_IP looks the name up.                             *)
Printed ==
  /\ for = "print" /\ caller \in Slaves
  /\ for' = "name" /\ caller' = None /\ Begin("main", "end")
  /\ UNCHANGED <<size, master, slave, node, member>>
  /\ OnlyTheList

LookedUp ==
  /\ \/ /\ walk["main"] = "end" /\ ~GoesWild("main")
        /\ for = "login" => size >= PeerSheetLen
        /\ for = "print" => caller \notin Slaves
     \/ walk["main"] = "found" /\ for \in {"name", "login", "pol", "address"}
  /\ for' = "nothing" /\ caller' = None /\ walk' = [walk EXCEPT !["main"] = "no"]
  /\ UNCHANGED <<size, master, slave, plist, node, member>>
  /\ OnlyTheList

MainWalks ==
  /\ Walks("main")
  /\ UNCHANGED <<size, master, slave, for, caller, member>>
  /\ OnlyTheList

-----------------------------------------------------------------------------
(* turnThread.                                                             *)
Goes(t, from, to) == tpc[t] = from /\ tpc' = [tpc EXCEPT ![t] = to]

BeginTurn(t) ==
  /\ Goes(t, "new", "bind")
  /\ turnThreadRunning' = TRUE
  /\ recvProcessBufP' = 0
  /\ UNCHANGED <<turnSign, listVars, buf, at, tRecv_sin, scanP, reg, fifoVars, seenVars>>

BindTurn(t) ==
  /\ Goes(t, "bind", "loop")
  /\ tRecv_sin' = None
  /\ UNCHANGED <<rest, buf, recvProcessBufP, at, scanP, reg, fifoVars>>

(* The port is taken: the thread returns.  Whoever asked has been told OK. *)
BindFails(t) ==
  /\ Goes(t, "bind", "off")
  /\ turnThreadRunning' = FALSE
  /\ unbound' = TRUE
  /\ UNCHANGED <<turnSign, listVars, bufVars, fifoVars,
                 member, shut, since, raced, late, stopped>>

(* turnSign is not looked at between datagrams.                            *)
TestTurnSign_Always(t) ==
  /\ Goes(t, "loop", "enter")
  /\ UNCHANGED <<rest, bufVars, fifoVars>>

(* while(turnSign == 1)                                                    *)
TestTurnSign(t) ==
  /\ Goes(t, "loop", IF turnSign THEN "enter" ELSE "leave")
  /\ UNCHANGED <<rest, bufVars, fifoVars>>

(* recvfrom gets recvProcessBuf + recvProcessBufP, and blocks.             *)
EnterRecv(t) ==
  /\ Goes(t, "enter", "recv")
  /\ at' = recvProcessBufP
  /\ UNCHANGED <<rest, buf, recvProcessBufP, tRecv_sin, scanP, reg, fifoVars>>

TakePacket(t, c) ==
  /\ Goes(t, "recv", "add")
  /\ taken < MaxDatagrams
  /\ taken' = taken + 1
  /\ buf' = [buf EXCEPT ![at] = taken']
  /\ tRecv_sin' = c /\ at' = 0
  /\ owed' = Append(owed, taken')
  /\ since' = IF turnSign THEN since ELSE since + 1
  /\ UNCHANGED <<turnSign, turnThreadRunning, listVars, recvProcessBufP, scanP, reg,
                 intact, member, shut, raced, late, unbound, stopped>>

(* An empty datagram, and as well an error.                                *)
TakeNothing(t, c) ==
  /\ Goes(t, "recv", "loop")
  /\ tRecv_sin' = c /\ at' = 0
  /\ since' = IF turnSign THEN since ELSE since + 1
  /\ UNCHANGED <<turnSign, turnThreadRunning, listVars, buf, recvProcessBufP, scanP, reg,
                 fifoVars, member, shut, raced, late, unbound, stopped>>

(* recvProcessBufP += recvLen.                                             *)
LoadP(t) ==
  /\ Goes(t, "add", "added")
  /\ reg' = recvProcessBufP
  /\ UNCHANGED <<rest, buf, recvProcessBufP, at, tRecv_sin, scanP, fifoVars>>

StoreP(t) ==
  /\ Goes(t, "added", "check")
  /\ recvProcessBufP' = reg + 1 /\ reg' = 0
  /\ UNCHANGED <<rest, buf, at, tRecv_sin, scanP, fifoVars>>

(* The room that recvfrom needs is forgotten.                              *)
CheckFull_Late(t) ==
  /\ \/ recvProcessBufP <= Room /\ Goes(t, "check", "scan")
        /\ UNCHANGED <<recvProcessBufP, owed>>
     \/ recvProcessBufP > Room /\ Goes(t, "check", "loop")
        /\ recvProcessBufP' = 0 /\ owed' = <<>>
  /\ scanP' = 0
  /\ UNCHANGED <<rest, buf, at, tRecv_sin, reg, taken, intact>>

(* Every datagram after the first finds the buffer full.                   *)
CheckFull_Early(t) ==
  /\ \/ recvProcessBufP <= 1 /\ Goes(t, "check", "scan")
        /\ UNCHANGED <<recvProcessBufP, owed, intact>>
     \/ /\ recvProcessBufP > 1 /\ Goes(t, "check", "loop")
        /\ recvProcessBufP' = 0 /\ owed' = <<>>
        /\ intact' = (intact /\ Len(owed) > Room - Slack)
  /\ scanP' = 0
  /\ UNCHANGED <<rest, buf, at, tRecv_sin, reg, taken>>

(* A buffer that is nearly full is emptied, whatever it holds.             *)
CheckFull(t) ==
  /\ \/ recvProcessBufP <= Room - Slack /\ Goes(t, "check", "scan")
        /\ UNCHANGED <<recvProcessBufP, owed, intact>>
     \/ /\ recvProcessBufP > Room - Slack /\ Goes(t, "check", "loop")
        /\ recvProcessBufP' = 0 /\ owed' = <<>>
        /\ intact' = (intact /\ Len(owed) > Room - Slack)
  /\ scanP' = 0
  /\ UNCHANGED <<rest, buf, at, tRecv_sin, reg, taken>>

(* A packet at scanP: whose node is the sender in?                         *)
ScanPacket(t) ==
  /\ scanP < recvProcessBufP /\ Goes(t, "scan", "look")
  /\ node # 0 /\ Begin("turn", "no")
  /\ member' = (tRecv_sin \in Registered)
  /\ UNCHANGED <<turnSign, turnThreadRunning, size, master, slave, node, for, caller, bufVars,
                 fifoVars, shut, since, raced, late, unbound, stopped>>

ScanEnd(t) ==
  /\ scanP >= recvProcessBufP /\ Goes(t, "scan", "tail")
  /\ UNCHANGED <<rest, bufVars, fifoVars>>

TurnWalks(t) ==
  /\ tpc[t] = "look"
  /\ Walks("turn")
  /\ UNCHANGED <<turnSign, turnThreadRunning, size, master, slave, for, caller, tpc, bufVars,
                 fifoVars, seenVars>>

lookRest == <<size, master, slave, plist, node, for, caller>>

(* Found: the packet goes to the side of the node its header names.        *)
RelayPacket(t) ==
  /\ Goes(t, "look", "scan") /\ Steps("turn", "found", "no") /\ ~GoesWild("turn")
  /\ scanP' = scanP + 1
  /\ intact' = (intact /\ owed # <<>> /\ buf[scanP] = Head(owed))
  /\ owed' = IF owed = <<>> THEN owed ELSE Tail(owed)
  /\ UNCHANGED <<turnSign, turnThreadRunning, lookRest, buf, recvProcessBufP,
                 at, tRecv_sin, reg, taken, seenVars>>

(* "Node not found. Turn request rejected!": the packet stays where it is, *)
(* and goes out with the next datagram of a registered sender.             *)
RejectPacket(t) ==
  /\ Goes(t, "look", "tail") /\ Steps("turn", "end", "no")
  /\ shut' = (shut \/ member)
  /\ UNCHANGED <<turnSign, turnThreadRunning, lookRest, bufVars, fifoVars,
                 member, since, raced, late, unbound, stopped>>

(* What has not been relayed moves to the front.                           *)
TestTail(t) ==
  /\ \/ scanP = recvProcessBufP /\ Goes(t, "tail", "loop") /\ scanP' = 0 /\ recvProcessBufP' = 0
     \/ scanP < recvProcessBufP /\ Goes(t, "tail", "sub") /\ UNCHANGED <<scanP, recvProcessBufP>>
     \/ scanP > recvProcessBufP /\ Goes(t, "tail", "loop") /\ scanP' = 0 /\ UNCHANGED recvProcessBufP
  /\ UNCHANGED <<rest, buf, at, tRecv_sin, reg, fifoVars>>

LoadTail(t) ==
  /\ Goes(t, "sub", "subbed")
  /\ reg' = recvProcessBufP
  /\ UNCHANGED <<rest, buf, recvProcessBufP, at, tRecv_sin, scanP, fifoVars>>

StoreTail(t) ==
  /\ reg >= scanP /\ Goes(t, "subbed", "loop")
  /\ recvProcessBufP' = reg - scanP /\ scanP' = 0 /\ reg' = 0
  /\ buf' = [i \in 0..Room |-> IF i < reg - scanP THEN buf[i + scanP] ELSE buf[i]]
  /\ UNCHANGED <<rest, at, tRecv_sin, fifoVars>>

(* The flag is left set.                                                   *)
LeaveTurn_Flagged(t) ==
  /\ Goes(t, "leave", "off")
  /\ owed' = <<>> /\ intact' = (intact /\ (owed = <<>> \/ stopped))
  /\ UNCHANGED <<rest, bufVars, taken>>

(* free(recvProcessBuf), close(turnSfd), turnThreadRunning = 0.            *)
LeaveTurn(t) ==
  /\ Goes(t, "leave", "off")
  /\ turnThreadRunning' = FALSE
  /\ owed' = <<>> /\ intact' = (intact /\ (owed = <<>> \/ stopped))
  /\ UNCHANGED <<turnSign, listVars, bufVars, taken, seenVars>>

(* The server dies of a memory access, in either thread: the relay's       *)
(* memcpy gets a negative length, or the list head is taken for an entry,  *)
(* or NULL; or it returns from main.                                       *)
Dies ==
  /\ \/ \E w \in Walker : GoesWild(w)
     \/ \E t \in Thread : tpc[t] = "subbed" /\ reg < scanP
     \/ node = 0 /\ \E t \in Thread : tpc[t] = "scan" /\ scanP < recvProcessBufP
  /\ tpc' = [t \in Thread |-> "wild"]
  /\ UNCHANGED <<rest, bufVars, fifoVars>>

Dead == \E t \in Thread : tpc[t] = "wild"

-----------------------------------------------------------------------------
MainThread ==
  \/ TurnReq \/ StartTurn \/ MasterQuit
  \/ LookUp("name", None) \/ LookUp("pol", None)
  \/ \E m \in Masters : LookUp("login", m)
  \/ \E s \in Slaves : LookUp("find", s)
  \/ \E c \in Sender \cup {None} : LookUp("address", c)
  \/ FoundPeer \/ PeerSetSlave \/ PeerSet \/ Printed \/ LookedUp \/ MainWalks

turnThread(t) ==
  \/ BeginTurn(t) \/ BindTurn(t) \/ BindFails(t) \/ TestTurnSign(t) \/ EnterRecv(t)
  \/ LoadP(t) \/ StoreP(t) \/ CheckFull(t)
  \/ ScanPacket(t) \/ ScanEnd(t) \/ TurnWalks(t) \/ RelayPacket(t) \/ RejectPacket(t)
  \/ TestTail(t) \/ LoadTail(t) \/ StoreTail(t) \/ LeaveTurn(t)
  \/ \E c \in Sender : TakePacket(t, c) \/ TakeNothing(t, c)

TurnNext ==
  /\ ~Dead
  /\ MainThread \/ Dies \/ \E t \in Thread : turnThread(t)
  /\ met' = (met \/ \A w \in Walker : walk[w] \notin {"no", "end"})

TurnSpec == TurnInit /\ [][TurnNext]_turnVars

-----------------------------------------------------------------------------
(* The main thread tests and sets turnThreadRunning, and both the new and  *)
(* the ending thread write it: there are never two relay threads, which    *)
(* would share the buffer and its counters.                                *)
OneTurnThread == Cardinality({t \in Thread : tpc[t] # "off"}) <= 1 \/ Dead

(* Packets leave in the order they came and none twice, those included    *)
(* that waited behind a stranger's; between passes the buffer holds what   *)
(* is still to go.  What is in hand is lost only when it is more than      *)
(* TURN_DATA_SIZE - recv_size, and then all of it, or when the relay ends, *)
(* which it does only after a MASTER_QUIT that came while it was there.    *)
(* Excepted: a TURN_REQ, whose reset the relay does not notice while it    *)
(* has packets in hand.                                                    *)
TurnFIFO ==
  ~raced /\ ~Dead =>
    /\ intact
    /\ \A t \in Thread : tpc[t] = "loop" =>
         owed = [i \in 1..recvProcessBufP |-> buf[i - 1]]

(* A sender registered from the start to the end of its lookup is turned   *)
(* away, the one name is registered twice, or the server dies, only if     *)
(* both threads walked the list at once and one moved the other's cursor,  *)
(* or (it dies) after a TURN_REQ inside a pass of the relay.               *)
MembersHeard ==
  /\ shut \/ size > 1 => met
  /\ Dead => met \/ raced

(* MASTER_QUIT stops the relay, though its thread waits in a recvfrom that *)
(* nothing interrupts: it takes one more datagram at most.                 *)
StopsAfterQuit == ~turnSign => since <= 1

(* After a TURN_REQ a thread is there to relay, unless the request came    *)
(* when the last thread had seen turnSign at 0 and had yet to say so, or   *)
(* the thread that it started, or met, could not bind its port.            *)
TurnServed ==
  turnSign /\ for # "start" /\ ~late /\ ~unbound =>
    \E t \in Thread : tpc[t] \notin {"off", "leave"}
=============================================================================
