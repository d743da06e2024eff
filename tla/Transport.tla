----------------------------- MODULE Transport -----------------------------
(***************************************************************************)
(* The data connection, seen from the program that receives: the thread    *)
(* recvData, which reassembles packets into recvBuf, and the application's *)
(* thread in JEAN_recv_master or JEAN_recv_slave, which reads recvBuf.     *)
(* The two programs have the same recvData and lock differently in         *)
(* JEAN_recv; program says which of them this is.                          *)
(*                                                                         *)
(* The unit is a packet with its payload: buffers are sequences of indexes *)
(* and the three lengths count packets.  recvProcessBuf, the back buffer   *)
(* and everything else of recvData's own are touched by no other thread, so *)
(* that a packet's scan is one step; every access to recvBufP, which the   *)
(* two threads share, is a step of its own.  Of a GET, which carries no    *)
(* index, only its arrival matters: it makes recvData go round.            *)
(***************************************************************************)
EXTENDS Integers, SequencesExt

CONSTANTS
  MaxIndex,   \* bound: packets 0..MaxIndex are sent
  MaxWant,    \* bound: what the application asks for at once, in packets
  Room,       \* MAX_RECV_BUF, the size of each of the three buffers
  Slack,      \* recv_size, the part of recvProcessBuf left to one recvfrom
  Wrap,       \* recvBufP is an unsigned int: it counts modulo Wrap
  Get, None

ASSUME TransportAssumption ==
  /\ MaxIndex \in Nat /\ MaxWant \in Nat \ {0}
  /\ Room \in Nat \ {0} /\ Slack \in 1..Room
  /\ Wrap \in Nat /\ Wrap > Room + MaxWant
  /\ Wrap >= 2 * MaxWant  \* len is an int
  /\ Get \notin Nat /\ None \notin Nat \cup {"recvData", "app"}

Packet == 0..MaxIndex

VARIABLES
  program,                         \* "master" or "slave"
  sendIndex,                       \* the peer's: packets below it have been sent
  rpc, proc, back,                 \* recvData: where it is, recvProcessBuf, recvProcessBackBuf
  lastIndex, pauseSign, recordLostNum, getLostNum,
  recvBuf, recvBufP, recvBuf_lock, \* shared
  reg,                             \* recvData's register in recvBufP += head.length
  app, want, data, count,          \* JEAN_recv: where it is, len, data, and its register
  arrived,  \* history: packets received at least once
  lastRead, \* history: the packet last put into recvBuf, -1 before the first
  owed,     \* history: how many packets in recvBuf have not been returned
  intact,   \* history: what was returned is what was owed
  spoilt,   \* history: recvBuf was reset, or the master's threads overlapped
  clashed   \* history: recvBuf was reset while the application was reading

scanVars  == <<proc, back, lastIndex, pauseSign, recordLostNum, getLostNum>>
readVars  == <<want, data, count>>
histVars  == <<arrived, lastRead, owed, intact, clashed>>
dataVars  == <<program, sendIndex, rpc, scanVars, recvBuf, recvBufP, recvBuf_lock, reg,
               app, readVars, histVars, spoilt>>

(* A payload in recvBuf is known by its place among those owed to the      *)
(* application, from 1.  What lies beyond recvBufP is not kept.            *)
Place(k) == IF spoilt THEN None ELSE k
Empty == [i \in 1..Room |-> None]

DataTypeOK ==
  /\ program \in {"master", "slave"}
  /\ sendIndex \in 0..MaxIndex + 1
  /\ rpc \in {"wait", "scan", "room", "reset", "append", "copied", "loaded", "wild", "overrun"}
  /\ proc \in Seq(Packet) /\ Len(proc) <= Room - Slack
  /\ back \in Seq(Packet) /\ Len(back) < Room
  /\ lastIndex \in Packet /\ pauseSign \in BOOLEAN
  /\ recordLostNum \in 0..MaxIndex /\ getLostNum \in Nat
  /\ recvBuf \in [1..Room -> Nat \cup {None}]
  /\ {recvBufP, reg, count} \subseteq 0..Wrap - 1
  /\ recvBuf_lock \in {None, "recvData", "app"}
  /\ app \in {"idle", "test", "copyAll", "readLen", "zero", "copy", "shift", "load", "store"}
  /\ want \in 0..MaxWant
  /\ data \in Seq(Nat \cup {None})
  /\ arrived \subseteq Packet /\ lastRead \in -1..MaxIndex
  /\ owed \in 0..Room
  /\ {intact, spoilt, clashed} \subseteq BOOLEAN

DataInit ==
  /\ program \in {"master", "slave"}
  /\ sendIndex = 0
  /\ rpc = "wait" /\ proc = <<>> /\ back = <<>>
  /\ lastIndex = 0 /\ pauseSign = FALSE /\ recordLostNum = 0 /\ getLostNum = 0
  /\ recvBuf = Empty /\ recvBufP = 0 /\ recvBuf_lock = None /\ reg = 0
  /\ app = "idle" /\ want = 0 /\ data = <<>> /\ count = 0
  /\ arrived = {} /\ lastRead = -1 /\ owed = 0
  /\ intact = TRUE /\ spoilt = FALSE /\ clashed = FALSE

-----------------------------------------------------------------------------
(* recvData.                                                               *)

(* JEAN_send_master or JEAN_send_slave at the peer: a packet is sent once  *)
(* and never again, reg_buff's copy of it notwithstanding.                 *)
JEAN_send ==
  /\ sendIndex <= MaxIndex
  /\ sendIndex' = sendIndex + 1
  /\ UNCHANGED <<rpc, scanVars, recvBuf, recvBufP, recvBuf_lock, reg, app, readVars, histVars>>

(* A datagram arrives: any packet sent so far, perhaps not for the first   *)
(* time, or a GET.  Out of a pause, the back buffer is copied behind       *)
(* recvProcessBufP, which is not raised, and emptied; whether it fits there *)
(* is not tested.                                                          *)
Receive(d) ==
  LET grown == IF d = Get THEN proc ELSE Append(proc, d)
      kept  == IF Len(grown) > Room - Slack THEN <<>> ELSE grown
      most  == IF pauseSign THEN recordLostNum ELSE 0
      got   == IF pauseSign THEN getLostNum ELSE 0
  IN
  /\ rpc = "wait"
  /\ proc' = kept
  /\ recordLostNum' = most /\ getLostNum' = got
  /\ pauseSign' = (got < most - 1)
  /\ back' = IF pauseSign' THEN back ELSE <<>>
  /\ rpc' = IF ~pauseSign' /\ Len(kept) + Len(back) > Room THEN "overrun"
            ELSE IF kept = <<>> THEN "wait" ELSE "scan"
  /\ arrived' = arrived \cup ({d} \ {Get})
  /\ UNCHANGED <<sendIndex, lastIndex, recvBuf, recvBufP, recvBuf_lock, reg, app, readVars,
                 lastRead, owed, intact, clashed>>

Lost(d) == d - lastIndex

(* The packet the scan is at; the end of the scan.                         *)
At(d) == rpc = "scan" /\ d = Head(proc)

GoOn ==
  /\ proc' = Tail(proc)
  /\ rpc' = IF Len(proc) = 1 THEN "wait" ELSE "scan"

(* An old packet, or one received before.                                  *)
SkipOld(d) ==
  /\ At(d) /\ Lost(d) <= 0 /\ d # 0
  /\ GoOn
  /\ UNCHANGED <<sendIndex, back, lastIndex, pauseSign, recordLostNum, getLostNum,
                 recvBuf, recvBufP, recvBuf_lock, reg, app, readVars, histVars>>

Ahead(d) == At(d) /\ Lost(d) > 1 /\ d # 0

(* Whatever is in the back buffer will do.                                 *)
findIndexInBuf_Any(d) == back # <<>>

findIndexInBuf(d) == Contains(back, d)

(* The next packet had been set aside.  It is acknowledged and copied to   *)
(* the end of recvBuf, untested again, but recvBufP stays: it will be      *)
(* written over.                                                           *)
TakeBack(d) ==
  /\ Ahead(d) /\ findIndexInBuf(lastIndex + 1)
  /\ back' = RemoveFirst(back, lastIndex + 1)
  /\ lastIndex' = lastIndex + 1
  /\ rpc' = IF recvBufP < Room THEN "wait" ELSE "overrun"
  /\ UNCHANGED <<sendIndex, proc, pauseSign, recordLostNum, getLostNum,
                 recvBuf, recvBufP, recvBuf_lock, reg, app, readVars, histVars>>

(* The room in the back buffer is not tested.                              *)
SetAside_Untested(d) ==
  /\ Ahead(d) /\ ~findIndexInBuf(lastIndex + 1)
  /\ pauseSign' = TRUE
  /\ back' = back \o proc /\ proc' = <<>>
  /\ recordLostNum' = Max({recordLostNum, Lost(d)})
  /\ rpc' = "wait"
  /\ UNCHANGED <<sendIndex, lastIndex, getLostNum,
                 recvBuf, recvBufP, recvBuf_lock, reg, app, readVars, histVars>>

(* A packet is missing: the rest is set aside.                             *)
SetAside(d) ==
  /\ Ahead(d) /\ ~findIndexInBuf(lastIndex + 1)
  /\ pauseSign' = TRUE
  /\ IF Len(back) + Len(proc) < Room
       THEN back' = back \o proc /\ proc' = <<>>
       ELSE back' = <<>> /\ UNCHANGED proc
  /\ recordLostNum' = Max({recordLostNum, Lost(d)})
  /\ rpc' = "wait"
  /\ UNCHANGED <<sendIndex, lastIndex, getLostNum,
                 recvBuf, recvBufP, recvBuf_lock, reg, app, readVars, histVars>>

(* The next packet, or packet 0, whenever it comes.                        *)
Accept(d) ==
  /\ At(d) /\ (Lost(d) = 1 \/ d = 0)
  /\ lastIndex' = d
  /\ getLostNum' = IF pauseSign /\ Lost(d) = 1 THEN getLostNum + 1 ELSE getLostNum
  /\ rpc' = "room"
  /\ UNCHANGED <<sendIndex, proc, back, pauseSign, recordLostNum,
                 recvBuf, recvBufP, recvBuf_lock, reg, app, readVars, histVars>>

(* The test for room and what it leads to are outside the lock: a full     *)
(* buffer is emptied, however empty it is by then.                         *)
Full == (recvBufP + 1) % Wrap > Room

CheckRoom ==
  /\ rpc = "room"
  /\ rpc' = IF Full THEN "reset" ELSE "append"
  /\ UNCHANGED <<sendIndex, scanVars, recvBuf, recvBufP, recvBuf_lock, reg, app, readVars, histVars>>

Reset ==
  /\ rpc = "reset" /\ rpc' = "append"
  /\ recvBufP' = 0 /\ recvBuf' = Empty
  /\ clashed' = (clashed \/ app # "idle")
  /\ UNCHANGED <<sendIndex, scanVars, recvBuf_lock, reg, app, readVars,
                 arrived, lastRead, owed, intact>>

GoWild ==
  /\ rpc' = "wild"
  /\ UNCHANGED <<sendIndex, scanVars, recvBuf, recvBufP, recvBuf_lock, reg, app, readVars, histVars>>

AppendCopy ==
  /\ rpc = "append" /\ recvBuf_lock = None
  /\ \/ /\ recvBufP < Room
        /\ recvBuf' = [recvBuf EXCEPT ![recvBufP + 1] = Place(owed + 1)]
        /\ recvBuf_lock' = "recvData"
        /\ rpc' = "copied"
        /\ UNCHANGED <<sendIndex, scanVars, recvBufP, reg, app, readVars, histVars>>
     \/ recvBufP >= Room /\ GoWild

AppendLoad ==
  /\ rpc = "copied" /\ rpc' = "loaded"
  /\ reg' = recvBufP
  /\ UNCHANGED <<sendIndex, scanVars, recvBuf, recvBufP, recvBuf_lock, app, readVars, histVars>>

AppendStore ==
  /\ rpc = "loaded"
  /\ recvBufP' = (reg + 1) % Wrap
  /\ recvBuf_lock' = None
  /\ lastRead' = Head(proc)
  /\ owed' = IF spoilt THEN 0 ELSE owed + 1
  /\ GoOn
  /\ UNCHANGED <<sendIndex, back, lastIndex, pauseSign, recordLostNum, getLostNum,
                 recvBuf, reg, app, readVars, arrived, intact, clashed>>

-----------------------------------------------------------------------------
(* JEAN_recv_master, JEAN_recv_slave.                                      *)
Cells(n) == [i \in 1..n |-> recvBuf[i]]

Reads(from, to) == app = from /\ app' = to

(* The slave holds the mutex from its first test to its return, the master *)
(* only while it shifts the rest of the buffer down.                       *)
Release == recvBuf_lock' = IF program = "slave" THEN None ELSE recvBuf_lock

JEAN_recv(len) ==
  /\ Reads("idle", "test")
  /\ recvBufP # 0
  /\ want' = len
  /\ UNCHANGED <<sendIndex, rpc, scanVars, recvBuf, recvBufP, recvBuf_lock, reg,
                 data, count, histVars>>

(* The slave does not take the mutex either.                               *)
TestLen_Unlocked ==
  /\ Reads("test", IF recvBufP < want THEN "copyAll" ELSE "copy")
  /\ UNCHANGED <<sendIndex, rpc, scanVars, recvBuf, recvBufP, recvBuf_lock, reg, readVars, histVars>>

(* One packet too few is taken for enough.                                 *)
TestLen_OneShort ==
  /\ Reads("test", IF recvBufP + 1 < want THEN "copyAll" ELSE "copy")
  /\ \/ program = "slave" /\ recvBuf_lock = None /\ recvBuf_lock' = "app"
     \/ program = "master" /\ UNCHANGED recvBuf_lock
  /\ UNCHANGED <<sendIndex, rpc, scanVars, recvBuf, recvBufP, reg, readVars, histVars>>

TestLen ==
  /\ Reads("test", IF recvBufP < want THEN "copyAll" ELSE "copy")
  /\ \/ program = "slave" /\ recvBuf_lock = None /\ recvBuf_lock' = "app"
     \/ program = "master" /\ UNCHANGED recvBuf_lock
  /\ UNCHANGED <<sendIndex, rpc, scanVars, recvBuf, recvBufP, reg, readVars, histVars>>

CopyAll ==
  /\ Reads("copyAll", "readLen")
  /\ data' = Cells(recvBufP)
  /\ UNCHANGED <<sendIndex, rpc, scanVars, recvBuf, recvBufP, recvBuf_lock, reg,
                 want, count, histVars>>

ReadLen ==
  /\ Reads("readLen", "zero")
  /\ count' = recvBufP
  /\ UNCHANGED <<sendIndex, rpc, scanVars, recvBuf, recvBufP, recvBuf_lock, reg,
                 want, data, histVars>>

(* The call returns n packets, which ought to be the next ones owed.       *)
Return(n) ==
  /\ app' = "idle"
  /\ intact' = (intact /\ (spoilt \/ (n = Len(data) /\ data = [i \in 1..n |-> i])))
  /\ owed' = IF spoilt THEN 0 ELSE owed - n
  /\ want' = 0 /\ data' = <<>> /\ count' = 0
  /\ UNCHANGED <<sendIndex, rpc, scanVars, reg, arrived, lastRead, clashed>>

Zero ==
  /\ app = "zero"
  /\ recvBufP' = 0 /\ recvBuf' = Empty
  /\ Release
  /\ Return(count)

(* A call may ask for more than recvBuf holds; recvBufP then passes the    *)
(* test only if it has gone below zero.                                    *)
CopyLen ==
  /\ app = "copy"
  /\ \/ /\ want <= Room
        /\ app' = "shift"
        /\ data' = Cells(want)
        /\ UNCHANGED <<sendIndex, rpc, scanVars, recvBuf, recvBufP, recvBuf_lock, reg,
                       want, count, histVars>>
     \/ want > Room /\ GoWild

(* memcpy(recvBuf, recvBuf + len, recvBufP - len), in the master under the *)
(* lock.                                                                   *)
Shift ==
  /\ app = "shift"
  /\ program = "master" => recvBuf_lock = None
  /\ \/ /\ recvBufP \in want..Room
        /\ app' = "load"
        /\ recvBuf' = [i \in 1..Room |->
                         IF i <= recvBufP - want THEN recvBuf[i + want] ELSE None]
        /\ UNCHANGED <<sendIndex, rpc, scanVars, recvBufP, recvBuf_lock, reg, readVars, histVars>>
     \/ recvBufP \notin want..Room /\ GoWild

LoadLen ==
  /\ Reads("load", "store")
  /\ count' = recvBufP
  /\ UNCHANGED <<sendIndex, rpc, scanVars, recvBuf, recvBufP, recvBuf_lock, reg,
                 want, data, histVars>>

StoreLen ==
  /\ app = "store"
  /\ recvBufP' = (count - want) % Wrap
  /\ recvBuf' = [i \in 1..Room |-> IF recvBuf[i] = None THEN None ELSE Place(recvBuf[i] - want)]
  /\ Release
  /\ Return(want)

-----------------------------------------------------------------------------
(* The master's append falls between its copy out of recvBuf and the new   *)
(* recvBufP.                                                               *)
Overlap ==
  /\ program = "master"
  /\ app \in {"readLen", "zero", "load", "store"}
  /\ rpc \in {"copied", "loaded"}

Scan(d) == SkipOld(d) \/ TakeBack(d) \/ SetAside(d) \/ Accept(d)

recvData ==
  \/ \E d \in 0..sendIndex - 1 : Receive(d)
  \/ Receive(Get)
  \/ \E d \in Packet : Scan(d)
  \/ CheckRoom \/ Reset \/ AppendCopy \/ AppendLoad \/ AppendStore

Application ==
  \/ \E len \in 1..MaxWant : JEAN_recv(len)
  \/ TestLen \/ CopyAll \/ ReadLen \/ Zero
  \/ CopyLen \/ Shift \/ LoadLen \/ StoreLen

(* An access outside a buffer ends the program.                            *)
DataNext ==
  /\ rpc \notin {"wild", "overrun"}
  /\ JEAN_send \/ recvData \/ Application
  /\ spoilt' = (spoilt \/ Overlap \/ (rpc = "reset" /\ rpc' = "append"))
  /\ UNCHANGED program

DataSpec == DataInit /\ [][DataNext]_dataVars

-----------------------------------------------------------------------------
(* recvData has appended a packet to recvBuf.                              *)
Appends == rpc = "loaded" /\ rpc' \in {"wait", "scan"}

(* Packets go to the application in the order they were sent, none twice,  *)
(* and none before every earlier one has arrived, however the pause, the   *)
(* back buffer and duplicates have moved lastIndex - except for packet 0.  *)
(* It is taken whenever it comes, and the stream then goes on from it; and *)
(* it is not waited for: lastIndex is 0 from the start, as though it had   *)
(* been read, so that when it is lost the application's stream begins with *)
(* packet 1 and nothing tells.  Any other packet that is lost stops the    *)
(* stream: nothing asks for it again.                                      *)
NoUnseenGap ==
  [][Appends =>
       \/ lastRead' = 0
       \/ lastRead < lastRead' /\ lastRead + 1 .. lastRead' - 1 \subseteq arrived \cup {0}]_dataVars

(* What JEAN_recv returns is what recvData put into recvBuf, and the rest  *)
(* is still there, unless the buffer has been reset for want of room or,   *)
(* in the master, which does not lock there, an append fell between the    *)
(* copy and the new recvBufP.                                              *)
StreamIntact ==
  ~spoilt =>
    /\ intact
    /\ app = "idle" /\ rpc \notin {"copied", "loaded"} => owed = recvBufP /\ \A i \in 1..owed : recvBuf[i] = i

(* recvBufP stays inside the buffer, and no copy goes outside it, unless   *)
(* recvData reset it while a JEAN_recv was under way: recvBufP -= len then *)
(* goes below zero, the slave's lock notwithstanding.  (The copies of what *)
(* was set aside overrun their buffers without that.)                      *)
ReadsStayInRoom ==
  recvBufP > Room \/ rpc = "wild" => clashed

(* "pause status out!" (client-master/main.c:446): when a pause ends, the  *)
(* packets set aside are given back to the scan.                           *)
SetAsideIsKept ==
  [][pauseSign /\ ~pauseSign' => ToSet(back) \subseteq ToSet(proc')]_dataVars
=============================================================================
