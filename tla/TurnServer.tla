----------------------------- MODULE TurnServer -----------------------------
(***************************************************************************)
(* The stand-alone TURN programs of turn-src.  The server has a thread for *)
(* the master's port and one for the slaves'; both parse a login, a name,  *)
(* a comma and a password, into the same n, Uname and Passwd, without a    *)
(* lock, and tell each other of it by Verify_master, Verify_slave and      *)
(* Start_send.  The master is answered in single bytes on a stream: its    *)
(* own verdict, and later the slave's.  A byte of value 0 is never sent:   *)
(* the length of what is sent is its strlen.                               *)
(*                                                                         *)
(* Of a character it matters whether it is the right one for its place in  *)
(* the name or the password.  Uname, Passwd, buff and buffer are one       *)
(* memory, in this order and without gaps, as in natserver, the binary     *)
(* beside the source: what is written past one lands in the next.          *)
(* A step has one access to a shared variable, a memcpy being one.         *)
(***************************************************************************)
EXTENDS Integers, Sequences, FiniteSets

CONSTANTS
  Slaves,      \* runs of the slave program
  Size,        \* of Uname and Passwd; buff and buffer have twice that
  RightName, RightPass,  \* lengths of the right name and password
  Logins,      \* what may be sent: which characters are right, and how many there are
  None

ASSUME TurnServerAssumption ==
  /\ Size \in Nat /\ RightName \in 1 .. Size - 1 /\ RightPass \in 1 .. Size - 1
  /\ Logins \subseteq [name: Seq(BOOLEAN), pass: Seq(BOOLEAN)]
  /\ \A l \in Logins : Len(l.name) \in 1 .. Size - 1 /\ Len(l.pass) \in 1 .. Size - 1
  /\ None \notin Logins

Thread == {"master", "slave"}

(* Characters.                                                             *)
Nul         == 0
Comma       == 1
Other       == 2
NameChar(i) == 2 + i
PassChar(i) == 2 + Size + i

VARIABLES
  pc,                 \* where wait_for_master and wait_for_slave are
  mem, n,             \* shared by the two
  k,                  \* of each
  login,              \* what each thread was sent, None if nothing
  Verify_master, Verify_slave, Start_send,
  slave_info,         \* the second byte of a slave's answer
  peer,               \* the slave program being answered
  relaying,           \* recv_data runs, perhaps without its port
  mpc, toMaster,      \* the master program; bytes on their way to it
  slave,              \* the slave programs
  heard,    \* history: logins each thread has received
  mixed,    \* history: the other thread was parsing as well
  merged,   \* history: one recv took the verdict and the slave's byte
  unsaid    \* history: Verify_slave fell between its test and the send

parseVars  == <<mem, n, k, login, heard, mixed>>
flagVars   == <<Verify_master, Verify_slave, Start_send, slave_info, unsaid>>
clientVars == <<mpc, toMaster, merged, slave, peer>>
tsVars     == <<pc, parseVars, flagVars, clientVars, relaying>>

(* Where the arrays are: Uname at 0, Passwd at Size, then buff and buffer. *)
Mem        == 0 .. 6 * Size - 1
Buffer(t)  == IF t = "master" THEN 2 * Size ELSE 4 * Size
Offset     == 0 .. 2 * Size - 1

ServerTypeOK ==
  /\ pc \in [Thread -> {"off", "accept", "cut", "name", "endName", "pass", "end", "testName",
                        "testPass", "info", "poll", "slaveInfo", "start", "adrift", "stop",
                        "ready", "absent", "send", "dead"}]
  /\ mem \in [Mem -> Nat] /\ n \in -1 .. 2 * Size - 1 /\ k \in [Thread -> Offset]
  /\ login \in [Thread -> Logins \cup {None}]
  /\ {Verify_master, Verify_slave, Start_send} \subseteq {0, 1} /\ slave_info \in 0 .. 2
  /\ relaying \in {"no", "yes", "deaf"} /\ {merged, unsaid} \subseteq BOOLEAN
  /\ mpc \in {"new", "verify", "peer", "ready", "sent", "failed"} /\ toMaster \in 0 .. 2
  /\ slave \in [Slaves -> {"new", "waiting", "listening", "closed"}] /\ peer \in Slaves
  /\ heard \in [Thread -> SUBSET Logins] /\ mixed \in [Thread -> BOOLEAN]

ServerInit ==
  /\ pc = [t \in Thread |-> "off"]
  /\ mem = [i \in Mem |-> Nul] /\ n = 0 /\ k = [t \in Thread |-> 0]
  /\ login = [t \in Thread |-> None]
  /\ Verify_master = 0 /\ Verify_slave = 0 /\ Start_send = 0
  /\ slave_info \in 0 .. 2  \* not initialised
  /\ relaying = "no" /\ mpc = "new" /\ toMaster = 0
  /\ slave = [s \in Slaves |-> "new"] /\ peer \in Slaves
  /\ heard = [t \in Thread |-> {}] /\ mixed = [t \in Thread |-> FALSE]
  /\ merged = FALSE /\ unsaid = FALSE

-----------------------------------------------------------------------------
Length(l) == Len(l.name) + 1 + Len(l.pass)

(* The i-th character of a login, from 0.                                  *)
Char(l, i) ==
  IF i < Len(l.name)
  THEN IF l.name[i + 1] /\ i < RightName THEN NameChar(i + 1) ELSE Other
  ELSE IF i = Len(l.name) THEN Comma
  ELSE LET j == i - Len(l.name) IN IF l.pass[j] /\ j <= RightPass THEN PassChar(j) ELSE Other

Poke(at)            == mem' = [i \in Mem |-> IF i = at THEN Nul ELSE mem[i]]
Copy(to, from, len) == mem' = [i \in Mem |-> IF i \in to .. to + len - 1 THEN mem[from + i - to]
                                             ELSE mem[i]]

(* strcmp.                                                                 *)
IsRightName == mem[RightName] = Nul /\ \A i \in 1 .. RightName : mem[i - 1] = NameChar(i)

(* As many characters are compared as there are in Passwd.                 *)
IsRightPass_SoFar ==
  \E m \in 0 .. RightPass : mem[Size + m] = Nul /\ \A i \in 1 .. m : mem[Size + i - 1] = PassChar(i)

IsRightPass ==
  mem[Size + RightPass] = Nul /\ \A i \in 1 .. RightPass : mem[Size + i - 1] = PassChar(i)

Goes(t, from, to) == pc[t] = from /\ pc' = [pc EXCEPT ![t] = to]

Parsing(t) == pc[t] \in {"cut", "name", "endName", "pass", "end", "testName", "testPass"}

Dead == \E t \in Thread : pc[t] = "dead"

Listen(t) ==
  /\ Goes(t, "off", "accept")
  /\ UNCHANGED <<parseVars, flagVars, clientVars, relaying>>

(* wait_for_master goes on without a connection, wait_for_slave ends.      *)
AcceptFails(t) ==
  /\ Goes(t, "accept", IF t = "master" THEN "adrift" ELSE "stop")
  /\ UNCHANGED <<parseVars, flagVars, clientVars, relaying>>

(* accept, and what recv, which is tested by nobody, returns: a login; or  *)
(* 0 or -1 from a client that has gone without sending one.                *)
Recv(t, l) ==
  /\ Goes(t, "accept", "cut")
  /\ login' = [login EXCEPT ![t] = l]
  /\ \/ /\ l = None /\ n' \in {-1, 0} /\ UNCHANGED <<mem, heard>>
     \/ /\ l # None /\ n' = Length(l)
        /\ mem' = [i \in Mem |-> IF i \in Buffer(t) .. Buffer(t) + Length(l) - 1
                                 THEN Char(l, i - Buffer(t)) ELSE mem[i]]
        /\ heard' = [heard EXCEPT ![t] = @ \cup {l}]
  /\ mixed' = [u \in Thread |-> IF u = t THEN \E o \in Thread \ {t} : Parsing(o)
                                ELSE mixed[u] \/ Parsing(u)]
  /\ UNCHANGED <<k, flagVars, relaying>>

parseRest == <<login, heard, mixed, flagVars, clientVars, relaying>>

(* buff[n] = '\0', with whatever n is by now.  k is then the place of the  *)
(* last comma in all of the buffer, what is left of earlier logins         *)
(* included, or stays as it was.                                           *)
CutBuff(t) ==
  /\ Goes(t, "cut", "name")
  /\ Poke(Buffer(t) + n)
  /\ LET IsComma(i) == mem'[Buffer(t) + i] = Comma
     IN \/ (\A i \in Offset : ~IsComma(i)) /\ UNCHANGED k
        \/ \E c \in Offset : /\ IsComma(c) /\ \A i \in Offset : i > c => ~IsComma(i)
                             /\ k' = [k EXCEPT ![t] = c]
  /\ UNCHANGED <<n, parseRest>>

CopyName(t) ==
  /\ Goes(t, "name", "endName")
  /\ Copy(0, Buffer(t), k[t])
  /\ UNCHANGED <<n, k, parseRest>>

EndName(t) ==
  /\ Goes(t, "endName", "pass")
  /\ Poke(k[t])
  /\ UNCHANGED <<n, k, parseRest>>

PassLen(t) == n - k[t] - 1

CopyPass(t) ==
  /\ PassLen(t) >= 0 /\ Goes(t, "pass", "end")
  /\ Copy(Size, Buffer(t) + k[t] + 1, PassLen(t))
  /\ UNCHANGED <<n, k, parseRest>>

(* memcpy gets a negative length: the server is killed.                    *)
Dies(t) ==
  /\ PassLen(t) < 0 /\ Goes(t, "pass", "dead")
  /\ UNCHANGED <<parseVars, flagVars, clientVars, relaying>>

(* The copy is not terminated.                                             *)
EndPass_Unended(t) ==
  /\ Goes(t, "end", "testName")
  /\ UNCHANGED <<mem, n, k, parseRest>>

EndPass(t) ==
  /\ Goes(t, "end", "testName")
  /\ Poke(Size + PassLen(t))
  /\ UNCHANGED <<n, k, parseRest>>

(* The verdict, on what is in Uname and then in Passwd.                    *)
Verdict(t, v) ==
  /\ pc' = [pc EXCEPT ![t] = IF t = "master" THEN "info" ELSE "ready"]
  /\ IF t = "master" THEN Verify_master' = v /\ UNCHANGED Verify_slave
                     ELSE Verify_slave' = v /\ UNCHANGED Verify_master
  /\ UNCHANGED <<Start_send, slave_info, unsaid>>

TestName(t) ==
  /\ \/ ~IsRightName /\ pc[t] = "testName" /\ Verdict(t, 0)
     \/ IsRightName /\ Goes(t, "testName", "testPass") /\ UNCHANGED flagVars
  /\ UNCHANGED <<parseVars, clientVars, relaying>>

TestPass(t) ==
  /\ pc[t] = "testPass"
  /\ Verdict(t, IF IsRightPass THEN 1 ELSE 0)
  /\ UNCHANGED <<parseVars, clientVars, relaying>>

Parse(t) ==
  \/ CutBuff(t) \/ CopyName(t) \/ EndName(t) \/ CopyPass(t) \/ Dies(t) \/ EndPass(t)
  \/ TestName(t) \/ TestPass(t)

-----------------------------------------------------------------------------
(* The byte is 1 whatever the verdict.                                     *)
SendInfo_AlwaysOne ==
  /\ Goes("master", "info", "poll")
  /\ toMaster' = toMaster + 1
  /\ UNCHANGED <<parseVars, flagVars, mpc, merged, slave, peer, relaying>>

(* wait_for_master, which takes one login.                                 *)
SendInfo ==
  /\ Goes("master", "info", "poll")
  /\ toMaster' = toMaster + Verify_master
  /\ UNCHANGED <<parseVars, flagVars, mpc, merged, slave, peer, relaying>>

(* The flag is tested once.                                                *)
PollSlave_Once ==
  /\ Goes("master", "poll", IF Verify_slave = 1 THEN "slaveInfo" ELSE "stop")
  /\ UNCHANGED <<parseVars, flagVars, clientVars, relaying>>

PollSlave ==
  /\ Verify_slave = 1
  /\ Goes("master", "poll", "slaveInfo")
  /\ UNCHANGED <<parseVars, flagVars, clientVars, relaying>>

(* The byte says what the flag is by now, which a later login may clear.   *)
SendSlaveInfo ==
  /\ Goes("master", "slaveInfo", "start")
  /\ toMaster' = toMaster + Verify_slave
  /\ unsaid' = (Verify_slave = 0)
  /\ UNCHANGED <<parseVars, Verify_master, Verify_slave, Start_send, slave_info,
                 mpc, merged, slave, peer, relaying>>

(* The loop goes on.                                                       *)
StartSend_NoBreak ==
  /\ Goes("master", "start", "poll")
  /\ Start_send' = 1
  /\ UNCHANGED <<parseVars, Verify_master, Verify_slave, slave_info, unsaid, clientVars, relaying>>

StartSend ==
  /\ Goes("master", "start", "stop")
  /\ Start_send' = 1
  /\ UNCHANGED <<parseVars, Verify_master, Verify_slave, slave_info, unsaid, clientVars, relaying>>

(* Where accept failed there is nobody to send to: the thread ends.        *)
LeaveAdrift ==
  /\ Verify_slave = 1
  /\ Goes("master", "adrift", "stop")
  /\ UNCHANGED <<parseVars, flagVars, clientVars, relaying>>

(* main starts recv_data, which goes on whether or not it gets its port.   *)
StartRecvData ==
  /\ Start_send = 1 /\ relaying = "no"
  /\ relaying' \in {"yes", "deaf"}
  /\ UNCHANGED <<pc, parseVars, flagVars, clientVars>>

(* wait_for_slave's answer.  Verify_master is tested twice: when it rises  *)
(* in between, the byte is what it was.                                    *)
TellReady ==
  /\ \/ Verify_master = 1 /\ Goes("slave", "ready", "send") /\ slave_info' = 1
     \/ Verify_master # 1 /\ Goes("slave", "ready", "absent") /\ UNCHANGED slave_info
  /\ UNCHANGED <<parseVars, Verify_master, Verify_slave, Start_send, unsaid, clientVars, relaying>>

TellAbsent ==
  /\ Goes("slave", "absent", "send")
  /\ slave_info' = IF Verify_master = 0 THEN 2 ELSE slave_info
  /\ UNCHANGED <<parseVars, Verify_master, Verify_slave, Start_send, unsaid, clientVars, relaying>>

(* Any answer of two bytes will do.                                        *)
Answer_LengthOnly ==
  /\ Goes("slave", "send", "accept")
  /\ slave' = [slave EXCEPT ![peer] =
                 IF Verify_slave = 0 \/ @ = "closed" THEN @ ELSE IF slave_info # 0 THEN "listening" ELSE "closed"]
  /\ UNCHANGED <<parseVars, flagVars, mpc, toMaster, merged, peer, relaying>>

(* The answer and the slave program's wait_for_callback.  A refused login  *)
(* is sent nothing, and waits.                                             *)
Answer ==
  /\ Goes("slave", "send", "accept")
  /\ slave' = [slave EXCEPT ![peer] =
                 IF Verify_slave = 0 \/ @ = "closed" THEN @ ELSE IF slave_info = 1 THEN "listening" ELSE "closed"]
  /\ UNCHANGED <<parseVars, flagVars, mpc, toMaster, merged, peer, relaying>>

-----------------------------------------------------------------------------
(* The client programs.                                                    *)
MasterLogin(l) ==
  /\ mpc = "new" /\ mpc' = (IF l = None THEN "failed" ELSE "verify")
  /\ Recv("master", l)
  /\ UNCHANGED <<toMaster, merged, slave, peer>>

SlaveLogin(s, l) ==
  /\ slave[s] = "new"
  /\ slave' = [slave EXCEPT ![s] = IF l = None THEN "closed" ELSE "waiting"]
  /\ peer' = s
  /\ Recv("slave", l)
  /\ UNCHANGED <<mpc, toMaster, merged>>

(* Nobody listens yet: five connects fail at once, and the recv after them.*)
MasterFails ==
  /\ mpc = "new" /\ pc["master"] = "off" /\ mpc' = "failed"
  /\ UNCHANGED <<pc, parseVars, flagVars, toMaster, merged, slave, peer, relaying>>

SlaveFails(s) ==
  /\ slave[s] = "new" /\ pc["slave"] = "off" /\ slave' = [slave EXCEPT ![s] = "closed"]
  /\ UNCHANGED <<pc, parseVars, flagVars, mpc, toMaster, merged, peer, relaying>>

(* wait_for_callback takes every byte that is there, and looks at one.     *)
MasterVerify ==
  /\ mpc = "verify" /\ toMaster > 0
  /\ mpc' = "peer"
  /\ toMaster' = 0 /\ merged' = (toMaster > 1)
  /\ UNCHANGED <<pc, parseVars, flagVars, slave, peer, relaying>>

(* wait_for_peer.                                                          *)
MasterPeer ==
  /\ mpc = "peer" /\ toMaster > 0
  /\ mpc' = "ready" /\ toMaster' = 0
  /\ UNCHANGED <<pc, parseVars, flagVars, merged, slave, peer, relaying>>

(* transmit_data, whose file the server passes on once it relays.          *)
Transmit ==
  /\ mpc = "ready" /\ mpc' = "sent"
  /\ UNCHANGED <<pc, parseVars, flagVars, toMaster, merged, slave, peer, relaying>>

(* The server is gone: recv returns nothing.                               *)
MasterCutOff ==
  /\ Dead /\ mpc \in {"verify", "peer"} /\ toMaster = 0
  /\ mpc' = "failed"
  /\ UNCHANGED <<pc, parseVars, flagVars, toMaster, merged, slave, peer, relaying>>

SlaveCutOff(s) ==
  /\ Dead /\ slave[s] = "waiting" /\ slave' = [slave EXCEPT ![s] = "closed"]
  /\ UNCHANGED <<pc, parseVars, flagVars, mpc, toMaster, merged, peer, relaying>>

MasterThread ==
  Parse("master") \/ SendInfo \/ PollSlave \/ SendSlaveInfo \/ StartSend \/ LeaveAdrift
SlaveThread   == Parse("slave") \/ TellReady \/ TellAbsent \/ Answer
MasterProgram == MasterVerify \/ MasterPeer \/ Transmit \/ MasterCutOff

Server ==
  \/ \E t \in Thread : Listen(t) \/ AcceptFails(t)
  \/ MasterThread \/ SlaveThread \/ StartRecvData
  \/ \E l \in Logins \cup {None} : MasterLogin(l) \/ \E s \in Slaves : SlaveLogin(s, l)

ServerNext ==
  \/ ~Dead /\ Server
  \/ MasterProgram \/ MasterFails
  \/ \E s \in Slaves : SlaveFails(s) \/ SlaveCutOff(s)

(* The threads run on; when, and whether, anybody logs in is up to them.   *)
ServerSpec ==
  /\ ServerInit /\ [][ServerNext]_tsVars
  /\ WF_tsVars(~Dead /\ MasterThread) /\ WF_tsVars(~Dead /\ SlaveThread)
  /\ WF_tsVars(~Dead /\ StartRecvData)
  /\ WF_tsVars(MasterProgram)

-----------------------------------------------------------------------------
IsRight(l) ==
  /\ l # None
  /\ Len(l.name) = RightName /\ \A i \in 1 .. RightName : l.name[i]
  /\ Len(l.pass) = RightPass /\ \A i \in 1 .. RightPass : l.pass[i]

(* A login that is parsed while the other thread parses none gets the      *)
(* verdict it deserves, whatever was in the buffers before, or kills the   *)
(* server; which it does only if it is shorter than the name of an earlier *)
(* one was, whose comma it leaves in the buffer, or if nothing was sent.   *)
VerdictIsRight ==
  /\ pc["master"] \in {"info", "poll", "slaveInfo", "start", "stop"} /\ ~mixed["master"]
       => (Verify_master = 1 <=> IsRight(login["master"]))
  /\ pc["slave"] \in {"ready", "absent", "send"} /\ ~mixed["slave"]
       => (Verify_slave = 1 <=> IsRight(login["slave"]))
  /\ \A t \in Thread : pc[t] = "dead" =>
       \/ mixed[t] \/ login[t] = None
       \/ \E l \in heard[t] : Len(l.name) > Length(login[t])

(* However two logins are mixed in the shared strings, and with what is    *)
(* left of earlier ones, nobody is let in unless every character of the    *)
(* right name, and of the right password, has been sent at its place.      *)
(* (No more is true: they may be of several logins, and longer ones.)      *)
NothingIsInvented ==
  Verify_master = 1 \/ Verify_slave = 1 =>
    LET All == heard["master"] \cup heard["slave"]
    IN /\ \A i \in 1 .. RightName : \E l \in All : i <= Len(l.name) /\ l.name[i]
       /\ \A i \in 1 .. RightPass : \E l \in All : i <= Len(l.pass) /\ l.pass[i]

(* The master program transmits only after its own login was accepted and  *)
(* a slave's: the two bytes it takes for that are alike, and either may be *)
(* missing, but one alone never gets it there.                             *)
TransmitsOnlyIfVerified ==
  mpc \in {"ready", "sent"} => Verify_master = 1 /\ pc["master"] \in {"start", "stop"}

(* A slave program that waits for data was told so with the master logged  *)
(* in, even where its byte was left as it was.                             *)
ListensOnlyToMaster ==
  (\E s \in Slaves : slave[s] = "listening") => Verify_master = 1

(* Once both are logged in to stay, the master transmits and the server    *)
(* relays, unless one recv took both bytes or a later slave's failure came *)
(* between the server's test and its send; or the master has gone, the     *)
(* server was killed, or recv_data did not get its port.                   *)
PairMeets ==
  <>[](Verify_master = 1 /\ Verify_slave = 1)
    => <>(\/ relaying = "yes" /\ (mpc = "sent" \/ merged \/ unsaid)
          \/ relaying = "deaf" \/ mpc = "failed" \/ Dead)
=============================================================================
