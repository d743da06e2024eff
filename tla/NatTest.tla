------------------------------ MODULE NatTest -------------------------------
(***************************************************************************)
(* The NAT test: a server that listens at one (IP, port) at a time, takes  *)
(* Count datagrams there and moves on (src/server/main.c), and a client    *)
(* that sends Count datagrams to one address after another, with a pause   *)
(* after each burst (src/client/main.c, or the Android client).  Neither   *)
(* tells the other where it is.                                            *)
(***************************************************************************)
EXTENDS Naturals, Sequences

CONSTANTS
  Count,    \* datagrams in a burst: 20 on both sides
  MaxRun    \* how often the client program is started, one run after another

ASSUME NatAssumption == Count \in Nat \ {0} /\ MaxRun \in Nat \ {0}

VARIABLES
  up,                         \* the server runs
  port, port_flag, chang_ip,  \* the server's; port counts from PORT1
  taken,                      \* datagrams taken at this address (i)
  queued,                     \* datagrams waiting in the bound socket
  program,                    \* the client: "linux" or "android"
  run, burst, sent,           \* its run, burst and datagram
  recvFailed,                 \* history: a recvfrom has failed
  calm,                       \* history: nothing lost on the way, no pause too short, no error
  missed                      \* history: while calm, the bursts that met a closed address

serverSide == <<up, port, port_flag, chang_ip, taken>>
clientSide == <<program, run, burst, sent>>
natVars == <<serverSide, queued, clientSide, recvFailed, calm, missed>>

Addresses == {"ip1", "ip2"} \X (0 .. 2)

(* Where the server is, or where its bind has failed.                      *)
Bound == <<IF chang_ip = 0 THEN "ip1" ELSE "ip2", port>>

(* Where the client's bursts go: both IPs at each port, the first IP first.*)
LinuxBursts == <<<<"ip1", 0>>, <<"ip2", 0>>, <<"ip1", 1>>,
                 <<"ip2", 1>>, <<"ip1", 2>>, <<"ip2", 2>>>>

(* The Android client knows one IP only.                                   *)
AndroidBursts == <<<<"ip1", 0>>, <<"ip1", 1>>, <<"ip1", 2>>>>

Bursts == IF program = "linux" THEN LinuxBursts ELSE AndroidBursts

NatTypeOK ==
  /\ port \in 0 .. 2 /\ port_flag \in 0 .. 5 /\ chang_ip \in {0, 1}
  /\ taken \in 0 .. Count - 1
  /\ queued \in Nat
  /\ program \in {"linux", "android"} /\ {up, recvFailed, calm} \subseteq BOOLEAN
  /\ run \in 1 .. MaxRun /\ burst \in 1 .. Len(Bursts) /\ sent \in 0 .. Count
  /\ missed \subseteq [run: 1 .. MaxRun, at: Addresses]

NatInit ==
  /\ port = 0 /\ port_flag = 0 /\ chang_ip = 0
  /\ taken = 0 /\ queued = 0
  /\ run = 1 /\ burst = 1 /\ sent = 0
  /\ program \in {"linux", "android"}
  /\ up \in BOOLEAN  \* as the first bind succeeds or fails
  /\ recvFailed = FALSE /\ calm = up /\ missed = {}

-----------------------------------------------------------------------------
(* The port is reset one too late.                                         *)
MoveOn_LateReset ==
  \/ /\ port_flag % 2 = 0
     /\ port_flag' = port_flag + 1
     /\ chang_ip' = 1 - chang_ip
     /\ UNCHANGED port
  \/ /\ port_flag % 2 # 0 /\ port <= 2
     /\ port' = port + 1
     /\ port_flag' = port_flag + 1
     /\ chang_ip' = 1 - chang_ip
  \/ /\ port_flag % 2 # 0 /\ port > 2
     /\ port' = 0
     /\ port_flag' = 1
     /\ chang_ip' = 1

(* The port advances at every step.                                        *)
MoveOn_PortOnly ==
  /\ port' = (port + 1) % 3
  /\ port_flag' = (port_flag + 1) % 6
  /\ chang_ip' = 1 - chang_ip

(* The next address: every second time the next port, and the other IP.    *)
(* The reset at the end of a cycle is done before port_flag is incremented *)
(* and chang_ip inverted, so that a later cycle begins where its second    *)
(* address should be.                                                      *)
MoveOn ==
  \/ /\ port_flag % 2 = 0
     /\ port_flag' = port_flag + 1
     /\ chang_ip' = 1 - chang_ip
     /\ UNCHANGED port
  \/ /\ port_flag % 2 # 0 /\ port < 2
     /\ port' = port + 1
     /\ port_flag' = port_flag + 1
     /\ chang_ip' = 1 - chang_ip
  \/ /\ port_flag % 2 # 0 /\ port >= 2
     /\ port' = 0
     /\ port_flag' = 1
     /\ chang_ip' = 1

(* One more of Count.  After the last, the socket is closed with whatever  *)
(* is still queued in it; when the next bind fails, the server returns.    *)
Counts(left) ==
  \/ /\ taken + 1 < Count
     /\ taken' = taken + 1
     /\ queued' = left
     /\ UNCHANGED <<up, port, port_flag, chang_ip>>
  \/ /\ taken + 1 = Count
     /\ taken' = 0
     /\ queued' = 0
     /\ MoveOn
     /\ up' \in BOOLEAN

TakeDatagram ==
  /\ up /\ queued > 0
  /\ Counts(queued - 1)
  /\ calm' = (calm /\ up')
  /\ UNCHANGED <<clientSide, recvFailed, missed>>

(* The result of recvfrom is not tested: an error counts as a datagram.    *)
RecvFails ==
  /\ up
  /\ Counts(queued)
  /\ recvFailed' = TRUE /\ calm' = FALSE
  /\ UNCHANGED <<clientSide, missed>>

Heard == up /\ Bursts[burst] = Bound

(* One datagram of a burst.                                                *)
SendDatagram ==
  /\ sent < Count
  /\ sent' = sent + 1
  /\ \/ /\ Heard
        /\ queued' = queued + 1
        /\ UNCHANGED <<calm, missed>>
     \/ /\ ~Heard
        /\ missed' = IF calm THEN missed \cup {[run |-> run, at |-> Bursts[burst]]} ELSE missed
        /\ UNCHANGED <<queued, calm>>
     \/ /\ calm' = FALSE  \* the datagram is lost on its way
        /\ UNCHANGED <<queued, missed>>
  /\ UNCHANGED <<program, run, burst, recvFailed, serverSide>>

(* The pause after a burst, and the next one or the next run.  It is meant *)
(* to be long enough for the server to take what has reached it.           *)
Pause ==
  /\ sent = Count
  /\ calm' = (calm /\ queued = 0)
  /\ sent' = 0
  /\ \/ burst < Len(Bursts) /\ burst' = burst + 1 /\ UNCHANGED run
     \/ burst = Len(Bursts) /\ run < MaxRun /\ burst' = 1 /\ run' = run + 1
  /\ UNCHANGED <<serverSide, queued, program, recvFailed, missed>>

NatNext == TakeDatagram \/ RecvFails \/ SendDatagram \/ Pause

NatSpec == NatInit /\ [][NatNext]_natVars

-----------------------------------------------------------------------------
(* The linux client's first run against a fresh server is heard            *)
(* completely: client and server, which never speak of it, are at the same *)
(* address in every burst.  A later run loses its burst to the first       *)
(* address, where the server no longer goes, and falls back into step with *)
(* the second.                                                             *)
LinuxKeepsStep ==
  program = "linux" => \A m \in missed : m.run > 1 /\ m.at = <<"ip1", 0>>

(* The Android client sends to one IP only: the server never comes past    *)
(* its second address, whatever is sent, lost or delayed, and the test     *)
(* cannot finish - unless errors of recvfrom count for datagrams there.    *)
AndroidStalls ==
  program = "android" /\ ~recvFailed => Bound \in {<<"ip1", 0>>, <<"ip2", 0>>}

(* Whatever is lost or late, the server goes through the addresses in the  *)
(* client's order, starting again from the second one.                     *)
Following(a) ==
  CHOOSE b \in Addresses : \E k \in 1 .. 6 :
    /\ LinuxBursts[k] = a
    /\ b = LinuxBursts[IF k = 6 THEN 2 ELSE k + 1]

KeepsTheOrder == [][Bound' # Bound => Bound' = Following(Bound)]_natVars
=============================================================================
