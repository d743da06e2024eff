------------------------------ MODULE CmdRelay ------------------------------
(***************************************************************************)
(* The TCP relay of the P2P server: the main thread's CMD_CHAN handler and *)
(* cmdThread, which share plain global flags, and the client programs that *)
(* ask for the channel by UDP and then connect to it.  CONTROL_CHAN and    *)
(* controlThread are the same code over flags of their own, with one more  *)
(* assignment; channel says which of the two a behaviour is about.         *)
(*                                                                         *)
(* A step holds at most one access to a flag that the other thread writes, *)
(* save that adjacent writes by the main thread are one step.  What is     *)
(* relayed is not here, nor is cmdThread_recv2, which relays the other way *)
(* and writes no flag, except that its send, too, can end the server.      *)
(***************************************************************************)
EXTENDS Naturals, Sequences, FiniteSets

CONSTANTS
  MRuns, SRuns,  \* runs of the master and of the slave program, each with one connection
  Thread,        \* thread identities; two, to see whether a second one can start
  None

Runs == MRuns \cup SRuns

ASSUME RelayAssumption ==
  /\ MRuns \cap SRuns = {}
  /\ None \notin Runs \cup Thread

VARIABLES
  channel,      \* "cmd" or "control"
  asker,        \* the master whose request the main thread is serving, or None
  cmdSign, connectSign, peerInSign, cmdThreadRunning,
  thread,       \* where each relay thread is
  c1fd, c2fd,   \* the accepted connections
  listener,     \* the thread whose listening socket has the port, or None
  backlog,      \* connections not yet accepted
  timeWait,     \* the port is held by a connection the server closed first
  acceptFailed, \* history: an accept has returned -1
  requests,     \* CMD_CHAN datagrams, which may arrive late and more than once
  prog          \* where each run of a client program is

flags == <<cmdSign, connectSign, peerInSign, cmdThreadRunning>>
socks == <<c1fd, c2fd, listener, backlog, timeWait, acceptFailed>>
progs == <<requests, prog>>
relayVars == <<channel, asker, flags, thread, socks, progs>>

RelayTypeOK ==
  /\ channel \in {"cmd", "control"}
  /\ asker \in MRuns \cup {None}
  /\ {cmdSign, connectSign, peerInSign, cmdThreadRunning} \subseteq BOOLEAN
  /\ {timeWait, acceptFailed} \subseteq BOOLEAN
  /\ thread \in [Thread -> {"idle", "new", "test", "accept1", "accept2", "in", "up",
                            "relay", "recv", "hangup", "leave", "last", "killed"}]
  /\ {c1fd, c2fd} \subseteq
       IF \E t \in Thread : thread[t] \in {"relay", "recv", "hangup"}
       THEN Runs ELSE Runs \cup {None}
  /\ listener \in Thread \cup {None}
  /\ backlog \in Seq(Runs)
  /\ requests \subseteq Runs
  /\ prog \in [Runs -> {"idle", "asking", "answered", "connected", "failed", "closed"}]

RelayInit ==
  /\ channel \in {"cmd", "control"}
  /\ asker = None
  /\ cmdSign = FALSE /\ connectSign = FALSE
  /\ peerInSign = FALSE /\ cmdThreadRunning = FALSE
  /\ thread = [t \in Thread |-> "idle"]
  /\ c1fd = None /\ c2fd = None
  /\ listener = None /\ backlog = <<>> /\ timeWait = FALSE
  /\ acceptFailed = FALSE
  /\ requests = {}
  /\ prog = [r \in Runs |-> "idle"]

-----------------------------------------------------------------------------
(* No signal has ended the server.                                         *)
Running == \A t \in Thread : thread[t] # "killed"

(* The client programs.                                                    *)

Becomes(r, from, to) ==
  /\ prog[r] = from
  /\ prog' = [prog EXCEPT ![r] = to]

(* Send_CMDOPEN, repeated: a repetition is the same request taken again.   *)
AskChannel(r) ==
  /\ Becomes(r, "idle", "asking")
  /\ requests' = requests \cup {r}
  /\ UNCHANGED <<channel, asker, flags, thread, socks>>

(* Any GET_REQ is taken for the answer, a keep-alive's included.           *)
MistakeAnswer(r) ==
  /\ Becomes(r, "asking", "answered")
  /\ UNCHANGED <<channel, asker, flags, thread, socks, requests>>

GiveUp(r) ==
  /\ Becomes(r, "asking", "failed")
  /\ UNCHANGED <<channel, asker, flags, thread, socks, requests>>

init_CMD_CHAN(r) ==
  /\ \/ /\ listener # None
        /\ Becomes(r, "answered", "connected")
        /\ backlog' = Append(backlog, r)
     \/ /\ listener = None
        /\ Becomes(r, "answered", "failed")
        /\ UNCHANGED backlog
  /\ UNCHANGED <<channel, asker, flags, thread, c1fd, c2fd, listener, timeWait, acceptFailed, requests>>

close_CMD_CHAN(r) ==
  /\ Becomes(r, "connected", "closed")
  /\ UNCHANGED <<channel, asker, flags, thread, socks, requests>>

-----------------------------------------------------------------------------
(* The main thread's CMD_CHAN handler.                                     *)

(* Send_CMD(GET_REQ, 0x1), which may be lost: then the client asks again.  *)
AnswerTo(r) == prog' = IF prog[r] = "asking" THEN [prog EXCEPT ![r] = "answered"] ELSE prog

ServeSlave(r) ==
  /\ asker = None /\ r \in requests \cap SRuns
  /\ cmdSign' = TRUE
  /\ IF cmdThreadRunning THEN AnswerTo(r) ELSE UNCHANGED prog
  /\ UNCHANGED <<channel, asker, connectSign, peerInSign, cmdThreadRunning, thread, socks, requests>>

ServeMaster(r) ==
  /\ asker = None /\ r \in requests \cap MRuns
  /\ asker' = r
  /\ cmdSign' = TRUE
  /\ UNCHANGED <<channel, connectSign, peerInSign, cmdThreadRunning, thread, socks, progs>>

(* The relay in progress is not told to stop, only not to accept again.    *)
Spin_Halfway ==
  /\ asker # None /\ peerInSign
  /\ cmdSign' = FALSE
  /\ UNCHANGED <<channel, asker, connectSign, peerInSign, cmdThreadRunning, thread, socks, progs>>

(* while(peerInSign == 1): end the relay in progress.  cmdSign is not set  *)
(* again afterwards.                                                       *)
Spin ==
  /\ asker # None /\ peerInSign
  /\ cmdSign' = FALSE
  /\ connectSign' = FALSE
  /\ UNCHANGED <<channel, asker, peerInSign, cmdThreadRunning, thread, socks, progs>>

(* The flag is left to the new thread.                                     *)
StartRelay_Unflagged ==
  /\ asker # None /\ ~peerInSign
  /\ \/ /\ ~cmdThreadRunning
        /\ \E t \in Thread : thread[t] = "idle" /\ thread' = [thread EXCEPT ![t] = "new"]
     \/ cmdThreadRunning /\ UNCHANGED thread
  /\ AnswerTo(asker)
  /\ asker' = None
  /\ UNCHANGED <<channel, flags, socks, requests>>

(* The request is answered whether or not a thread has been created.       *)
StartRelay ==
  /\ asker # None /\ ~peerInSign
  /\ \/ /\ ~cmdThreadRunning
        /\ cmdThreadRunning' = TRUE
        /\ \E t \in Thread : thread[t] = "idle" /\ thread' = [thread EXCEPT ![t] = "new"]
     \/ cmdThreadRunning /\ UNCHANGED <<cmdThreadRunning, thread>>
  /\ AnswerTo(asker)
  /\ asker' = None
  /\ UNCHANGED <<channel, cmdSign, connectSign, peerInSign, socks, requests>>

(* MASTER_QUIT, sent after the channel has been closed, and maybe late:    *)
(* it ends the command relay, whoever is using it by then, and leaves the  *)
(* control relay alone.                                                    *)
MasterQuits ==
  /\ asker = None
  /\ channel = "cmd"
  /\ \E r \in MRuns : prog[r] = "closed"
  /\ cmdSign' = FALSE
  /\ connectSign' = FALSE
  /\ UNCHANGED <<channel, asker, peerInSign, cmdThreadRunning, thread, socks, progs>>

-----------------------------------------------------------------------------
(* cmdThread.                                                              *)

Goes(t, from, to) ==
  /\ thread[t] = from
  /\ thread' = [thread EXCEPT ![t] = to]

(* socket, bind, listen.  A bind that fails is only printed: listen then   *)
(* takes some other port and accept blocks for ever.                       *)
OpenListener(t) ==
  \/ listener = None /\ listener' = t
  \/ (listener # None \/ timeWait) /\ UNCHANGED listener

cmdThread(t) ==
  /\ Goes(t, "new", "test")
  /\ cmdThreadRunning' = TRUE
  /\ OpenListener(t)
  /\ UNCHANGED <<channel, asker, cmdSign, connectSign, peerInSign, c1fd, c2fd, backlog, timeWait, acceptFailed, progs>>

controlThread(t) ==
  /\ Goes(t, "new", "test")
  /\ cmdThreadRunning' = TRUE
  /\ OpenListener(t)
  /\ peerInSign' = FALSE
  /\ UNCHANGED <<channel, asker, cmdSign, connectSign, c1fd, c2fd, backlog, timeWait, acceptFailed, progs>>

BeginThread(t) == IF channel = "cmd" THEN cmdThread(t) ELSE controlThread(t)

(* while(cmdSign == 1), and close(sfd) after it.                           *)
TestSign(t) ==
  /\ \/ cmdSign /\ Goes(t, "test", "accept1") /\ UNCHANGED <<listener, backlog>>
     \/ /\ ~cmdSign
        /\ Goes(t, "test", "leave")
        /\ listener' = IF listener = t THEN None ELSE listener
        /\ backlog'  = IF listener = t THEN <<>> ELSE backlog
  /\ UNCHANGED <<channel, asker, flags, c1fd, c2fd, timeWait, acceptFailed, progs>>

(* fd is what accept returns: the oldest waiting connection, or -1.        *)
Accepted(t, fd) ==
  \/ listener = t /\ backlog # <<>> /\ fd = Head(backlog) /\ backlog' = Tail(backlog)
  \/ fd = None /\ UNCHANGED backlog

AcceptFirst(t, fd) ==
  /\ Goes(t, "accept1", "accept2")
  /\ Accepted(t, fd) /\ c1fd' = fd
  /\ acceptFailed' = (acceptFailed \/ fd = None)
  /\ UNCHANGED <<channel, asker, flags, c2fd, listener, timeWait, progs>>

AcceptSecond(t, fd) ==
  /\ Goes(t, "accept2", "in")
  /\ Accepted(t, fd) /\ c2fd' = fd
  /\ acceptFailed' = (acceptFailed \/ fd = None)
  /\ UNCHANGED <<channel, asker, flags, c1fd, listener, timeWait, progs>>

PeersIn(t) ==
  /\ Goes(t, "in", "up")
  /\ peerInSign' = TRUE
  /\ UNCHANGED <<channel, asker, cmdSign, connectSign, cmdThreadRunning, socks, progs>>

(* The flag is not set.                                                    *)
Connected_Unflagged(t) ==
  /\ Goes(t, "up", IF None \in {c1fd, c2fd} THEN "test" ELSE "relay")
  /\ UNCHANGED <<channel, asker, flags, socks, progs>>

(* The descriptors are not tested.                                         *)
Connected_Untested(t) ==
  /\ Goes(t, "up", "relay")
  /\ connectSign' = TRUE
  /\ UNCHANGED <<channel, asker, cmdSign, peerInSign, cmdThreadRunning, socks, progs>>

(* When an accept has failed, try again, with peerInSign still set.        *)
Connected(t) ==
  /\ \/ None \in {c1fd, c2fd} /\ Goes(t, "up", "test") /\ UNCHANGED connectSign
     \/ None \notin {c1fd, c2fd} /\ Goes(t, "up", "relay") /\ connectSign' = TRUE
  /\ UNCHANGED <<channel, asker, cmdSign, peerInSign, cmdThreadRunning, socks, progs>>

(* while(connectSign == 1): recv blocks until the first client sends or    *)
(* closes; at its end of file the loop goes round without blocking.  An    *)
(* error of recv, or of the send to the second, is only printed.           *)
TestConnect(t) ==
  /\ Goes(t, "relay", IF connectSign THEN "recv" ELSE "hangup")
  /\ UNCHANGED <<channel, asker, flags, socks, progs>>

RecvData(t) ==
  /\ Goes(t, "recv", "relay")
  /\ prog[c1fd] = "connected"
  /\ UNCHANGED <<channel, asker, flags, socks, progs>>

RecvEnd(t) ==
  /\ Goes(t, "recv", "relay")
  /\ prog[c1fd] = "closed"
  /\ UNCHANGED <<channel, asker, flags, socks, progs>>

(* But a send to a client that has closed its end raises SIGPIPE, which    *)
(* nothing handles: the server ends, and its sockets close.  The first     *)
(* client gets what the second sends from cmdThread_recv2, which runs      *)
(* beside this thread.                                                     *)
BrokenPipe(t) ==
  /\ \/ Goes(t, "recv", "killed") /\ prog[c2fd] = "closed"
     \/ \E from \in {"relay", "recv", "hangup"} : Goes(t, from, "killed") /\ prog[c1fd] = "closed"
  /\ listener' = None /\ backlog' = <<>>
  /\ UNCHANGED <<channel, asker, flags, c1fd, c2fd, timeWait, acceptFailed, progs>>

HangUp(t) ==
  /\ Goes(t, "hangup", "test")
  /\ connectSign' = FALSE
  /\ timeWait' = (timeWait \/ "connected" \in {prog[c1fd], prog[c2fd]})
  /\ UNCHANGED <<channel, asker, cmdSign, peerInSign, cmdThreadRunning, c1fd, c2fd,
                 listener, backlog, acceptFailed, progs>>

(* peerInSign stays set.                                                   *)
LeaveRelay_PeersStillIn(t) ==
  /\ Goes(t, "leave", "last")
  /\ UNCHANGED <<channel, asker, flags, socks, progs>>

LeaveRelay(t) ==
  /\ Goes(t, "leave", "last")
  /\ peerInSign' = FALSE
  /\ UNCHANGED <<channel, asker, cmdSign, connectSign, cmdThreadRunning, socks, progs>>

EndThread(t) ==
  /\ Goes(t, "last", "idle")
  /\ cmdThreadRunning' = FALSE
  /\ UNCHANGED <<channel, asker, cmdSign, connectSign, peerInSign, socks, progs>>

(* The kernel gives the port up after a while.                             *)
TimeWaitOver ==
  /\ timeWait
  /\ timeWait' = FALSE
  /\ UNCHANGED <<channel, asker, flags, thread, c1fd, c2fd, listener, backlog, acceptFailed, progs>>

-----------------------------------------------------------------------------
(* The main thread with a master's request in its hands.                   *)
Serving == Running /\ (Spin \/ StartRelay)

MainThread ==
  \/ Serving
  \/ Running /\ (MasterQuits \/ \E r \in Runs : ServeSlave(r) \/ ServeMaster(r))

(* What a relay thread does without waiting for a client that is alive,    *)
(* and without an error of accept.                                         *)
Works(t) ==
  \/ \E fd \in Runs : AcceptFirst(t, fd) \/ AcceptSecond(t, fd)
  \/ BeginThread(t) \/ TestSign(t)
  \/ PeersIn(t) \/ Connected(t) \/ TestConnect(t) \/ RecvEnd(t) \/ HangUp(t)
  \/ LeaveRelay(t) \/ EndThread(t)

Program(r) ==
  \/ AskChannel(r) \/ MistakeAnswer(r) \/ GiveUp(r)
  \/ init_CMD_CHAN(r) \/ close_CMD_CHAN(r)

RelayNext ==
  \/ MainThread
  \/ \E t \in Thread :
       Works(t) \/ RecvData(t) \/ BrokenPipe(t) \/ AcceptFirst(t, None) \/ AcceptSecond(t, None)
  \/ \E r \in Runs : Program(r)
  \/ TimeWaitOver

RelaySpec == RelayInit /\ [][RelayNext]_relayVars

(* The threads run; both client programs close the channel right after     *)
(* they have opened it.  Nothing is assumed of data, of requests, or of    *)
(* answers.                                                                *)
RelayFairness ==
  /\ WF_relayVars(Serving)
  /\ \A t \in Thread : WF_relayVars(Works(t))
  /\ \A r \in Runs : WF_relayVars(close_CMD_CHAN(r))

RelayFairSpec == RelaySpec /\ RelayFairness

-----------------------------------------------------------------------------
Alive == {t \in Thread : thread[t] # "idle"}

(* The main thread and the relay thread both write cmdThreadRunning, and   *)
(* the main thread reads it between requests that follow one another       *)
(* closely.  Still no second relay thread is ever created while one lives, *)
(* which would share c1fd, c2fd and the port with it.                      *)
OneRelayThread == Cardinality(Alive) <= 1

(* The flags tell the truth to the main thread: it never spins on peers    *)
(* that no thread holds, nor is a relay under way (connectSign) without a  *)
(* thread to carry it.                                                     *)
FlagsAreHeld ==
  Running =>
    /\ peerInSign => \E t \in Thread : thread[t] \notin {"idle", "new", "last"}
    /\ connectSign => \E t \in Thread : thread[t] \in {"relay", "recv", "hangup"}

(* The whole server waits while CONTROL_CHAN spins on controlPeerInSign.   *)
(* It always gets out when clients close their connections: the thread is  *)
(* never left in a loop that the main thread's two assignments do not end. *)
(* After a failed accept it may be, with peerInSign set and nobody there;  *)
(* and the server may end meanwhile, by a broken connection.               *)
ControlSpinEnds ==
  channel = "control" /\ asker # None ~> asker = None \/ acceptFailed \/ ~Running

(* The same of CMD_CHAN, which says "Entering cmd thread!"                 *)
(* (server/main.c:1157) before it spins on peerInSign.                     *)
CmdSpinEnds ==
  channel = "cmd" /\ asker # None ~> asker = None \/ acceptFailed \/ ~Running

(* Two clients that are waiting at a listening thread get a relay, however *)
(* the requests of others interleave with the two accepts.                 *)
WaitingPairIsRelayed ==
  (\E t \in Thread : listener = t /\ thread[t] = "accept1" /\ Len(backlog) >= 2)
    ~> connectSign \/ acceptFailed
=============================================================================
