---------------------------- MODULE RelayProofs ----------------------------
(***************************************************************************)
(* Proofs about CmdRelay, for any number of runs of the client programs    *)
(* and any number of thread identities.                                    *)
(***************************************************************************)
EXTENDS CmdRelay, FiniteSetTheorems, TLAPS

(* cmdThreadRunning is set exactly while a relay thread lives, and then it *)
(* is the only one.                                                        *)
FlagIsThread ==
  /\ \A t, u \in Thread : thread[t] # "idle" /\ thread[u] # "idle" => t = u
  /\ cmdThreadRunning <=> \E t \in Thread : thread[t] # "idle"

(* The inductive invariant.  Without FlagIsThread a second thread could    *)
(* end, and leave peerInSign to nobody, or accept into the descriptors     *)
(* that the first one is relaying between.                                 *)
RelayInv == RelayTypeOK /\ FlagIsThread /\ FlagsAreHeld

Place == {"idle", "new", "test", "accept1", "accept2", "in", "up",
          "relay", "recv", "hangup", "leave", "last", "killed"}
(* Where a thread uses both descriptors.                                   *)
Relaying == {"relay", "recv", "hangup"}

(* The type of the descriptors, said without IF: they are connections      *)
(* whenever some thread relays between them.                               *)
LEMMA DescriptorFacts ==
  ASSUME RelayTypeOK
  PROVE  /\ c1fd \in Runs \cup {None} /\ c2fd \in Runs \cup {None}
         /\ (\E t \in Thread : thread[t] \in Relaying) => c1fd \in Runs /\ c2fd \in Runs
BY DEF RelayTypeOK, Relaying

(* What is left of the type invariant.                                     *)
OtherTypes ==
  /\ channel \in {"cmd", "control"}
  /\ asker \in MRuns \cup {None}
  /\ cmdSign \in BOOLEAN /\ connectSign \in BOOLEAN
  /\ peerInSign \in BOOLEAN /\ cmdThreadRunning \in BOOLEAN
  /\ timeWait \in BOOLEAN /\ acceptFailed \in BOOLEAN
  /\ thread \in [Thread -> Place]
  /\ listener \in Thread \cup {None}
  /\ backlog \in Seq(Runs)
  /\ requests \subseteq Runs
  /\ prog \in [Runs -> {"idle", "asking", "answered", "connected", "failed", "closed"}]

LEMMA OtherFacts == RelayTypeOK => OtherTypes
BY DEF RelayTypeOK, OtherTypes, Place

(* The type invariant after a step, from its two halves.                   *)
LEMMA TypeFromParts ==
  ASSUME OtherTypes', c1fd' \in Runs \cup {None}, c2fd' \in Runs \cup {None},
         (\E t \in Thread : thread'[t] \in Relaying) => c1fd' \in Runs /\ c2fd' \in Runs
  PROVE  RelayTypeOK'
BY DEF RelayTypeOK, OtherTypes, Place, Relaying

-----------------------------------------------------------------------------
(* A step that leaves the threads, cmdThreadRunning and the descriptors    *)
(* alone and sets neither peerInSign nor connectSign keeps the invariant:  *)
(* all of the main thread but StartRelay, and the client programs.         *)
LEMMA Elsewhere ==
  ASSUME RelayInv, OtherTypes', UNCHANGED <<thread, cmdThreadRunning, c1fd, c2fd>>,
         peerInSign' => peerInSign, connectSign' => connectSign
  PROVE  RelayInv'
<1>1. RelayTypeOK'
  BY DescriptorFacts, TypeFromParts DEF RelayInv
<1>2. FlagIsThread' /\ FlagsAreHeld'
  BY DEF RelayInv, FlagIsThread, FlagsAreHeld, Running
<1> QED BY <1>1, <1>2 DEF RelayInv

(* Answering a request keeps the type of prog.                             *)
LEMMA AnswerType ==
  ASSUME OtherTypes, NEW r \in Runs, AnswerTo(r)
  PROVE  prog' \in [Runs -> {"idle", "asking", "answered", "connected", "failed", "closed"}]
BY DEF OtherTypes, AnswerTo

(* The main thread keeps the invariant.                                    *)
LEMMA MainKeeps == RelayInv /\ MainThread => RelayInv'
<1> SUFFICES ASSUME RelayInv, MainThread PROVE RelayInv'
  OBVIOUS
<1>i. OtherTypes
  BY OtherFacts DEF RelayInv
<1>1. CASE Spin
  <2>1. OtherTypes'
    BY <1>1, <1>i DEF Spin, OtherTypes, socks, progs
  <2> QED BY <1>1, <2>1, Elsewhere DEF Spin, socks
<1>2. CASE StartRelay
  <2>1. asker \in Runs
    BY <1>2, <1>i DEF StartRelay, OtherTypes, Runs
  <2>2. OtherTypes'
    BY <1>2, <1>i, <2>1, AnswerType DEF StartRelay, OtherTypes, socks, Place
  <2>3. CASE cmdThreadRunning
    BY <1>2, <2>2, <2>3, Elsewhere DEF StartRelay, socks
  <2>4. CASE ~cmdThreadRunning
    <3>1. PICK t \in Thread : thread' = [thread EXCEPT ![t] = "new"]
      BY <1>2, <2>4 DEF StartRelay
    <3>2. /\ \A u \in Thread : thread[u] = "idle"
          /\ \A u \in Thread : thread'[u] = IF u = t THEN "new" ELSE "idle"
      BY <1>i, <2>4, <3>1 DEF RelayInv, FlagIsThread, OtherTypes
    <3>3. cmdThreadRunning' /\ UNCHANGED <<connectSign, peerInSign, c1fd, c2fd>> /\ ~peerInSign
      BY <1>2, <2>4 DEF StartRelay, socks
    <3>4. RelayTypeOK'
      BY <2>2, <3>2, <3>3, DescriptorFacts, TypeFromParts DEF RelayInv, Relaying
    <3>5. FlagIsThread'
      BY <3>2, <3>3 DEF FlagIsThread
    <3>6. FlagsAreHeld'
      <4>1. Running
        BY <3>2 DEF Running
      <4>2. ~connectSign
        BY <3>2, <4>1 DEF RelayInv, FlagsAreHeld
      <4> QED BY <3>3, <4>2 DEF FlagsAreHeld
    <3> QED BY <3>4, <3>5, <3>6 DEF RelayInv
  <2> QED BY <2>3, <2>4
<1>3. CASE MasterQuits
  <2>1. OtherTypes'
    BY <1>3, <1>i DEF MasterQuits, OtherTypes, socks, progs
  <2> QED BY <1>3, <2>1, Elsewhere DEF MasterQuits, socks
<1>4. ASSUME NEW r \in Runs, ServeSlave(r) PROVE RelayInv'
  <2>1. OtherTypes'
    BY <1>4, <1>i, AnswerType DEF ServeSlave, OtherTypes, socks
  <2> QED BY <1>4, <2>1, Elsewhere DEF ServeSlave, socks
<1>5. ASSUME NEW r \in Runs, ServeMaster(r) PROVE RelayInv'
  <2>1. OtherTypes'
    BY <1>5, <1>i DEF ServeMaster, OtherTypes, socks, progs
  <2> QED BY <1>5, <2>1, Elsewhere DEF ServeMaster, socks
<1> QED BY <1>1, <1>2, <1>3, <1>4, <1>5 DEF MainThread, Serving

(* The client programs and the kernel keep it.                             *)
LEMMA ProgramKeeps ==
  ASSUME RelayInv, (\E r \in Runs : Program(r)) \/ TimeWaitOver
  PROVE  RelayInv'
<1>i. OtherTypes
  BY OtherFacts DEF RelayInv
<1>1. ASSUME NEW r \in Runs, Program(r) PROVE RelayInv'
  <2>1. UNCHANGED <<thread, flags, c1fd, c2fd>>
    BY <1>1 DEF Program, AskChannel, MistakeAnswer, GiveUp, init_CMD_CHAN,
       close_CMD_CHAN, flags, socks
  <2>2. /\ UNCHANGED <<channel, asker, listener, timeWait, acceptFailed>>
        /\ backlog' \in {backlog, Append(backlog, r)}
        /\ requests' \subseteq requests \cup {r}
        /\ \E to \in {"idle", "asking", "answered", "connected", "failed", "closed"} :
             prog' = [prog EXCEPT ![r] = to]
    BY <1>1 DEF Program, AskChannel, MistakeAnswer, GiveUp, init_CMD_CHAN,
       close_CMD_CHAN, socks, Becomes
  <2>3. backlog' \in Seq(Runs) /\ requests' \subseteq Runs
    BY <1>i, <2>2 DEF OtherTypes
  <2>4. OtherTypes'
    BY <1>i, <2>1, <2>2, <2>3 DEF OtherTypes, flags
  <2> QED BY <2>1, <2>4, Elsewhere DEF flags
<1>2. CASE TimeWaitOver
  <2>1. OtherTypes'
    BY <1>2, <1>i DEF TimeWaitOver, OtherTypes, flags, progs
  <2> QED BY <1>2, <2>1, Elsewhere DEF TimeWaitOver, flags
<1> QED BY <1>1, <1>2

-----------------------------------------------------------------------------
(* A step of one relay thread: all others are idle.                        *)
LEMMA Alone ==
  ASSUME RelayInv, NEW t \in Thread, NEW from \in Place \ {"idle", "killed"}, NEW to \in Place,
         Goes(t, from, to)
  PROVE  /\ thread[t] = from /\ cmdThreadRunning
         /\ \A u \in Thread : thread[u] = IF u = t THEN from ELSE "idle"
         /\ \A u \in Thread : thread'[u] = IF u = t THEN to ELSE "idle"
         /\ thread' \in [Thread -> Place]
         /\ peerInSign => from \notin {"idle", "new", "last"}
         /\ connectSign => from \in Relaying
         /\ from \in Relaying => c1fd \in Runs /\ c2fd \in Runs
<1>1. thread \in [Thread -> Place] /\ thread[t] = from
  BY OtherFacts DEF RelayInv, OtherTypes, Goes
<1>2. cmdThreadRunning /\ \A u \in Thread : thread[u] = IF u = t THEN from ELSE "idle"
  BY <1>1 DEF RelayInv, FlagIsThread
<1>3. thread' \in [Thread -> Place] /\ \A u \in Thread : thread'[u] = IF u = t THEN to ELSE "idle"
  BY <1>1, <1>2 DEF Goes
<1>4. /\ peerInSign => from \notin {"idle", "new", "last"}
      /\ connectSign => from \in Relaying
  <2>1. Running
    BY <1>2 DEF Running
  <2> QED BY <1>2, <2>1 DEF RelayInv, FlagsAreHeld, Relaying
<1>5. from \in Relaying => c1fd \in Runs /\ c2fd \in Runs
  BY <1>1, DescriptorFacts DEF RelayInv
<1> QED BY <1>1, <1>2, <1>3, <1>4, <1>5

(* What such a step has to see to.                                         *)
LEMMA ThreadStep ==
  ASSUME RelayInv, NEW t \in Thread, NEW from \in Place \ {"idle", "killed"}, NEW to \in Place,
         Goes(t, from, to),
         cmdThreadRunning' <=> to # "idle",
         peerInSign' => to \notin {"idle", "new", "last"},
         connectSign' => to \in Relaying,
         c1fd' \in Runs \cup {None}, c2fd' \in Runs \cup {None},
         to \in Relaying => c1fd' \in Runs /\ c2fd' \in Runs,
         OtherTypes'
  PROVE  RelayInv'
<1>1. \A u \in Thread : thread'[u] = IF u = t THEN to ELSE "idle"
  BY Alone
<1>2. RelayTypeOK'
  BY <1>1, TypeFromParts DEF Relaying
<1>3. FlagIsThread'
  BY <1>1 DEF FlagIsThread
<1>4. FlagsAreHeld'
  BY <1>1 DEF FlagsAreHeld, Relaying
<1> QED BY <1>2, <1>3, <1>4 DEF RelayInv

(* close(sfd) leaves no connection waiting.                                *)
LEMMA NoBacklog == <<>> \in Seq(Runs)
OBVIOUS

(* accept takes connections off the backlog, or fails.                     *)
LEMMA AcceptType ==
  ASSUME OtherTypes, NEW t \in Thread, NEW fd \in Runs \cup {None}, Accepted(t, fd)
  PROVE  backlog' \in Seq(Runs)
BY DEF OtherTypes, Accepted

(* Every step of a relay thread keeps the invariant.                       *)
LEMMA ThreadKeeps ==
  ASSUME RelayInv, NEW t \in Thread,
         Works(t) \/ RecvData(t) \/ BrokenPipe(t) \/ AcceptFirst(t, None) \/ AcceptSecond(t, None)
  PROVE  RelayInv'
<1>i. /\ OtherTypes
      /\ c1fd \in Runs \cup {None} /\ c2fd \in Runs \cup {None}
  BY OtherFacts, DescriptorFacts DEF RelayInv
<1> USE DEF Place, Relaying
<1>1. ASSUME NEW fd \in Runs \cup {None}, AcceptFirst(t, fd) PROVE RelayInv'
  <2>1. /\ Goes(t, "accept1", "accept2") /\ Accepted(t, fd) /\ c1fd' = fd
        /\ acceptFailed' \in BOOLEAN
        /\ UNCHANGED <<channel, asker, flags, c2fd, listener, timeWait, progs>>
    BY <1>1, <1>i DEF AcceptFirst, OtherTypes
  <2>2. OtherTypes'
    BY <1>i, <2>1, AcceptType, Alone DEF OtherTypes, flags, progs
  <2> QED BY <1>i, <2>1, <2>2, Alone, ThreadStep DEF flags
<1>2. ASSUME NEW fd \in Runs \cup {None}, AcceptSecond(t, fd) PROVE RelayInv'
  <2>1. /\ Goes(t, "accept2", "in") /\ Accepted(t, fd) /\ c2fd' = fd
        /\ acceptFailed' \in BOOLEAN
        /\ UNCHANGED <<channel, asker, flags, c1fd, listener, timeWait, progs>>
    BY <1>2, <1>i DEF AcceptSecond, OtherTypes
  <2>2. OtherTypes'
    BY <1>i, <2>1, AcceptType, Alone DEF OtherTypes, flags, progs
  <2> QED BY <1>i, <2>1, <2>2, Alone, ThreadStep DEF flags
<1>3. CASE BeginThread(t)
  <2>1. /\ Goes(t, "new", "test") /\ cmdThreadRunning' = TRUE
        /\ listener' \in Thread \cup {None}
        /\ peerInSign' \in BOOLEAN /\ (peerInSign' => peerInSign)
        /\ UNCHANGED <<channel, asker, cmdSign, connectSign, c1fd, c2fd, backlog,
                       timeWait, acceptFailed, progs>>
    BY <1>3, <1>i DEF BeginThread, OtherTypes, cmdThread, controlThread, OpenListener
  <2>2. OtherTypes'
    BY <1>i, <2>1, Alone DEF OtherTypes, progs
  <2> QED BY <1>i, <2>1, <2>2, Alone, ThreadStep
<1>4. CASE TestSign(t)
  <2>1. PICK to \in {"accept1", "leave"} : Goes(t, "test", to)
    BY <1>4 DEF TestSign
  <2>2. /\ listener' \in Thread \cup {None} /\ backlog' \in Seq(Runs)
        /\ UNCHANGED <<channel, asker, flags, c1fd, c2fd, timeWait, acceptFailed, progs>>
    BY <1>4, <1>i, NoBacklog DEF TestSign, OtherTypes
  <2>3. OtherTypes'
    BY <1>i, <2>1, <2>2, Alone DEF OtherTypes, flags, progs
  <2> QED BY <1>i, <2>1, <2>2, <2>3, Alone, ThreadStep DEF flags
<1>5. CASE PeersIn(t)
  <2>1. OtherTypes'
    BY <1>5, <1>i, Alone DEF PeersIn, OtherTypes, socks, progs
  <2> QED BY <1>5, <1>i, <2>1, Alone, ThreadStep DEF PeersIn, socks
<1>6. CASE Connected(t)
  <2>1. UNCHANGED <<channel, asker, cmdSign, peerInSign, cmdThreadRunning, socks, progs>>
    BY <1>6 DEF Connected
  <2>2. CASE Goes(t, "up", "test") /\ UNCHANGED connectSign
    <3>1. OtherTypes'
      BY <1>i, <2>1, <2>2, Alone DEF OtherTypes, socks, progs
    <3> QED BY <1>i, <2>1, <2>2, <3>1, Alone, ThreadStep DEF socks
  <2>3. CASE /\ c1fd # None /\ c2fd # None
             /\ Goes(t, "up", "relay") /\ connectSign' = TRUE
    <3>1. OtherTypes'
      BY <1>i, <2>1, <2>3, Alone DEF OtherTypes, socks, progs
    <3> QED BY <1>i, <2>1, <2>3, <3>1, Alone, ThreadStep DEF socks
  <2> QED BY <1>6, <2>2, <2>3 DEF Connected
<1>7. CASE TestConnect(t)
  <2>1. PICK to \in {"recv", "hangup"} : Goes(t, "relay", to)
    BY <1>7 DEF TestConnect
  <2>2. UNCHANGED <<channel, asker, flags, socks, progs>>
    BY <1>7 DEF TestConnect
  <2>3. OtherTypes'
    BY <1>i, <2>1, <2>2, Alone DEF OtherTypes, flags, socks, progs
  <2> QED BY <1>i, <2>1, <2>2, <2>3, Alone, ThreadStep DEF flags, socks
<1>8. CASE RecvData(t) \/ RecvEnd(t)
  <2>1. Goes(t, "recv", "relay") /\ UNCHANGED <<channel, asker, flags, socks, progs>>
    BY <1>8 DEF RecvData, RecvEnd
  <2>2. OtherTypes'
    BY <1>i, <2>1, Alone DEF OtherTypes, flags, socks, progs
  <2> QED BY <1>i, <2>1, <2>2, Alone, ThreadStep DEF flags, socks
<1>9. CASE HangUp(t)
  <2>1. /\ Goes(t, "hangup", "test") /\ connectSign' = FALSE /\ timeWait' \in BOOLEAN
        /\ UNCHANGED <<channel, asker, cmdSign, peerInSign, cmdThreadRunning, c1fd, c2fd,
                       listener, backlog, acceptFailed, progs>>
    BY <1>9, <1>i DEF HangUp, OtherTypes
  <2>2. OtherTypes'
    BY <1>i, <2>1, Alone DEF OtherTypes, progs
  <2> QED BY <1>i, <2>1, <2>2, Alone, ThreadStep
<1>10. CASE BrokenPipe(t)
  <2>1. PICK from \in {"relay", "recv", "hangup"} : Goes(t, from, "killed")
    BY <1>10 DEF BrokenPipe
  <2>2. /\ listener' = None /\ backlog' = <<>>
        /\ UNCHANGED <<channel, asker, flags, c1fd, c2fd, timeWait, acceptFailed, progs>>
    BY <1>10 DEF BrokenPipe
  <2>3. /\ cmdThreadRunning /\ thread' \in [Thread -> Place]
        /\ \A u \in Thread : thread'[u] = IF u = t THEN "killed" ELSE "idle"
    BY <2>1, Alone
  <2>4. OtherTypes'
    BY <1>i, <2>2, <2>3, NoBacklog DEF OtherTypes, flags, progs
  <2>5. RelayTypeOK'
    BY <1>i, <2>2, <2>3, <2>4, TypeFromParts
  <2>6. FlagIsThread'
    BY <2>2, <2>3 DEF FlagIsThread, flags
  <2>7. FlagsAreHeld'
    BY <2>3 DEF FlagsAreHeld, Running
  <2> QED BY <2>5, <2>6, <2>7 DEF RelayInv
<1>11. CASE LeaveRelay(t)
  <2>1. OtherTypes'
    BY <1>11, <1>i, Alone DEF LeaveRelay, OtherTypes, socks, progs
  <2> QED BY <1>11, <1>i, <2>1, Alone, ThreadStep DEF LeaveRelay, socks
<1>12. CASE EndThread(t)
  <2>1. OtherTypes'
    BY <1>12, <1>i, Alone DEF EndThread, OtherTypes, socks, progs
  <2> QED BY <1>12, <1>i, <2>1, Alone, ThreadStep DEF EndThread, socks
<1> QED BY <1>1, <1>2, <1>3, <1>4, <1>5, <1>6, <1>7, <1>8, <1>9, <1>10, <1>11, <1>12 DEF Works

-----------------------------------------------------------------------------
(* Initially no thread lives and no flag is set.                           *)
LEMMA InitRelayInv == RelayInit => RelayInv
<1> SUFFICES ASSUME RelayInit PROVE RelayInv
  OBVIOUS
<1>1. RelayTypeOK
  BY NoBacklog DEF RelayInit, RelayTypeOK
<1>2. FlagIsThread /\ FlagsAreHeld
  BY DEF RelayInit, FlagIsThread, FlagsAreHeld
<1> QED BY <1>1, <1>2 DEF RelayInv

(* The invariant of the relay holds in every reachable state.              *)
THEOREM RelayInvariance == RelaySpec => []RelayInv
<1>1. RelayInv /\ [RelayNext]_relayVars => RelayInv'
  <2> SUFFICES ASSUME RelayInv, [RelayNext]_relayVars PROVE RelayInv'
    OBVIOUS
  <2>1. CASE UNCHANGED relayVars
    <3>1. OtherTypes'
      BY <2>1, OtherFacts DEF RelayInv, OtherTypes, relayVars, flags, socks, progs
    <3> QED BY <2>1, <3>1, Elsewhere DEF relayVars, flags, socks
  <2> QED BY <2>1, MainKeeps, ProgramKeeps, ThreadKeeps DEF RelayNext
<1> QED BY <1>1, InitRelayInv, PTL DEF RelaySpec

(* What the relay threads and the main thread share keeps its type; above  *)
(* all, while a thread relays, recv and close are given connections that   *)
(* accept returned, and never the -1 of an accept that failed.             *)
THEOREM RelayTypeCorrect == RelaySpec => []RelayTypeOK
<1>1. RelayInv => RelayTypeOK
  BY DEF RelayInv
<1> QED BY <1>1, RelayInvariance, PTL

(* The main thread reads cmdThreadRunning and sets it without a lock, and  *)
(* so does the thread when it begins and when it ends.  However requests   *)
(* follow one another, there is never a second relay thread.               *)
THEOREM NeverTwoRelayThreads == RelaySpec => []OneRelayThread
<1>1. ASSUME RelayInv PROVE OneRelayThread
  <2>1. CASE Alive = {}
    BY <2>1, FS_EmptySet DEF OneRelayThread
  <2>2. CASE Alive # {}
    <3>1. PICK t \in Alive : TRUE
      BY <2>2
    <3>2. Alive = {t}
      BY <1>1, <3>1 DEF RelayInv, FlagIsThread, Alive
    <3>3. Cardinality(Alive) = 1
      BY <3>2, FS_Singleton
    <3> QED BY <3>3 DEF OneRelayThread
  <2> QED BY <2>1, <2>2
<1> QED BY <1>1, RelayInvariance, PTL

(* peerInSign, on which the main thread spins, is set only while a thread  *)
(* is there to clear it, and connectSign only while one relays: no flag    *)
(* outlives the thread that it speaks of.                                  *)
THEOREM NoFlagIsOrphaned == RelaySpec => []FlagsAreHeld
<1>1. RelayInv => FlagsAreHeld
  BY DEF RelayInv
<1> QED BY <1>1, RelayInvariance, PTL
=============================================================================
