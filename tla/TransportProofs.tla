-------------------------- MODULE TransportProofs ---------------------------
(***************************************************************************)
(* Proofs about Transport, for any number of packets, any size of the      *)
(* buffers and any request of the application.                             *)
(***************************************************************************)
EXTENDS Transport, SequenceTheorems, WellFoundedInduction, TLAPS

(* recvData holds the mutex.                                               *)
Appending == rpc \in {"copied", "loaded"}

(* recvData's appends and, in the slave, a whole call of JEAN_recv are     *)
(* under the mutex.                                                        *)
Locks ==
  /\ Appending => recvBuf_lock = "recvData"
  /\ program = "slave" /\ app \notin {"idle", "test"} => recvBuf_lock = "app"

(* A call asks for something.                                              *)
Asked == app # "idle" => want > 0

(* recvBufP, or the register, after recvBufP -= len has gone below zero.   *)
Off == Wrap - MaxWant .. Wrap - 1

(* recvBufP is within the buffer or wrapped round, and in the second case  *)
(* no call is past its shift: it would have to wait for the append that    *)
(* loaded the length, or has itself found the length too large.            *)
Wrapped ==
  /\ recvBufP \in 0..Room \cup Off /\ reg \in 0..Room \cup Off
  /\ recvBufP > Room => app \in {"idle", "test", "copy", "shift"}
  /\ rpc = "copied" => recvBufP # Room
  /\ rpc = "loaded" => reg # Room /\ (reg > Room => recvBufP = reg)
  /\ app \in {"zero", "store"} => count <= Room

(* While no reset has met a call, recvBufP only shrinks beside recvData    *)
(* and only grows beside JEAN_recv, so that what either has tested or      *)
(* loaded stays good enough.                                               *)
InRoom ==
  /\ recvBufP <= Room
  /\ rpc \in {"append", "copied"} => recvBufP < Room
  /\ rpc = "loaded" => reg < Room /\ recvBufP <= reg
  /\ app \in {"copy", "shift", "load"} => want <= recvBufP
  /\ app = "store" => want <= count /\ count <= recvBufP
  /\ rpc # "wild"

(* What recvBuf holds of the stream, before and after the shift, and what  *)
(* the call under way has copied of it.                                    *)
Whole ==
  /\ \A i \in 1..recvBufP : recvBuf[i] = i
  /\ Appending => recvBuf[recvBufP + 1] = recvBufP + 1

Shifted ==
  /\ \A i \in 1..recvBufP - want : recvBuf[i] = i + want
  /\ \A i \in 1..Room : recvBuf[i] = None \/ recvBuf[i] >= want

Stream ==
  /\ intact
  /\ owed = recvBufP
  /\ rpc = "loaded" => reg = recvBufP
  /\ app \notin {"load", "store"} => Whole
  /\ app \in {"load", "store"} => Shifted
  /\ app \in {"readLen", "zero"} => data = [i \in 1..recvBufP |-> i]
  /\ app \in {"shift", "load", "store"} => data = [i \in 1..want |-> i]
  /\ app \in {"zero", "store"} => count = recvBufP

(* Everything between the packet read last and lastIndex has arrived, but  *)
(* for packet 0, which is not waited for; and the packet being appended is *)
(* lastIndex itself.                                                       *)
Gapless ==
  /\ proc \in Seq(arrived) /\ back \in Seq(arrived)
  /\ rpc \in {"scan", "room", "reset", "append", "copied", "loaded"} => proc # <<>>
  /\ rpc \in {"wait", "scan"} =>
       lastRead <= lastIndex /\ lastRead + 1 .. lastIndex \subseteq arrived \cup {0}
  /\ rpc \in {"room", "reset", "append", "copied", "loaded"} =>
       /\ Head(proc) = lastIndex
       /\ \/ lastIndex = 0
          \/ lastRead < lastIndex /\ lastRead + 1 .. lastIndex \subseteq arrived \cup {0}

(* The two halves of the type invariant: what recvData keeps for itself,   *)
(* and what the threads share or the application keeps.                    *)
ScanTypes ==
  /\ sendIndex \in 0..MaxIndex + 1
  /\ rpc \in {"wait", "scan", "room", "reset", "append", "copied", "loaded", "wild", "overrun"}
  /\ Len(proc) <= Room - Slack /\ Len(back) < Room
  /\ lastIndex \in Packet /\ pauseSign \in BOOLEAN
  /\ recordLostNum \in 0..MaxIndex /\ getLostNum \in Nat
  /\ arrived \subseteq Packet /\ lastRead \in -1..MaxIndex

BufTypes ==
  /\ program \in {"master", "slave"}
  /\ recvBuf \in [1..Room -> Nat \cup {None}]
  /\ recvBufP \in 0..Wrap - 1 /\ reg \in 0..Wrap - 1 /\ count \in 0..Wrap - 1
  /\ recvBuf_lock \in {None, "recvData", "app"}
  /\ app \in {"idle", "test", "copyAll", "readLen", "zero", "copy", "shift", "load", "store"}
  /\ want \in 0..MaxWant
  /\ data \in Seq(Nat \cup {None})
  /\ owed \in 0..Room
  /\ intact \in BOOLEAN /\ spoilt \in BOOLEAN /\ clashed \in BOOLEAN

ScanInv == ScanTypes /\ Gapless

BufInv ==
  /\ BufTypes
  /\ Locks /\ Asked /\ Wrapped
  /\ clashed => spoilt
  /\ ~clashed => InRoom
  /\ ~spoilt => Stream

(* The inductive invariant.                                                *)
DataInv == ScanInv /\ BufInv

-----------------------------------------------------------------------------
(* About operators.                                                        *)

(* A set of numbers that is not empty has a minimum.                       *)
LEMMA MinIsMember ==
  ASSUME NEW I, I \subseteq Nat, I # {}
  PROVE  Min(I) \in I
<1>1. PICK x \in I : \A y \in I : <<y, x>> \notin OpToRel(<, Nat)
  BY NatLessThanWellFounded, WFMin
<1>2. \A y \in I : x <= y
  <2> SUFFICES ASSUME NEW y \in I PROVE ~(y < x)
    OBVIOUS
  <2>1. y < x => <<y, x>> \in OpToRel(<, Nat)
    BY DEF OpToRel
  <2> QED BY <1>1, <2>1
<1> QED BY <1>2 DEF Min

(* The greater of two numbers is one of them.                              *)
LEMMA MaxOfTwo ==
  ASSUME NEW a \in Int, NEW b \in Int
  PROVE  Max({a, b}) \in {a, b}
<1>1. \E x \in {a, b} : \A y \in {a, b} : x >= y
  <2>1. CASE a >= b
    BY <2>1
  <2>2. CASE b >= a
    BY <2>2
  <2> QED BY <2>1, <2>2
<1> QED BY <1>1 DEF Max

(* Removing an element leaves a sequence of the others, one shorter.       *)
LEMMA RemoveFirstIs ==
  ASSUME NEW S, NEW s \in Seq(S), NEW e, Contains(s, e)
  PROVE  RemoveFirst(s, e) \in Seq(S) /\ Len(RemoveFirst(s, e)) = Len(s) - 1
<1> DEFINE I == {i \in 1..Len(s) : s[i] = e}
           k == Min(I)
<1>1. k \in I
  <2>1. I \subseteq Nat /\ I # {}
    BY DEF Contains
  <2> HIDE DEF I
  <2> QED BY <2>1, MinIsMember
<1>2. k \in 1..Len(s) /\ Len(s) \in Nat
  BY <1>1
<1>3. RemoveFirst(s, e) = SubSeq(s, 1, k - 1) \o SubSeq(s, k + 1, Len(s))
  BY <1>1 DEF RemoveFirst, RemoveAt, SelectInSeq, Contains
<1> HIDE DEF k, I
<1>4. SubSeq(s, 1, k - 1) \in Seq(S) /\ Len(SubSeq(s, 1, k - 1)) = k - 1
  <2>1. k - 1 \in Int /\ \A i \in 1..k - 1 : s[i] \in S
    BY <1>2
  <2>2. Len(SubSeq(s, 1, k - 1)) = IF 1 <= k - 1 THEN k - 1 - 1 + 1 ELSE 0
    BY <2>1, SubSeqProperties
  <2> QED BY <1>2, <2>1, <2>2, SubSeqProperties
<1>5. SubSeq(s, k + 1, Len(s)) \in Seq(S) /\ Len(SubSeq(s, k + 1, Len(s))) = Len(s) - k
  <2>1. k + 1 \in Int /\ Len(s) \in Int /\ \A i \in k + 1..Len(s) : s[i] \in S
    BY <1>2
  <2>2. Len(SubSeq(s, k + 1, Len(s))) = IF k + 1 <= Len(s) THEN Len(s) - (k + 1) + 1 ELSE 0
    BY <2>1, SubSeqProperties
  <2> QED BY <1>2, <2>1, <2>2, SubSeqProperties
<1>6. (SubSeq(s, 1, k - 1) \o SubSeq(s, k + 1, Len(s))) \in Seq(S)
  BY <1>4, <1>5, ConcatProperties
<1>7. Len(SubSeq(s, 1, k - 1) \o SubSeq(s, k + 1, Len(s))) = (k - 1) + (Len(s) - k)
  BY <1>4, <1>5, ConcatProperties
<1>8. (k - 1) + (Len(s) - k) = Len(s) - 1
  BY <1>2
<1> QED BY <1>3, <1>6, <1>7, <1>8, Zenon

(* What recvBufP += 1 and recvBufP -= len do to an unsigned number.        *)
LEMMA WrapRange ==
  ASSUME NEW a \in Int
  PROVE  a % Wrap \in 0..Wrap - 1
BY TransportAssumption

LEMMA WrapSmall ==
  ASSUME NEW a \in 0..Wrap - 1
  PROVE  a % Wrap = a
BY TransportAssumption

LEMMA WrapBelow ==
  ASSUME NEW a \in Int, -MaxWant <= a, a < 0
  PROVE  a % Wrap = Wrap + a
BY TransportAssumption

-----------------------------------------------------------------------------
(* What the invariant says of the types.                                   *)
LEMMA TypesHold == DataInv => DataTypeOK
<1> SUFFICES ASSUME DataInv PROVE DataTypeOK
  OBVIOUS
<1>1. proc \in Seq(Packet) /\ back \in Seq(Packet)
  BY SeqMonotonic DEF DataInv, ScanInv, ScanTypes, Gapless
<1> QED BY <1>1 DEF DataInv, ScanInv, BufInv, ScanTypes, BufTypes, DataTypeOK

(* What DataNext adds to each of its actions.                              *)
Step ==
  /\ rpc \notin {"wild", "overrun"}
  /\ spoilt' = (spoilt \/ Overlap \/ (rpc = "reset" /\ rpc' = "append"))
  /\ UNCHANGED program

LEMMA StepFacts ==
  ASSUME BufTypes, Step
  PROVE  /\ program' = program /\ spoilt' \in BOOLEAN
         /\ spoilt => spoilt'
         /\ rpc = "reset" /\ rpc' = "append" => spoilt'
         /\ ~spoilt' => ~Overlap
BY DEF BufTypes, Step

-----------------------------------------------------------------------------
(* recvData's own variables.                                               *)

(* A step that leaves them alone, except that rpc may go on from one step  *)
(* of an append to the next, or fall out of the buffer.                    *)
LEMMA ScanStays ==
  ASSUME ScanInv, UNCHANGED <<sendIndex, scanVars, arrived, lastRead>>,
         rpc' = rpc \/ rpc' = "wild" \/ (/\ rpc  \in {"room", "reset", "append", "copied", "loaded"}
                                         /\ rpc' \in {"reset", "append", "copied", "loaded"})
  PROVE  ScanInv'
<1>1. ScanTypes'
  BY DEF ScanInv, ScanTypes, scanVars
<1>2. Gapless'
  BY DEF ScanInv, Gapless, scanVars
<1> QED BY <1>1, <1>2 DEF ScanInv

(* Taking the packet at the head from the buffer.                          *)
LEMMA GoOnIs ==
  ASSUME ScanInv, proc # <<>>, GoOn
  PROVE  /\ proc' \in Seq(arrived) /\ Len(proc') <= Room - Slack
         /\ rpc' \in {"wait", "scan"} /\ (rpc' = "scan" => proc' # <<>>)
<1>1. proc \in Seq(arrived) /\ Len(proc) <= Room - Slack
  BY DEF ScanInv, ScanTypes, Gapless
<1>2. Tail(proc) \in Seq(arrived) /\ Len(Tail(proc)) = Len(proc) - 1 /\ Len(proc) \in Nat
  BY <1>1, HeadTailProperties
<1>3. rpc' = "scan" => Len(Tail(proc)) # 0
  BY <1>2 DEF GoOn
<1>4. Len(Tail(proc)) <= Room - Slack
  BY <1>1, <1>2, TransportAssumption
<1> QED BY <1>2, <1>3, <1>4 DEF GoOn

(* The packet at the head has arrived.                                     *)
LEMMA AtHead ==
  ASSUME ScanInv, NEW d, At(d)
  PROVE  d \in arrived /\ d \in Packet /\ proc # <<>> /\ rpc = "scan"
<1>1. proc \in Seq(arrived) /\ proc # <<>> /\ arrived \subseteq Packet
  BY DEF ScanInv, ScanTypes, Gapless, At
<1>2. Head(proc) \in arrived
  BY <1>1, HeadTailProperties
<1> QED BY <1>1, <1>2 DEF At

(* The peer sends another packet.                                          *)
LEMMA SendScan ==
  ASSUME ScanInv, JEAN_send
  PROVE  ScanInv'
<1>1. ScanTypes'
  <2>1. sendIndex' \in 0..MaxIndex + 1
    BY TransportAssumption DEF ScanInv, ScanTypes, JEAN_send
  <2> QED BY <2>1 DEF ScanInv, ScanTypes, JEAN_send, scanVars, histVars
<1>2. Gapless'
  BY DEF ScanInv, Gapless, JEAN_send, scanVars, histVars
<1> QED BY <1>1, <1>2 DEF ScanInv

(* A datagram arrives and a pause may end.                                 *)
LEMMA ReceiveScan ==
  ASSUME ScanInv, NEW d \in Packet \cup {Get}, Receive(d)
  PROVE  ScanInv' /\ rpc' \in {"wait", "scan", "overrun"}
<1> DEFINE kept == IF Len(IF d = Get THEN proc ELSE Append(proc, d)) > Room - Slack
                     THEN <<>> ELSE (IF d = Get THEN proc ELSE Append(proc, d))
<1>1. /\ proc \in Seq(arrived) /\ back \in Seq(arrived)
      /\ arrived \subseteq arrived' /\ arrived' \subseteq Packet
      /\ (d # Get => d \in arrived')
  BY DEF ScanInv, ScanTypes, Gapless, Receive
<1>2. proc \in Seq(arrived') /\ back \in Seq(arrived')
  BY <1>1, SeqMonotonic
<1>3. proc' \in Seq(arrived') /\ Len(proc') <= Room - Slack
  <2>1. (IF d = Get THEN proc ELSE Append(proc, d)) \in Seq(arrived')
    BY <1>1, <1>2
  <2>2. proc' = kept
    BY DEF Receive
  <2>3. Len(<<>>) <= Room - Slack
    BY TransportAssumption
  <2>4. CASE Len(IF d = Get THEN proc ELSE Append(proc, d)) > Room - Slack
    BY <2>2, <2>3, <2>4
  <2>5. CASE ~(Len(IF d = Get THEN proc ELSE Append(proc, d)) > Room - Slack)
    <3>1. proc' = IF d = Get THEN proc ELSE Append(proc, d)
      BY <2>2, <2>5
    <3>2. Len(proc') \in Nat
      BY <2>1, <3>1
    <3> QED BY <2>1, <2>5, <3>1, <3>2, TransportAssumption
  <2> QED BY <2>4, <2>5
<1>4. back' \in Seq(arrived') /\ Len(back') < Room
  BY <1>2, TransportAssumption DEF Receive, ScanInv, ScanTypes
<1>5. rpc' \in {"wait", "scan", "overrun"} /\ (rpc' = "scan" => proc' # <<>>)
  BY DEF Receive
<1>6. /\ recordLostNum' \in 0..MaxIndex /\ getLostNum' \in Nat /\ pauseSign' \in BOOLEAN
      /\ lastIndex' = lastIndex /\ lastRead' = lastRead /\ sendIndex' = sendIndex
      /\ rpc = "wait"
  BY TransportAssumption DEF Receive, ScanInv, ScanTypes
<1>7. lastRead <= lastIndex /\ lastRead + 1 .. lastIndex \subseteq arrived' \cup {0}
  BY <1>1, <1>6 DEF ScanInv, Gapless
<1>8. ScanTypes'
  BY <1>1, <1>3, <1>4, <1>5, <1>6 DEF ScanInv, ScanTypes
<1>9. Gapless'
  BY <1>3, <1>4, <1>5, <1>6, <1>7 DEF Gapless
<1> QED BY <1>5, <1>8, <1>9 DEF ScanInv

(* The scan passes over an old packet.                                     *)
LEMMA SkipOldScan ==
  ASSUME ScanInv, NEW d, SkipOld(d)
  PROVE  ScanInv' /\ rpc' \in {"wait", "scan"}
<1>1. /\ proc' \in Seq(arrived) /\ Len(proc') <= Room - Slack
      /\ rpc' \in {"wait", "scan"} /\ (rpc' = "scan" => proc' # <<>>) /\ rpc = "scan"
  BY AtHead, GoOnIs DEF SkipOld
<1>2. ScanTypes'
  BY <1>1 DEF ScanInv, ScanTypes, SkipOld, histVars
<1>3. Gapless'
  BY <1>1 DEF ScanInv, Gapless, SkipOld, histVars
<1> QED BY <1>1, <1>2, <1>3 DEF ScanInv

(* A packet set aside is next: lastIndex moves up to it, and all of them   *)
(* had arrived.                                                            *)
LEMMA TakeBackScan ==
  ASSUME ScanInv, NEW d, TakeBack(d)
  PROVE  ScanInv' /\ rpc' \in {"wait", "overrun"}
<1>1. /\ back \in Seq(arrived) /\ arrived \subseteq Packet /\ rpc = "scan"
      /\ Len(back) < Room /\ lastIndex \in Packet /\ lastRead \in -1..MaxIndex
      /\ lastRead <= lastIndex /\ lastRead + 1 .. lastIndex \subseteq arrived \cup {0}
  BY DEF ScanInv, ScanTypes, Gapless, TakeBack, Ahead, At
<1>2. Contains(back, lastIndex + 1)
  BY DEF TakeBack, findIndexInBuf
<1>3. lastIndex + 1 \in arrived
  BY <1>1, <1>2 DEF Contains
<1>4. back' \in Seq(arrived) /\ Len(back') = Len(back) - 1
  BY <1>1, <1>2, RemoveFirstIs DEF TakeBack
<1>5. Len(back') < Room
  BY <1>1, <1>4, TransportAssumption
<1>6. /\ rpc' \in {"wait", "overrun"} /\ lastIndex' = lastIndex + 1
      /\ UNCHANGED <<sendIndex, proc, pauseSign, recordLostNum, getLostNum, arrived, lastRead>>
  BY DEF TakeBack, histVars
<1>7. lastIndex' \in Packet
  BY <1>1, <1>3, <1>6
<1>8. lastRead <= lastIndex + 1 /\ lastRead + 1 .. lastIndex + 1 \subseteq arrived \cup {0}
  BY <1>1, <1>3 DEF Packet
<1>9. ScanTypes'
  BY <1>5, <1>6, <1>7 DEF ScanInv, ScanTypes
<1>10. Gapless'
  BY <1>4, <1>6, <1>8 DEF ScanInv, Gapless
<1> QED BY <1>6, <1>9, <1>10 DEF ScanInv

(* A packet is missing and the rest is set aside.                          *)
LEMMA SetAsideScan ==
  ASSUME ScanInv, NEW d, SetAside(d)
  PROVE  ScanInv' /\ rpc' = "wait"
<1>1. d \in Packet /\ rpc = "scan"
  BY AtHead DEF SetAside, Ahead
<1>2. /\ proc \in Seq(arrived) /\ back \in Seq(arrived) /\ Len(proc) <= Room - Slack
      /\ lastIndex \in Packet /\ recordLostNum \in 0..MaxIndex
  BY DEF ScanInv, ScanTypes, Gapless
<1>3. /\ proc' \in Seq(arrived) /\ Len(proc') <= Room - Slack
      /\ back' \in Seq(arrived) /\ Len(back') < Room
  <2>1. CASE Len(back) + Len(proc) < Room /\ back' = back \o proc /\ proc' = <<>>
    <3>1. back' \in Seq(arrived) /\ Len(back') = Len(back) + Len(proc)
      BY <1>2, <2>1, ConcatProperties
    <3> QED BY <2>1, <3>1, TransportAssumption
  <2>2. CASE back' = <<>> /\ UNCHANGED proc
    BY <1>2, <2>2, TransportAssumption
  <2> QED BY <2>1, <2>2 DEF SetAside
<1>4. recordLostNum' \in 0..MaxIndex
  <2>1. Lost(d) \in Int /\ Lost(d) > 1 /\ Lost(d) <= MaxIndex
    BY <1>1, <1>2, TransportAssumption DEF SetAside, Ahead, Lost, Packet
  <2>2. Max({recordLostNum, Lost(d)}) \in {recordLostNum, Lost(d)}
    BY <1>2, <2>1, MaxOfTwo
  <2>3. recordLostNum' = recordLostNum \/ recordLostNum' = Lost(d)
    BY <2>2 DEF SetAside
  <2> QED BY <1>2, <2>1, <2>3
<1>5. /\ rpc' = "wait" /\ pauseSign' = TRUE
      /\ UNCHANGED <<sendIndex, lastIndex, getLostNum, arrived, lastRead>>
  BY DEF SetAside, histVars
<1>6. ScanTypes'
  BY <1>3, <1>4, <1>5 DEF ScanInv, ScanTypes
<1>7. Gapless'
  BY <1>1, <1>3, <1>5 DEF ScanInv, Gapless
<1> QED BY <1>5, <1>6, <1>7 DEF ScanInv

(* The next packet, or packet 0, becomes lastIndex.                        *)
LEMMA AcceptScan ==
  ASSUME ScanInv, NEW d, Accept(d)
  PROVE  ScanInv' /\ rpc' = "room"
<1>1. d \in arrived /\ d \in Packet /\ proc # <<>> /\ rpc = "scan" /\ Head(proc) = d
  BY AtHead DEF Accept, At
<1>2. /\ rpc' = "room" /\ lastIndex' = d
      /\ UNCHANGED <<sendIndex, proc, back, pauseSign, recordLostNum, arrived, lastRead>>
  BY DEF Accept, histVars
<1>3. getLostNum' \in Nat
  BY DEF Accept, ScanInv, ScanTypes
<1>4. /\ lastRead <= lastIndex /\ lastRead + 1 .. lastIndex \subseteq arrived \cup {0}
      /\ lastIndex \in Packet /\ lastRead \in -1..MaxIndex
  BY <1>1 DEF ScanInv, ScanTypes, Gapless
<1>5. d = 0 \/ (lastRead < d /\ lastRead + 1 .. d \subseteq arrived \cup {0})
  <2>1. d = 0 \/ d = lastIndex + 1
    BY <1>1, <1>4 DEF Accept, Lost, Packet
  <2> QED BY <1>1, <1>4, <2>1 DEF Packet
<1>6. ScanTypes'
  BY <1>1, <1>2, <1>3 DEF ScanInv, ScanTypes
<1>7. Gapless'
  BY <1>1, <1>2, <1>5 DEF ScanInv, Gapless
<1> QED BY <1>2, <1>6, <1>7 DEF ScanInv

(* The packet appended is lastIndex, and is now the one read last.         *)
LEMMA AppendStoreScan ==
  ASSUME ScanInv, AppendStore
  PROVE  ScanInv' /\ rpc' \in {"wait", "scan"}
<1>1. proc # <<>> /\ Head(proc) = lastIndex /\ rpc = "loaded"
  BY DEF ScanInv, Gapless, AppendStore
<1>2. /\ proc' \in Seq(arrived) /\ Len(proc') <= Room - Slack
      /\ rpc' \in {"wait", "scan"} /\ (rpc' = "scan" => proc' # <<>>)
  BY <1>1, GoOnIs DEF AppendStore
<1>3. /\ lastRead' = lastIndex
      /\ UNCHANGED <<sendIndex, back, lastIndex, pauseSign, recordLostNum, getLostNum, arrived>>
  BY <1>1 DEF AppendStore
<1>4. ScanTypes'
  <2>1. lastRead' \in -1..MaxIndex
    BY <1>3, TransportAssumption DEF ScanInv, ScanTypes, Packet
  <2> QED BY <1>2, <1>3, <2>1 DEF ScanInv, ScanTypes
<1>5. lastIndex <= lastIndex /\ lastIndex + 1 .. lastIndex = {}
  BY DEF ScanInv, ScanTypes, Packet
<1>6. Gapless'
  BY <1>2, <1>3, <1>5 DEF ScanInv, Gapless
<1> QED BY <1>2, <1>4, <1>6 DEF ScanInv

-----------------------------------------------------------------------------
(* The buffer that the two threads share.                                  *)
bufVars == <<recvBuf, recvBufP, recvBuf_lock, reg, app, want, data, count, owed, intact, clashed>>

(* Where recvData does nothing to recvBuf.                                 *)
Quiet == {"wait", "scan", "room", "reset", "overrun"}

(* A step that leaves the buffer and the application alone.                *)
LEMMA BufStays ==
  ASSUME BufInv, Step, UNCHANGED bufVars, rpc' = rpc \/ rpc' \in Quiet
  PROVE  BufInv'
<1>1. program' = program /\ spoilt' \in BOOLEAN /\ (spoilt => spoilt')
  BY StepFacts DEF BufInv
<1>2. BufTypes'
  BY <1>1 DEF BufInv, BufTypes, bufVars
<1>3. Locks' /\ Asked'
  BY <1>1 DEF BufInv, Locks, Asked, Appending, bufVars, Quiet
<1>4. Wrapped'
  BY DEF BufInv, Wrapped, bufVars, Quiet, Off
<1>5. clashed' => spoilt'
  BY <1>1 DEF BufInv, bufVars
<1>6. ~clashed' => InRoom'
  BY DEF BufInv, InRoom, bufVars, Quiet
<1>7. ~spoilt' => Stream'
  <2> SUFFICES ASSUME ~spoilt' PROVE Stream'
    OBVIOUS
  <2>1. Stream
    BY <1>1 DEF BufInv
  <2>2. Appending' => Appending
    BY DEF Appending, Quiet
  <2>3. rpc' = "loaded" => rpc = "loaded"
    BY DEF Quiet
  <2> QED BY <2>1, <2>2, <2>3 DEF Stream, Whole, Shifted, bufVars
<1> QED BY <1>2, <1>3, <1>4, <1>5, <1>6, <1>7 DEF BufInv

(* Adding one to the length, while it is inside the buffer.                *)
LEMMA PlusOne ==
  ASSUME NEW n \in 0..Room
  PROVE  (n + 1) % Wrap = n + 1
<1>1. n + 1 \in 0..Wrap - 1
  BY TransportAssumption
<1> QED BY <1>1, WrapSmall

(* There is room for a packet, or the buffer is going to be reset.         *)
LEMMA CheckRoomBuf ==
  ASSUME BufInv, Step, CheckRoom
  PROVE  BufInv'
<1> USE TransportAssumption
<1>1. BufTypes /\ Locks /\ Asked /\ Wrapped
  BY DEF BufInv
<1>2. program' = program /\ spoilt' \in BOOLEAN /\ (spoilt => spoilt')
  BY <1>1, StepFacts
<1>3. rpc = "room" /\ UNCHANGED bufVars
  BY DEF CheckRoom, readVars, histVars, bufVars
<1>4. CASE Full
  BY <1>3, <1>4, BufStays DEF CheckRoom, Quiet
<1>5. CASE ~Full
  <2>1. rpc' = "append"
    BY <1>5 DEF CheckRoom
  <2>2. recvBufP <= Room => recvBufP < Room
    BY <1>1, <1>5, PlusOne DEF Full, BufTypes
  <2>3. BufTypes'
    BY <1>1, <1>2, <1>3 DEF BufTypes, bufVars
  <2>4. Locks' /\ Asked'
    BY <1>1, <1>2, <1>3, <2>1 DEF Locks, Asked, Appending, bufVars
  <2>5. Wrapped'
    BY <1>1, <1>3, <2>1 DEF Wrapped, Off, bufVars
  <2>6. ~clashed' => InRoom'
    BY <1>3, <2>1, <2>2 DEF BufInv, InRoom, bufVars
  <2>7. ~spoilt' => Stream'
    <3> SUFFICES ASSUME ~spoilt' PROVE Stream'
      OBVIOUS
    <3>1. Stream
      BY <1>2 DEF BufInv
    <3>2. ~Appending'
      BY <2>1 DEF Appending
    <3> QED BY <1>3, <2>1, <3>1, <3>2 DEF Stream, Whole, Shifted, bufVars
  <2>8. clashed' => spoilt'
    BY <1>2, <1>3 DEF BufInv, bufVars
  <2> QED BY <2>3, <2>4, <2>5, <2>6, <2>7, <2>8 DEF BufInv
<1> QED BY <1>4, <1>5

(* A reset of recvBufP clashes with a call that is under way.              *)
LEMMA ResetBuf ==
  ASSUME BufInv, Step, Reset
  PROVE  BufInv'
<1> USE TransportAssumption
<1>1. BufTypes /\ Locks /\ Asked /\ Wrapped
  BY DEF BufInv
<1>2. program' = program /\ spoilt'
  BY <1>1, StepFacts DEF Reset
<1>3. /\ rpc = "reset" /\ rpc' = "append"
      /\ UNCHANGED <<recvBuf_lock, reg, app, want, data, count, owed, intact>>
      /\ recvBufP' = 0 /\ recvBuf' = Empty
      /\ clashed' = (clashed \/ app # "idle")
  BY DEF Reset, readVars
<1>4. recvBuf' \in [1..Room -> Nat \cup {None}]
  BY <1>3 DEF Empty
<1>5. clashed' \in BOOLEAN /\ (app # "idle" => clashed')
  BY <1>1, <1>3 DEF BufTypes
<1>6. BufTypes'
  BY <1>1, <1>2, <1>3, <1>4, <1>5 DEF BufTypes
<1>7. Locks' /\ Asked'
  BY <1>1, <1>2, <1>3 DEF Locks, Asked, Appending
<1>8. Wrapped'
  BY <1>1, <1>3 DEF Wrapped, Off
<1>9. ~clashed' => InRoom'
  BY <1>3, <1>5 DEF InRoom
<1> QED BY <1>2, <1>6, <1>7, <1>8, <1>9 DEF BufInv

(* Falling out of the buffer: only after a clash.                          *)
LEMMA GoWildBuf ==
  ASSUME BufInv, Step, GoWild, ~clashed => FALSE
  PROVE  BufInv'
<1>1. BufTypes /\ Locks /\ Asked /\ Wrapped /\ clashed /\ spoilt
  BY DEF BufInv
<1>2. program' = program /\ spoilt'
  BY <1>1, StepFacts
<1>3. rpc' = "wild" /\ UNCHANGED bufVars
  BY DEF GoWild, readVars, histVars, bufVars
<1>4. BufTypes'
  BY <1>1, <1>2, <1>3 DEF BufTypes, bufVars
<1>5. Locks' /\ Asked'
  BY <1>1, <1>2, <1>3 DEF Locks, Asked, Appending, bufVars
<1>6. Wrapped'
  BY <1>1, <1>3 DEF Wrapped, bufVars, Off
<1>7. clashed'
  BY <1>1, <1>3 DEF bufVars
<1> QED BY <1>2, <1>4, <1>5, <1>6, <1>7 DEF BufInv

(* memcpy(recvBuf + recvBufP, ...).                                        *)
LEMMA AppendCopyBuf ==
  ASSUME BufInv, Step, AppendCopy
  PROVE  BufInv'
<1> USE TransportAssumption
<1>1. BufTypes /\ Locks /\ Asked /\ Wrapped
  BY DEF BufInv
<1>2. program' = program /\ spoilt' \in BOOLEAN /\ (spoilt => spoilt')
  BY <1>1, StepFacts
<1>3. CASE recvBufP >= Room /\ GoWild
  <2>1. ~clashed => FALSE
    BY <1>1, <1>3 DEF BufInv, InRoom, AppendCopy, BufTypes
  <2> QED BY <1>3, <2>1, GoWildBuf
<1>4. CASE /\ recvBufP < Room
           /\ recvBuf' = [recvBuf EXCEPT ![recvBufP + 1] = Place(owed + 1)]
           /\ recvBuf_lock' = "recvData" /\ rpc' = "copied"
           /\ UNCHANGED <<sendIndex, scanVars, recvBufP, reg, app, readVars, histVars>>
  <2>1. /\ UNCHANGED <<recvBufP, reg, app, want, data, count, owed, intact, clashed>>
        /\ rpc = "append" /\ recvBuf_lock = None
    BY <1>4 DEF AppendCopy, readVars, histVars
  <2>2. recvBufP + 1 \in 1..Room /\ owed + 1 \in Nat
    BY <1>1, <1>4 DEF BufTypes
  <2>3. recvBuf' \in [1..Room -> Nat \cup {None}]
    BY <1>1, <1>4, <2>2 DEF BufTypes, Place
  <2>4. BufTypes'
    BY <1>1, <1>2, <1>4, <2>1, <2>3 DEF BufTypes
  <2>5. program = "slave" => app \in {"idle", "test"}
    BY <1>1, <2>1 DEF Locks, BufTypes
  <2>6. Locks' /\ Asked'
    BY <1>1, <1>2, <1>4, <2>1, <2>5 DEF Locks, Asked, Appending
  <2>7. Wrapped'
    BY <1>1, <1>4, <2>1 DEF Wrapped, Off
  <2>8. ~clashed' => InRoom'
    BY <1>4, <2>1 DEF BufInv, InRoom
  <2>9. ~spoilt' => Stream'
    <3> SUFFICES ASSUME ~spoilt' PROVE Stream'
      OBVIOUS
    <3>1. Stream /\ ~spoilt
      BY <1>2 DEF BufInv
    <3>2. owed = recvBufP
      BY <3>1 DEF Stream
    <3>3. \A i \in 1..Room : recvBuf'[i] = IF i = recvBufP + 1 THEN recvBufP + 1 ELSE recvBuf[i]
      BY <1>1, <1>4, <2>2, <3>1, <3>2 DEF BufTypes, Place
    <3>4. CASE app \notin {"load", "store"}
      <4>1. Whole'
        BY <1>1, <1>4, <2>1, <2>2, <3>1, <3>3, <3>4 DEF Stream, Whole, Appending, BufTypes
      <4> QED BY <1>4, <2>1, <3>1, <3>4, <4>1 DEF Stream
    <3>5. CASE app \in {"load", "store"}
      <4>1. want <= recvBufP
        BY <3>1, <3>2, <3>5, <1>1 DEF BufInv, InRoom, BufTypes
      <4>2. Shifted
        BY <3>1, <3>5 DEF Stream
      <4>3. \A i \in 1..recvBufP - want : i \in 1..Room /\ i # recvBufP + 1
        BY <1>1, <1>4 DEF BufTypes
      <4>4. \A i \in 1..recvBufP - want : recvBuf'[i] = i + want
        BY <3>3, <4>2, <4>3 DEF Shifted
      <4>5. recvBufP + 1 >= want
        BY <1>1, <4>1 DEF BufTypes
      <4>6. \A i \in 1..Room : recvBuf'[i] = None \/ recvBuf'[i] >= want
        BY <3>3, <4>2, <4>5 DEF Shifted
      <4>7. Shifted'
        BY <2>1, <4>4, <4>6 DEF Shifted
      <4> QED BY <1>4, <2>1, <3>1, <3>5, <4>7 DEF Stream
    <3> QED BY <3>4, <3>5
  <2>10. clashed' => spoilt'
    BY <1>2, <2>1 DEF BufInv
  <2> QED BY <2>4, <2>6, <2>7, <2>8, <2>9, <2>10 DEF BufInv
<1> QED BY <1>3, <1>4 DEF AppendCopy

(* recvBufP is loaded to be raised.                                        *)
LEMMA AppendLoadBuf ==
  ASSUME BufInv, Step, AppendLoad
  PROVE  BufInv'
<1> USE TransportAssumption
<1>1. BufTypes /\ Locks /\ Asked /\ Wrapped
  BY DEF BufInv
<1>2. program' = program /\ spoilt' \in BOOLEAN /\ (spoilt => spoilt')
  BY <1>1, StepFacts
<1>3. /\ rpc = "copied" /\ rpc' = "loaded" /\ reg' = recvBufP
      /\ UNCHANGED <<recvBuf, recvBufP, recvBuf_lock, app, want, data, count,
                     owed, intact, clashed>>
  BY DEF AppendLoad, readVars, histVars
<1>4. BufTypes'
  BY <1>1, <1>2, <1>3 DEF BufTypes
<1>5. Locks' /\ Asked'
  BY <1>1, <1>2, <1>3 DEF Locks, Asked, Appending
<1>6. Wrapped'
  BY <1>1, <1>3 DEF Wrapped, Off
<1>7. ~clashed' => InRoom'
  BY <1>1, <1>3 DEF BufInv, InRoom, BufTypes
<1>8. ~spoilt' => Stream'
  <2> SUFFICES ASSUME ~spoilt' PROVE Stream'
    OBVIOUS
  <2>1. Stream
    BY <1>2 DEF BufInv
  <2>2. Appending /\ Appending'
    BY <1>3 DEF Appending
  <2> QED BY <1>3, <2>1, <2>2 DEF Stream, Whole, Shifted
<1>9. clashed' => spoilt'
  BY <1>2, <1>3 DEF BufInv
<1> QED BY <1>4, <1>5, <1>6, <1>7, <1>8, <1>9 DEF BufInv

(* recvBufP += 1.                                                          *)
LEMMA AppendStoreBuf ==
  ASSUME BufInv, Step, AppendStore, rpc' \in {"wait", "scan"}
  PROVE  BufInv'
<1> USE TransportAssumption
<1>1. BufTypes /\ Locks /\ Asked /\ Wrapped
  BY DEF BufInv
<1>2. /\ program' = program /\ spoilt' \in BOOLEAN /\ (spoilt => spoilt')
      /\ ~spoilt' => ~Overlap
  BY <1>1, StepFacts
<1>3. /\ rpc = "loaded" /\ recvBufP' = (reg + 1) % Wrap /\ recvBuf_lock' = None
      /\ owed' = IF spoilt THEN 0 ELSE owed + 1
      /\ UNCHANGED <<recvBuf, reg, app, want, data, count, intact, clashed>>
  BY DEF AppendStore, readVars
<1>4. recvBufP' \in 0..Wrap - 1
  <2>1. reg + 1 \in Int
    BY <1>1 DEF BufTypes
  <2>2. (reg + 1) % Wrap \in 0..Wrap - 1
    BY <2>1, WrapRange
  <2> QED BY <1>3, <2>2
<1>5. reg \in 0..Room - 1 => recvBufP' = reg + 1
  BY <1>3, PlusOne
<1>6. owed' \in 0..Room
  <2>1. CASE spoilt
    BY <1>3, <2>1
  <2>2. CASE ~spoilt
    <3>1. owed = recvBufP /\ reg = recvBufP /\ reg < Room
      BY <1>3, <2>2 DEF BufInv, Stream, InRoom
    <3> QED BY <1>1, <1>3, <2>2, <3>1 DEF BufTypes
  <2> QED BY <2>1, <2>2
<1>7. BufTypes'
  BY <1>1, <1>2, <1>3, <1>4, <1>6 DEF BufTypes
<1>8. Locks' /\ Asked'
  BY <1>1, <1>2, <1>3 DEF Locks, Asked, Appending, BufTypes
<1>9. Wrapped'
  <2>1. CASE reg <= Room
    <3>1. reg \in 0..Room - 1
      BY <1>1, <1>3, <2>1 DEF Wrapped, BufTypes
    <3>2. recvBufP' \in 0..Room
      BY <1>5, <3>1
    <3> QED BY <1>1, <1>3, <3>2 DEF Wrapped, Off
  <2>2. CASE reg > Room
    <3>1. reg \in Off /\ recvBufP = reg /\ app \in {"idle", "test", "copy", "shift"}
      BY <1>1, <1>3, <2>2 DEF Wrapped, BufTypes
    <3>2. recvBufP' \in 0..Room \cup Off
      <4>1. CASE reg + 1 <= Wrap - 1
        <5>1. reg + 1 \in 0..Wrap - 1
          BY <1>1, <4>1 DEF BufTypes
        <5>2. (reg + 1) % Wrap = reg + 1
          BY <5>1, WrapSmall
        <5>3. reg + 1 \in Off
          BY <3>1, <4>1 DEF Off
        <5> QED BY <1>3, <5>2, <5>3
      <4>2. CASE reg + 1 > Wrap - 1
        <5>1. reg + 1 = Wrap
          BY <1>1, <4>2 DEF BufTypes
        <5>2. (reg + 1) % Wrap = 0
          BY <5>1
        <5> QED BY <1>3, <5>2
      <4> QED BY <4>1, <4>2, <1>1 DEF BufTypes
    <3> QED BY <1>1, <1>3, <3>1, <3>2 DEF Wrapped, Off
  <2> QED BY <1>1, <2>1, <2>2 DEF BufTypes
<1>10. ~clashed' => InRoom'
  <2> SUFFICES ASSUME ~clashed PROVE InRoom'
    BY <1>3
  <2>1. reg < Room /\ recvBufP <= reg /\ InRoom
    BY <1>3 DEF BufInv, InRoom
  <2>2. recvBufP' = reg + 1 /\ recvBufP' <= Room /\ recvBufP <= recvBufP'
    BY <1>1, <1>5, <2>1 DEF BufTypes
  <2>3. app \in {"copy", "shift", "load"} => want <= recvBufP'
    BY <1>1, <1>4, <2>1, <2>2 DEF InRoom, BufTypes
  <2>4. app = "store" => want <= count /\ count <= recvBufP'
    BY <1>1, <1>4, <2>1, <2>2 DEF InRoom, BufTypes
  <2> QED BY <1>3, <2>2, <2>3, <2>4 DEF InRoom
<1>11. ~spoilt' => Stream'
  <2> SUFFICES ASSUME ~spoilt' PROVE Stream'
    OBVIOUS
  <2>1. Stream /\ ~spoilt /\ ~Overlap /\ InRoom
    BY <1>2 DEF BufInv
  <2>2. app \in {"idle", "test", "copyAll", "copy", "shift"}
    <3>1. CASE program = "slave"
      BY <1>1, <1>3, <3>1 DEF Locks, Appending
    <3>2. CASE program = "master"
      BY <1>1, <1>3, <2>1, <3>2 DEF Overlap, BufTypes
    <3> QED BY <1>1, <3>1, <3>2 DEF BufTypes
  <2>3. recvBufP' = recvBufP + 1 /\ owed' = recvBufP + 1 /\ recvBufP < Room
    BY <1>1, <1>3, <1>5, <2>1 DEF Stream, InRoom, BufTypes
  <2>4. Whole
    BY <2>1, <2>2 DEF Stream
  <2>5. \A i \in 1..recvBufP + 1 : recvBuf[i] = i
    BY <1>1, <1>3, <2>4 DEF Whole, Appending, BufTypes
  <2>6. Whole'
    BY <1>3, <2>3, <2>5 DEF Whole, Appending
  <2> QED BY <1>3, <2>1, <2>2, <2>3, <2>6 DEF Stream
<1>12. clashed' => spoilt'
  BY <1>2, <1>3 DEF BufInv
<1> QED BY <1>7, <1>8, <1>9, <1>10, <1>11, <1>12 DEF BufInv

-----------------------------------------------------------------------------
(* The application's calls.                                                *)
LEMMA JEANRecvBuf ==
  ASSUME BufInv, Step, NEW len \in 1..MaxWant, JEAN_recv(len)
  PROVE  BufInv'
<1> USE TransportAssumption
<1>1. BufTypes /\ Locks /\ Asked /\ Wrapped
  BY DEF BufInv
<1>2. program' = program /\ spoilt' \in BOOLEAN /\ (spoilt => spoilt')
  BY <1>1, StepFacts
<1>3. /\ app = "idle" /\ app' = "test" /\ want' = len
      /\ UNCHANGED <<rpc, recvBuf, recvBufP, recvBuf_lock, reg, data, count,
                     owed, intact, clashed>>
  BY DEF JEAN_recv, Reads, histVars
<1>4. BufTypes'
  BY <1>1, <1>2, <1>3 DEF BufTypes
<1>5. Locks' /\ Asked'
  BY <1>1, <1>2, <1>3 DEF Locks, Asked, Appending
<1>6. Wrapped'
  BY <1>1, <1>3 DEF Wrapped, Off
<1>7. ~clashed' => InRoom'
  BY <1>3 DEF BufInv, InRoom
<1>8. ~spoilt' => Stream'
  BY <1>2, <1>3 DEF BufInv, Stream, Whole, Appending
<1>9. clashed' => spoilt'
  BY <1>2, <1>3 DEF BufInv
<1> QED BY <1>4, <1>5, <1>6, <1>7, <1>8, <1>9 DEF BufInv

(* The test chooses how much to copy; a length that has wrapped round      *)
(* passes.                                                                 *)
LEMMA TestLenBuf ==
  ASSUME BufInv, Step, TestLen
  PROVE  BufInv'
<1> USE TransportAssumption
<1>1. BufTypes /\ Locks /\ Asked /\ Wrapped
  BY DEF BufInv
<1>2. program' = program /\ spoilt' \in BOOLEAN /\ (spoilt => spoilt')
  BY <1>1, StepFacts
<1>3. /\ app = "test" /\ app' = IF recvBufP < want THEN "copyAll" ELSE "copy"
      /\ UNCHANGED <<rpc, recvBuf, recvBufP, reg, want, data, count, owed, intact, clashed>>
      /\ \/ program = "slave" /\ recvBuf_lock = None /\ recvBuf_lock' = "app"
         \/ program = "master" /\ UNCHANGED recvBuf_lock
  BY DEF TestLen, Reads, histVars, readVars
<1>4. app' \in {"copyAll", "copy"}
  BY <1>3
<1>5. BufTypes'
  BY <1>1, <1>2, <1>3, <1>4 DEF BufTypes
<1>6. Locks' /\ Asked'
  BY <1>1, <1>2, <1>3, <1>4 DEF Locks, Asked, Appending
<1>7. Wrapped'
  <2>1. recvBufP > Room => app' = "copy"
    BY <1>1, <1>3 DEF Wrapped, Off, BufTypes
  <2> QED BY <1>1, <1>3, <1>4, <2>1 DEF Wrapped, Off
<1>8. ~clashed' => InRoom'
  BY <1>1, <1>3, <1>4 DEF BufInv, InRoom, BufTypes
<1>9. ~spoilt' => Stream'
  BY <1>2, <1>3, <1>4 DEF BufInv, Stream, Whole, Appending
<1>10. clashed' => spoilt'
  BY <1>2, <1>3 DEF BufInv
<1> QED BY <1>5, <1>6, <1>7, <1>8, <1>9, <1>10 DEF BufInv

(* The call takes all there is.                                            *)
LEMMA CopyAllBuf ==
  ASSUME BufInv, Step, CopyAll
  PROVE  BufInv'
<1> USE TransportAssumption
<1>1. BufTypes /\ Locks /\ Asked /\ Wrapped
  BY DEF BufInv
<1>2. program' = program /\ spoilt' \in BOOLEAN /\ (spoilt => spoilt')
  BY <1>1, StepFacts
<1>3. /\ app = "copyAll" /\ app' = "readLen" /\ data' = [i \in 1..recvBufP |-> recvBuf[i]]
      /\ UNCHANGED <<rpc, recvBuf, recvBufP, recvBuf_lock, reg, want, count,
                     owed, intact, clashed>>
  BY DEF CopyAll, Reads, Cells, histVars
<1>4. recvBufP \in 0..Room
  BY <1>1, <1>3 DEF Wrapped, BufTypes
<1>5. data' \in Seq(Nat \cup {None})
  <2>1. \A i \in 1..recvBufP : recvBuf[i] \in Nat \cup {None}
    BY <1>1, <1>4 DEF BufTypes
  <2> QED BY <1>3, <1>4, <2>1, IsASeq
<1>6. BufTypes'
  BY <1>1, <1>2, <1>3, <1>5 DEF BufTypes
<1>7. Locks' /\ Asked'
  BY <1>1, <1>2, <1>3 DEF Locks, Asked, Appending
<1>8. Wrapped'
  BY <1>1, <1>3, <1>4 DEF Wrapped, Off
<1>9. ~clashed' => InRoom'
  BY <1>3 DEF BufInv, InRoom
<1>10. ~spoilt' => Stream'
  <2> SUFFICES ASSUME ~spoilt' PROVE Stream'
    OBVIOUS
  <2>1. Stream /\ Whole
    BY <1>2, <1>3 DEF BufInv, Stream
  <2>2. data' = [i \in 1..recvBufP |-> i]
    BY <1>3, <2>1 DEF Whole
  <2> QED BY <1>3, <2>1, <2>2 DEF Stream, Whole, Appending
<1>11. clashed' => spoilt'
  BY <1>2, <1>3 DEF BufInv
<1> QED BY <1>6, <1>7, <1>8, <1>9, <1>10, <1>11 DEF BufInv

(* recvLen = recvBufP.                                                     *)
LEMMA ReadLenBuf ==
  ASSUME BufInv, Step, ReadLen
  PROVE  BufInv'
<1> USE TransportAssumption
<1>1. BufTypes /\ Locks /\ Asked /\ Wrapped
  BY DEF BufInv
<1>2. program' = program /\ spoilt' \in BOOLEAN /\ (spoilt => spoilt')
  BY <1>1, StepFacts
<1>3. /\ app = "readLen" /\ app' = "zero" /\ count' = recvBufP
      /\ UNCHANGED <<rpc, recvBuf, recvBufP, recvBuf_lock, reg, want, data,
                     owed, intact, clashed>>
  BY DEF ReadLen, Reads, histVars
<1>4. recvBufP \in 0..Room
  BY <1>1, <1>3 DEF Wrapped, BufTypes
<1>5. BufTypes'
  BY <1>1, <1>2, <1>3 DEF BufTypes
<1>6. Locks' /\ Asked'
  BY <1>1, <1>2, <1>3 DEF Locks, Asked, Appending
<1>7. Wrapped'
  BY <1>1, <1>3, <1>4 DEF Wrapped, Off
<1>8. ~clashed' => InRoom'
  BY <1>3 DEF BufInv, InRoom
<1>9. ~spoilt' => Stream'
  BY <1>2, <1>3 DEF BufInv, Stream, Whole, Appending
<1>10. clashed' => spoilt'
  BY <1>2, <1>3 DEF BufInv
<1> QED BY <1>5, <1>6, <1>7, <1>8, <1>9, <1>10 DEF BufInv

(* The call takes what it asked for.                                       *)
LEMMA CopyLenBuf ==
  ASSUME BufInv, Step, CopyLen
  PROVE  BufInv'
<1> USE TransportAssumption
<1>1. BufTypes /\ Locks /\ Asked /\ Wrapped
  BY DEF BufInv
<1>2. program' = program /\ spoilt' \in BOOLEAN /\ (spoilt => spoilt')
  BY <1>1, StepFacts
<1>3. CASE want > Room /\ GoWild
  <2>1. ~clashed => FALSE
    BY <1>1, <1>3 DEF BufInv, InRoom, CopyLen, BufTypes
  <2> QED BY <1>3, <2>1, GoWildBuf
<1>4. CASE /\ want <= Room /\ app' = "shift" /\ data' = Cells(want)
           /\ UNCHANGED <<sendIndex, rpc, scanVars, recvBuf, recvBufP, recvBuf_lock, reg,
                          want, count, histVars>>
  <2>1. /\ app = "copy" /\ data' = [i \in 1..want |-> recvBuf[i]]
        /\ UNCHANGED <<rpc, recvBuf, recvBufP, recvBuf_lock, reg, want, count,
                       owed, intact, clashed>>
    BY <1>4 DEF CopyLen, Cells, histVars
  <2>2. data' \in Seq(Nat \cup {None})
    <3>1. want \in Nat /\ \A i \in 1..want : recvBuf[i] \in Nat \cup {None}
      BY <1>1, <1>4 DEF BufTypes
    <3> QED BY <2>1, <3>1, IsASeq
  <2>3. BufTypes'
    BY <1>1, <1>2, <1>4, <2>1, <2>2 DEF BufTypes
  <2>4. Locks' /\ Asked'
    BY <1>1, <1>2, <1>4, <2>1 DEF Locks, Asked, Appending
  <2>5. Wrapped'
    BY <1>1, <1>4, <2>1 DEF Wrapped, Off
  <2>6. ~clashed' => InRoom'
    BY <1>4, <2>1 DEF BufInv, InRoom
  <2>7. ~spoilt' => Stream'
    <3> SUFFICES ASSUME ~spoilt' PROVE Stream'
      OBVIOUS
    <3>1. Stream /\ Whole /\ want <= recvBufP
      BY <1>2, <2>1 DEF BufInv, Stream, InRoom
    <3>2. data' = [i \in 1..want |-> i]
      BY <1>1, <2>1, <3>1 DEF Whole, BufTypes
    <3> QED BY <1>4, <2>1, <3>1, <3>2 DEF Stream, Whole, Appending
  <2>8. clashed' => spoilt'
    BY <1>2, <2>1 DEF BufInv
  <2> QED BY <2>3, <2>4, <2>5, <2>6, <2>7, <2>8 DEF BufInv
<1> QED BY <1>3, <1>4 DEF CopyLen

(* The rest moves to the front, while recvData is not appending.           *)
LEMMA ShiftBuf ==
  ASSUME BufInv, Step, Shift
  PROVE  BufInv'
<1> USE TransportAssumption
<1>1. BufTypes /\ Locks /\ Asked /\ Wrapped
  BY DEF BufInv
<1>2. program' = program /\ spoilt' \in BOOLEAN /\ (spoilt => spoilt')
  BY <1>1, StepFacts
<1>3. app = "shift" /\ ~Appending
  BY <1>1 DEF Shift, Locks, BufTypes
<1>4. CASE recvBufP \notin want..Room /\ GoWild
  <2>1. ~clashed => FALSE
    BY <1>1, <1>3, <1>4 DEF BufInv, InRoom, BufTypes
  <2> QED BY <1>4, <2>1, GoWildBuf
<1>5. CASE /\ recvBufP \in want..Room /\ app' = "load"
           /\ recvBuf' = [i \in 1..Room |->
                            IF i <= recvBufP - want THEN recvBuf[i + want] ELSE None]
           /\ UNCHANGED <<sendIndex, rpc, scanVars, recvBufP, recvBuf_lock, reg, readVars, histVars>>
  <2>1. UNCHANGED <<rpc, recvBufP, recvBuf_lock, reg, want, data, count, owed, intact, clashed>>
    BY <1>5 DEF readVars, histVars
  <2>2. \A i \in 1..Room : i <= recvBufP - want => i + want \in 1..Room
    BY <1>1, <1>5 DEF BufTypes
  <2>3. recvBuf' \in [1..Room -> Nat \cup {None}]
    BY <1>1, <1>5, <2>2 DEF BufTypes
  <2>4. BufTypes'
    BY <1>1, <1>2, <1>5, <2>1, <2>3 DEF BufTypes
  <2>5. Locks' /\ Asked'
    BY <1>1, <1>2, <1>3, <1>5, <2>1 DEF Locks, Asked, Appending
  <2>6. Wrapped'
    BY <1>1, <1>3, <1>5, <2>1 DEF Wrapped, Off, Appending, BufTypes
  <2>7. ~clashed' => InRoom'
    BY <1>3, <1>5, <2>1 DEF BufInv, InRoom
  <2>8. ~spoilt' => Stream'
    <3> SUFFICES ASSUME ~spoilt' PROVE Stream'
      OBVIOUS
    <3>1. Stream /\ Whole
      BY <1>2, <1>3 DEF BufInv, Stream
    <3>2. \A i \in 1..recvBufP - want : recvBuf'[i] = i + want
      <4> SUFFICES ASSUME NEW i \in 1..recvBufP - want PROVE recvBuf'[i] = i + want
        OBVIOUS
      <4>1. i \in 1..Room /\ i <= recvBufP - want /\ i + want \in 1..recvBufP
        BY <1>1, <1>5 DEF BufTypes
      <4> QED BY <1>5, <3>1, <4>1 DEF Whole
    <3>3. \A i \in 1..Room : recvBuf'[i] = None \/ recvBuf'[i] >= want
      <4> SUFFICES ASSUME NEW i \in 1..Room PROVE recvBuf'[i] = None \/ recvBuf'[i] >= want
        OBVIOUS
      <4>1. CASE i <= recvBufP - want
        <5>1. recvBuf'[i] = i + want
          BY <1>1, <3>2, <4>1 DEF BufTypes
        <5> QED BY <1>1, <5>1 DEF BufTypes
      <4>2. CASE ~(i <= recvBufP - want)
        BY <1>5, <4>2
      <4> QED BY <4>1, <4>2
    <3>4. Shifted'
      BY <2>1, <3>2, <3>3 DEF Shifted
    <3> QED BY <1>3, <1>5, <2>1, <3>1, <3>4 DEF Stream
  <2>9. clashed' => spoilt'
    BY <1>2, <2>1 DEF BufInv
  <2> QED BY <2>4, <2>5, <2>6, <2>7, <2>8, <2>9 DEF BufInv
<1> QED BY <1>4, <1>5 DEF Shift

(* recvBufP is loaded to be lowered.                                       *)
LEMMA LoadLenBuf ==
  ASSUME BufInv, Step, LoadLen
  PROVE  BufInv'
<1> USE TransportAssumption
<1>1. BufTypes /\ Locks /\ Asked /\ Wrapped
  BY DEF BufInv
<1>2. program' = program /\ spoilt' \in BOOLEAN /\ (spoilt => spoilt')
  BY <1>1, StepFacts
<1>3. /\ app = "load" /\ app' = "store" /\ count' = recvBufP
      /\ UNCHANGED <<rpc, recvBuf, recvBufP, recvBuf_lock, reg, want, data,
                     owed, intact, clashed>>
  BY DEF LoadLen, Reads, histVars
<1>4. recvBufP \in 0..Room
  BY <1>1, <1>3 DEF Wrapped, BufTypes
<1>5. BufTypes'
  BY <1>1, <1>2, <1>3 DEF BufTypes
<1>6. Locks' /\ Asked'
  BY <1>1, <1>2, <1>3 DEF Locks, Asked, Appending
<1>7. Wrapped'
  BY <1>1, <1>3, <1>4 DEF Wrapped, Off
<1>8. ~clashed' => InRoom'
  BY <1>3, <1>4 DEF BufInv, InRoom
<1>9. ~spoilt' => Stream'
  BY <1>2, <1>3 DEF BufInv, Stream, Shifted
<1>10. clashed' => spoilt'
  BY <1>2, <1>3 DEF BufInv
<1> QED BY <1>5, <1>6, <1>7, <1>8, <1>9, <1>10 DEF BufInv

(* The end of a call, which lowers recvBufP by the n packets returned.     *)
LEMMA ReturnBuf ==
  ASSUME BufInv, Step, NEW n, Return(n), Release, app \in {"zero", "store"},
         UNCHANGED rpc,
         ~spoilt => n \in 0..owed /\ data = [i \in 1..n |-> i],
         recvBuf' \in [1..Room -> Nat \cup {None}],
         recvBufP' \in 0..Room - 1 \cup Off,
         ~clashed => recvBufP' <= recvBufP,
         ~spoilt' => recvBufP' = owed - n /\ \A i \in 1..recvBufP' : recvBuf'[i] = i
  PROVE  BufInv'
<1> USE TransportAssumption
<1>1. BufTypes /\ Locks /\ Asked /\ Wrapped
  BY DEF BufInv
<1>2. /\ program' = program /\ spoilt' \in BOOLEAN /\ (spoilt => spoilt')
      /\ ~spoilt' => ~Overlap
  BY <1>1, StepFacts
<1>3. /\ app' = "idle" /\ want' = 0 /\ data' = <<>> /\ count' = 0
      /\ owed' = IF spoilt THEN 0 ELSE owed - n
      /\ UNCHANGED <<rpc, reg, clashed>>
  BY DEF Return
<1>4. recvBufP' \in 0..Wrap - 1 /\ recvBufP' # Room
  BY DEF Off
<1>5. owed' \in 0..Room
  BY <1>1, <1>3 DEF BufTypes
<1>6. intact' \in BOOLEAN /\ (~spoilt => intact' = intact)
  <2>1. intact' = (intact /\ (spoilt \/ (n = Len(data) /\ data = [i \in 1..n |-> i])))
    BY DEF Return
  <2>2. ~spoilt => n = Len(data)
    BY <1>1 DEF BufTypes
  <2>3. intact \in BOOLEAN
    BY <1>1 DEF BufTypes
  <2>4. CASE spoilt
    BY <2>1, <2>3, <2>4
  <2>5. CASE ~spoilt
    BY <2>1, <2>2, <2>3, <2>5
  <2> QED BY <2>4, <2>5
<1>7. recvBuf_lock' \in {None, "recvData", "app"}
  BY <1>1 DEF Release, BufTypes
<1>8. BufTypes'
  BY <1>1, <1>2, <1>3, <1>4, <1>5, <1>6, <1>7 DEF BufTypes
<1>9. Locks' /\ Asked'
  <2>1. Appending => program = "master" /\ recvBuf_lock = "recvData"
    BY <1>1 DEF Locks, BufTypes
  <2> QED BY <1>2, <1>3, <2>1 DEF Locks, Asked, Appending, Release
<1>10. Wrapped'
  <2>1. rpc = "loaded" => reg # Room /\ ~(reg > Room)
    BY <1>1 DEF Wrapped
  <2> QED BY <1>1, <1>3, <1>4, <2>1 DEF Wrapped, Off
<1>11. ~clashed' => InRoom'
  <2> SUFFICES ASSUME ~clashed PROVE InRoom'
    BY <1>3
  <2>1. InRoom /\ recvBufP' <= recvBufP
    BY DEF BufInv
  <2>2. recvBufP' <= Room /\ (recvBufP < Room => recvBufP' < Room)
    BY <1>1, <1>4, <2>1 DEF InRoom, BufTypes
  <2>3. recvBufP <= reg => recvBufP' <= reg
    BY <1>1, <1>4, <2>1 DEF BufTypes
  <2> QED BY <1>3, <2>1, <2>2, <2>3 DEF InRoom
<1>12. ~spoilt' => Stream'
  <2> SUFFICES ASSUME ~spoilt' PROVE Stream'
    OBVIOUS
  <2>1. Stream /\ ~spoilt /\ ~Overlap
    BY <1>2 DEF BufInv
  <2>2. ~Appending
    <3>1. CASE program = "slave"
      BY <1>1, <3>1 DEF Locks
    <3>2. CASE program = "master"
      BY <2>1, <3>2 DEF Overlap, Appending
    <3> QED BY <1>1, <3>1, <3>2 DEF BufTypes
  <2>3. ~Appending' /\ rpc' # "loaded"
    BY <1>3, <2>2 DEF Appending
  <2>4. intact' /\ owed' = recvBufP'
    BY <1>3, <1>6, <2>1 DEF Stream
  <2>5. Whole'
    BY <2>3 DEF Whole
  <2> QED BY <1>3, <2>3, <2>4, <2>5 DEF Stream
<1>13. clashed' => spoilt'
  BY <1>2, <1>3 DEF BufInv
<1> QED BY <1>8, <1>9, <1>10, <1>11, <1>12, <1>13 DEF BufInv

(* recvBufP = 0, after a copy of everything.                               *)
LEMMA ZeroBuf ==
  ASSUME BufInv, Step, Zero
  PROVE  BufInv'
<1> USE TransportAssumption
<1>1. BufTypes /\ Wrapped
  BY DEF BufInv
<1>2. /\ app = "zero" /\ recvBufP' = 0 /\ recvBuf' = Empty /\ Release /\ Return(count)
      /\ UNCHANGED rpc
  BY DEF Zero, Return
<1>3. ~spoilt => /\ count \in 0..owed /\ owed - count = 0
                 /\ data = [i \in 1..count |-> i]
  <2> SUFFICES ASSUME ~spoilt PROVE count \in 0..owed /\ owed - count = 0
                                   /\ data = [i \in 1..count |-> i]
    OBVIOUS
  <2>1. owed = recvBufP /\ count = recvBufP /\ data = [i \in 1..recvBufP |-> i]
    BY <1>2 DEF BufInv, Stream
  <2> QED BY <1>1, <2>1 DEF BufTypes
<1>4. recvBuf' \in [1..Room -> Nat \cup {None}]
  BY <1>2 DEF Empty
<1>5. recvBufP' \in 0..Room - 1 /\ recvBufP' <= recvBufP
  BY <1>1, <1>2 DEF BufTypes
<1>6. ~spoilt' => ~spoilt
  BY <1>1, StepFacts
<1>7. ~spoilt' => recvBufP' = owed - count /\ \A i \in 1..recvBufP' : recvBuf'[i] = i
  BY <1>2, <1>3, <1>6
<1> QED BY <1>2, <1>3, <1>4, <1>5, <1>7, ReturnBuf

(* recvBufP -= len, which goes below zero only after a clash.              *)
LEMMA StoreLenBuf ==
  ASSUME BufInv, Step, StoreLen
  PROVE  BufInv'
<1> USE TransportAssumption
<1>1. BufTypes /\ Asked /\ Wrapped
  BY DEF BufInv
<1>2. /\ app = "store" /\ recvBufP' = (count - want) % Wrap /\ Release /\ Return(want)
      /\ recvBuf' = [i \in 1..Room |->
                       IF recvBuf[i] = None THEN None ELSE Place(recvBuf[i] - want)]
      /\ UNCHANGED rpc
  BY DEF StoreLen, Return
<1>3. want \in 1..MaxWant /\ count \in 0..Room
  BY <1>1, <1>2 DEF BufTypes, Asked, Wrapped
<1>4. want <= count => recvBufP' = count - want
  <2> SUFFICES ASSUME want <= count PROVE (count - want) % Wrap = count - want
    BY <1>2
  <2>1. count - want \in 0..Wrap - 1
    BY <1>3
  <2> QED BY <2>1, WrapSmall
<1>5. recvBufP' \in 0..Room - 1 \cup Off
  <2>1. CASE want <= count
    <3>1. count - want \in 0..Room - 1
      BY <1>3, <2>1
    <3> QED BY <1>4, <2>1, <3>1
  <2>2. CASE ~(want <= count)
    <3>1. count - want \in Int /\ -MaxWant <= count - want /\ count - want < 0
      BY <1>3, <2>2
    <3>2. (count - want) % Wrap = Wrap + (count - want)
      BY <3>1, WrapBelow
    <3>3. Wrap + (count - want) \in Off
      BY <1>3, <3>1 DEF Off
    <3> QED BY <1>2, <3>2, <3>3
  <2> QED BY <2>1, <2>2
<1>6. ~clashed => recvBufP' <= recvBufP
  <2> SUFFICES ASSUME ~clashed PROVE recvBufP' <= recvBufP
    OBVIOUS
  <2>1. want <= count /\ count <= recvBufP
    BY <1>2 DEF BufInv, InRoom
  <2>2. count - want <= recvBufP
    BY <1>1, <1>3, <2>1 DEF BufTypes
  <2> QED BY <1>4, <2>1, <2>2
<1>7. ~spoilt => /\ want \in 0..owed /\ data = [i \in 1..want |-> i]
                 /\ Shifted /\ owed = recvBufP /\ count = recvBufP /\ want <= count
  <2> SUFFICES ASSUME ~spoilt
               PROVE  /\ want \in 0..owed /\ data = [i \in 1..want |-> i]
                      /\ Shifted /\ owed = recvBufP /\ count = recvBufP /\ want <= count
    OBVIOUS
  <2>1. /\ owed = recvBufP /\ count = recvBufP /\ data = [i \in 1..want |-> i] /\ Shifted
        /\ want <= count
    BY <1>2 DEF BufInv, Stream, InRoom
  <2> QED BY <1>1, <1>3, <2>1 DEF BufTypes
<1>8. recvBuf' \in [1..Room -> Nat \cup {None}]
  <2> SUFFICES ASSUME NEW i \in 1..Room
               PROVE  (IF recvBuf[i] = None THEN None ELSE Place(recvBuf[i] - want))
                        \in Nat \cup {None}
    BY <1>2
  <2>1. CASE recvBuf[i] = None \/ spoilt
    BY <2>1 DEF Place
  <2>2. CASE recvBuf[i] # None /\ ~spoilt
    <3>1. recvBuf[i] \in Nat /\ recvBuf[i] >= want
      BY <1>1, <1>7, <2>2 DEF BufTypes, Shifted
    <3>2. recvBuf[i] - want \in Nat
      BY <1>3, <3>1
    <3> QED BY <2>2, <3>2 DEF Place
  <2> QED BY <2>1, <2>2
<1>9. ~spoilt' => recvBufP' = owed - want /\ \A i \in 1..recvBufP' : recvBuf'[i] = i
  <2> SUFFICES ASSUME ~spoilt'
               PROVE  recvBufP' = owed - want /\ \A i \in 1..recvBufP' : recvBuf'[i] = i
    OBVIOUS
  <2>1. ~spoilt
    BY <1>1, StepFacts
  <2>2. recvBufP' = recvBufP - want /\ owed = recvBufP
    BY <1>4, <1>7, <2>1
  <2>3. ASSUME NEW i \in 1..recvBufP - want PROVE recvBuf'[i] = i
    <3>1. i \in 1..Room /\ i + want \in Nat
      BY <1>1, <1>3, <1>7, <2>1 DEF BufTypes
    <3>2. recvBuf[i] = i + want
      BY <1>7, <2>1 DEF Shifted
    <3>3. recvBuf[i] # None
      BY <3>1, <3>2
    <3>4. Place(recvBuf[i] - want) = i
      BY <1>3, <2>1, <3>2 DEF Place
    <3> QED BY <1>2, <3>1, <3>3, <3>4
  <2> QED BY <2>2, <2>3
<1> QED BY <1>2, <1>5, <1>6, <1>7, <1>8, <1>9, ReturnBuf

-----------------------------------------------------------------------------
(* The whole invariant.                                                    *)
LEMMA InitDataInv == DataInit => DataInv
<1> SUFFICES ASSUME DataInit PROVE DataInv
  OBVIOUS
<1> USE TransportAssumption
<1>1. ScanTypes
  <2>1. 0 \in Packet /\ 0 \in 0..MaxIndex + 1
    BY DEF Packet
  <2>2. Len(proc) <= Room - Slack /\ Len(back) < Room
    <3>1. Len(proc) = 0 /\ Len(back) = 0
      BY DEF DataInit
    <3> QED BY <3>1
  <2>3. pauseSign \in BOOLEAN
    BY DEF DataInit
  <2> QED BY <2>1, <2>2, <2>3 DEF DataInit, ScanTypes, Packet
<1>2. Gapless
  <2>1. 0 + 1 .. 0 = {} /\ <<>> \in Seq({})
    OBVIOUS
  <2> QED BY <2>1 DEF DataInit, Gapless
<1>3. BufTypes
  <2>1. intact \in BOOLEAN /\ spoilt \in BOOLEAN /\ clashed \in BOOLEAN
    BY DEF DataInit
  <2>2. recvBuf \in [1..Room -> Nat \cup {None}]
    BY DEF DataInit, Empty
  <2> QED BY <2>1, <2>2 DEF DataInit, BufTypes
<1>4. Locks /\ Asked /\ Wrapped /\ InRoom
  BY DEF DataInit, Locks, Asked, Wrapped, InRoom, Appending, Off
<1>5. Stream
  BY DEF DataInit, Stream, Whole, Appending
<1> QED BY <1>1, <1>2, <1>3, <1>4, <1>5 DEF DataInit, DataInv, ScanInv, BufInv

(* recvData's scan and the peer's sends touch nothing shared.              *)
LEMMA ScanActions ==
  ASSUME DataInv, Step,
         \/ JEAN_send
         \/ \E d \in 0..sendIndex - 1 : Receive(d)
         \/ Receive(Get)
         \/ \E d \in Packet : Scan(d)
  PROVE  DataInv'
<1>1. ScanInv /\ BufInv
  BY DEF DataInv
<1>2. CASE JEAN_send
  <2>1. ScanInv'
    BY <1>1, <1>2, SendScan
  <2>2. BufInv'
    BY <1>1, <1>2, BufStays DEF JEAN_send, bufVars, readVars, histVars
  <2> QED BY <2>1, <2>2 DEF DataInv
<1>3. ASSUME NEW d \in Packet \cup {Get}, Receive(d) PROVE DataInv'
  <2>1. ScanInv' /\ rpc' \in {"wait", "scan", "overrun"}
    BY <1>1, <1>3, ReceiveScan
  <2>2. BufInv'
    BY <1>1, <1>3, <2>1, BufStays DEF Receive, bufVars, readVars, Quiet
  <2> QED BY <2>1, <2>2 DEF DataInv
<1>4. 0..sendIndex - 1 \subseteq Packet
  BY <1>1, TransportAssumption DEF ScanInv, ScanTypes, Packet
<1>5. ASSUME NEW d \in Packet, Scan(d) PROVE DataInv'
  <2>1. CASE SkipOld(d)
    <3>1. ScanInv' /\ rpc' \in {"wait", "scan"}
      BY <1>1, <2>1, SkipOldScan
    <3>2. BufInv'
      BY <1>1, <2>1, <3>1, BufStays DEF SkipOld, bufVars, readVars, histVars, Quiet
    <3> QED BY <3>1, <3>2 DEF DataInv
  <2>2. CASE TakeBack(d)
    <3>1. ScanInv' /\ rpc' \in {"wait", "overrun"}
      BY <1>1, <2>2, TakeBackScan
    <3>2. BufInv'
      BY <1>1, <2>2, <3>1, BufStays DEF TakeBack, bufVars, readVars, histVars, Quiet
    <3> QED BY <3>1, <3>2 DEF DataInv
  <2>3. CASE SetAside(d)
    <3>1. ScanInv' /\ rpc' = "wait"
      BY <1>1, <2>3, SetAsideScan
    <3>2. BufInv'
      BY <1>1, <2>3, <3>1, BufStays DEF SetAside, bufVars, readVars, histVars, Quiet
    <3> QED BY <3>1, <3>2 DEF DataInv
  <2>4. CASE Accept(d)
    <3>1. ScanInv' /\ rpc' = "room"
      BY <1>1, <2>4, AcceptScan
    <3>2. BufInv'
      BY <1>1, <2>4, <3>1, BufStays DEF Accept, bufVars, readVars, histVars, Quiet
    <3> QED BY <3>1, <3>2 DEF DataInv
  <2> QED BY <1>5, <2>1, <2>2, <2>3, <2>4 DEF Scan
<1> QED BY <1>2, <1>3, <1>4, <1>5

(* The steps of an append touch both halves.                               *)
LEMMA AppendActions ==
  ASSUME DataInv, Step, CheckRoom \/ Reset \/ AppendCopy \/ AppendLoad \/ AppendStore
  PROVE  DataInv'
<1>1. ScanInv /\ BufInv
  BY DEF DataInv
<1>2. CASE CheckRoom
  <2>1. ScanInv'
    BY <1>1, <1>2, ScanStays DEF CheckRoom, histVars
  <2> QED BY <1>1, <1>2, <2>1, CheckRoomBuf DEF DataInv
<1>3. CASE Reset
  <2>1. ScanInv'
    BY <1>1, <1>3, ScanStays DEF Reset
  <2> QED BY <1>1, <1>3, <2>1, ResetBuf DEF DataInv
<1>4. CASE AppendCopy
  <2>1. ScanInv'
    BY <1>1, <1>4, ScanStays DEF AppendCopy, GoWild, histVars
  <2> QED BY <1>1, <1>4, <2>1, AppendCopyBuf DEF DataInv
<1>5. CASE AppendLoad
  <2>1. ScanInv'
    BY <1>1, <1>5, ScanStays DEF AppendLoad, histVars
  <2> QED BY <1>1, <1>5, <2>1, AppendLoadBuf DEF DataInv
<1>6. CASE AppendStore
  BY <1>1, <1>6, AppendStoreScan, AppendStoreBuf DEF DataInv
<1> QED BY <1>2, <1>3, <1>4, <1>5, <1>6

(* The application never touches what recvData keeps for itself.           *)
LEMMA ApplicationActions ==
  ASSUME DataInv, Step, Application
  PROVE  DataInv'
<1>1. ScanInv /\ BufInv
  BY DEF DataInv
<1>2. UNCHANGED <<sendIndex, scanVars, arrived, lastRead>> /\ (rpc' = rpc \/ rpc' = "wild")
  BY DEF Application, JEAN_recv, TestLen, CopyAll, ReadLen, Zero, CopyLen, Shift, LoadLen,
         StoreLen, Return, GoWild, histVars
<1>3. ScanInv'
  BY <1>1, <1>2, ScanStays
<1>4. BufInv'
  BY <1>1, JEANRecvBuf, TestLenBuf, CopyAllBuf, ReadLenBuf, ZeroBuf, CopyLenBuf, ShiftBuf,
     LoadLenBuf, StoreLenBuf DEF Application
<1> QED BY <1>3, <1>4 DEF DataInv

LEMMA NextDataInv == DataInv /\ [DataNext]_dataVars => DataInv'
<1> SUFFICES ASSUME DataInv, [DataNext]_dataVars PROVE DataInv'
  OBVIOUS
<1>1. CASE DataNext
  <2>1. Step
    BY <1>1 DEF DataNext, Step
  <2> QED BY <1>1, <2>1, ScanActions, AppendActions, ApplicationActions DEF DataNext, recvData
<1>2. CASE UNCHANGED dataVars
  <2>1. ScanInv'
    BY <1>2, ScanStays DEF dataVars, histVars, DataInv
  <2>2. UNCHANGED <<program, spoilt>> /\ UNCHANGED bufVars /\ UNCHANGED rpc
    BY <1>2 DEF dataVars, histVars, readVars, bufVars
  <2>3. BufInv'
    BY <2>2 DEF DataInv, BufInv, BufTypes, Locks, Asked, Wrapped, InRoom, Stream, Whole, Shifted,
                Appending, Off, bufVars
  <2> QED BY <2>1, <2>3 DEF DataInv
<1> QED BY <1>1, <1>2

-----------------------------------------------------------------------------
(* recvData's and the application's view of the buffer hold whatever       *)
(* arrives and however the two threads interleave.                         *)
THEOREM DataInvariance == DataSpec => []DataInv
<1>1. DataInit => DataInv
  BY InitDataInv
<1>2. DataInv /\ [DataNext]_dataVars => DataInv'
  BY NextDataInv
<1> QED BY <1>1, <1>2, PTL DEF DataSpec

(* Every variable keeps its type: neither of recvData's own buffers is     *)
(* filled beyond its size.                                                 *)
THEOREM DataTypeCorrect == DataSpec => []DataTypeOK
BY DataInvariance, TypesHold, PTL

(* What JEAN_recv returns is what recvData put into recvBuf, unless the    *)
(* buffer was reset or, in the master, an append met the end of a call.    *)
THEOREM StreamIsIntact == DataSpec => []StreamIntact
<1>1. DataInv => StreamIntact
  <2> SUFFICES ASSUME DataInv, ~spoilt
               PROVE  /\ intact
                      /\ app = "idle" /\ rpc \notin {"copied", "loaded"} =>
                           owed = recvBufP /\ \A i \in 1..owed : recvBuf[i] = i
    BY DEF StreamIntact
  <2>1. Stream
    BY DEF DataInv, BufInv
  <2> QED BY <2>1 DEF Stream, Whole
<1> QED BY <1>1, DataInvariance, PTL

(* recvBufP leaves the buffer, and a copy goes outside it, only after a    *)
(* reset that met a call.                                                  *)
THEOREM ReadsAreInRoom == DataSpec => []ReadsStayInRoom
<1>1. DataInv => ReadsStayInRoom
  BY TransportAssumption DEF DataInv, BufInv, InRoom, BufTypes, ReadsStayInRoom
<1> QED BY <1>1, DataInvariance, PTL

(* A packet goes to the application only after the one read before it and  *)
(* all between them but packet 0, or is packet 0 itself.                   *)
THEOREM NoGapIsUnseen == DataSpec => NoUnseenGap
<1>1. DataInv /\ [DataNext]_dataVars =>
        [Appends =>
           \/ lastRead' = 0
           \/ lastRead < lastRead' /\ lastRead + 1 .. lastRead' - 1 \subseteq arrived \cup {0}]_dataVars
  <2> SUFFICES ASSUME DataInv, DataNext, Appends
               PROVE  \/ lastRead' = 0
                      \/ /\ lastRead < lastRead'
                         /\ lastRead + 1 .. lastRead' - 1 \subseteq arrived \cup {0}
    OBVIOUS
  <2>1. AppendStore
    BY DEF Appends, DataNext, JEAN_send, recvData, Receive, Scan, At, SkipOld, TakeBack, Ahead,
           SetAside, Accept, CheckRoom, Reset, AppendCopy, AppendLoad, GoWild, Application,
           JEAN_recv, TestLen, CopyAll, ReadLen, Zero, CopyLen, Shift, LoadLen, StoreLen, Return
  <2>2. rpc = "loaded" /\ lastRead' = Head(proc)
    BY <2>1 DEF AppendStore
  <2>3. /\ lastRead' = lastIndex
        /\ \/ lastIndex = 0
           \/ lastRead < lastIndex /\ lastRead + 1 .. lastIndex \subseteq arrived \cup {0}
    BY <2>2 DEF DataInv, ScanInv, Gapless
  <2>4. lastIndex \in Nat /\ lastRead \in Int
    BY DEF DataInv, ScanInv, ScanTypes, Packet
  <2>5. lastRead + 1 .. lastIndex - 1 \subseteq lastRead + 1 .. lastIndex
    BY <2>4
  <2> QED BY <2>3, <2>5
<1> QED BY <1>1, DataInvariance, PTL DEF DataSpec, NoUnseenGap
=============================================================================
