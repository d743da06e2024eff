----------------------------- MODULE NatProofs ------------------------------
(***************************************************************************)
(* Proofs about NatTest, for bursts of any length and any number of runs   *)
(* of the client.                                                          *)
(***************************************************************************)
EXTENDS NatTest, TLAPS

(* The server's three variables together are one position in its cycle of  *)
(* addresses, port_flag.                                                   *)
Position ==
  <<port_flag, port, chang_ip>> \in
    {<<0, 0, 0>>, <<1, 0, 1>>, <<2, 1, 0>>, <<3, 1, 1>>, <<4, 2, 0>>, <<5, 2, 1>>}

(* The Android client never sends to the server's second address.          *)
Stalled == port_flag \in {0, 1} /\ (port_flag = 1 => queued = 0)

(* While nothing is lost or late, the linux client and the server are in   *)
(* one of three relations.  In a burst, the server is at its address and   *)
(* has taken or queued all that was sent.                                  *)
InStep == port_flag = burst - 1 /\ taken + queued = sent

(* After a burst, the server has moved to the next address.                *)
Ahead ==
  /\ sent = Count /\ taken = 0 /\ queued = 0
  /\ port_flag = IF burst = 6 THEN 1 ELSE burst

(* In the first burst of a later run, the server waits at the second.      *)
Waiting == run > 1 /\ burst = 1 /\ port_flag = 1 /\ taken = 0 /\ queued = 0

Together == InStep \/ Ahead \/ Waiting

(* The inductive invariant: LinuxKeepsStep says nothing of where the       *)
(* server is between two bursts.                                           *)
NatInv ==
  /\ NatTypeOK
  /\ Position
  /\ calm => up /\ ~recvFailed
  /\ program = "android" /\ ~recvFailed => Stalled
  /\ program = "linux" /\ calm => Together
  /\ LinuxKeepsStep

-----------------------------------------------------------------------------
(* The bursts, one by one.                                                 *)
LEMMA LinuxBurstsAre ==
  /\ Len(LinuxBursts) = 6
  /\ LinuxBursts[1] = <<"ip1", 0>> /\ LinuxBursts[2] = <<"ip2", 0>>
  /\ LinuxBursts[3] = <<"ip1", 1>> /\ LinuxBursts[4] = <<"ip2", 1>>
  /\ LinuxBursts[5] = <<"ip1", 2>> /\ LinuxBursts[6] = <<"ip2", 2>>
BY DEF LinuxBursts

LEMMA AndroidBurstsAre ==
  /\ Len(AndroidBursts) = 3
  /\ AndroidBursts[1] = <<"ip1", 0>> /\ AndroidBursts[2] = <<"ip1", 1>>
  /\ AndroidBursts[3] = <<"ip1", 2>>
BY DEF AndroidBursts

(* Every burst goes to one of the addresses.                               *)
LEMMA BurstsAreAddresses ==
  ASSUME NatTypeOK
  PROVE  Bursts[burst] \in Addresses
<1>1. CASE program = "linux"
  <2>1. burst \in 1..6
    BY <1>1, LinuxBurstsAre DEF NatTypeOK, Bursts
  <2>2. burst = 1 \/ burst = 2 \/ burst = 3 \/ burst = 4 \/ burst = 5 \/ burst = 6
    BY <2>1
  <2> QED BY <1>1, <2>2, LinuxBurstsAre DEF Bursts, Addresses
<1>2. CASE program = "android"
  <2>1. burst \in 1..3
    BY <1>2, AndroidBurstsAre DEF NatTypeOK, Bursts
  <2>2. burst = 1 \/ burst = 2 \/ burst = 3
    BY <2>1
  <2> QED BY <1>2, <2>2, AndroidBurstsAre DEF Bursts, Addresses
<1> QED BY <1>1, <1>2 DEF NatTypeOK

(* In the linux client's cycle, the address of the server is the burst of  *)
(* the same number.                                                        *)
LEMMA BoundIsBurst ==
  ASSUME Position
  PROVE  /\ port_flag \in 0..5 /\ port \in 0..2 /\ chang_ip \in {0, 1}
         /\ Bound = LinuxBursts[port_flag + 1]
BY LinuxBurstsAre DEF Position, Bound

(* No address comes twice in the cycle, so that every one has one place to *)
(* go on to.                                                               *)
LEMMA FollowingIs ==
  ASSUME NEW k \in 1..6
  PROVE  Following(LinuxBursts[k]) = LinuxBursts[IF k = 6 THEN 2 ELSE k + 1]
<1> DEFINE next(j) == LinuxBursts[IF j = 6 THEN 2 ELSE j + 1]
<1>1. \A i, j \in 1..6 : LinuxBursts[i] = LinuxBursts[j] => i = j
  <2> SUFFICES ASSUME NEW i \in 1..6, NEW j \in 1..6, LinuxBursts[i] = LinuxBursts[j]
               PROVE  i = j
    OBVIOUS
  <2>1. i \in {1, 2, 3, 4, 5, 6} /\ j \in {1, 2, 3, 4, 5, 6}
    OBVIOUS
  <2> QED BY <2>1, LinuxBurstsAre
<1>2. next(k) \in Addresses
  <2>1. k \in {1, 2, 3, 4, 5, 6}
    OBVIOUS
  <2> QED BY <2>1, LinuxBurstsAre DEF Addresses
<1>3. \A b \in Addresses :
        (\E j \in 1..6 : LinuxBursts[j] = LinuxBursts[k] /\ b = next(j)) <=> b = next(k)
  BY <1>1
<1> HIDE DEF next
<1>4. (CHOOSE b \in Addresses :
         \E j \in 1..6 : LinuxBursts[j] = LinuxBursts[k] /\ b = next(j)) = next(k)
  BY <1>2, <1>3
<1> QED BY <1>4 DEF Following, next

-----------------------------------------------------------------------------
(* The server's move takes it to the next position, and from the last one  *)
(* to the second.                                                          *)
LEMMA MoveOnGoes ==
  ASSUME Position, MoveOn
  PROVE  Position' /\ port_flag' = IF port_flag = 5 THEN 1 ELSE port_flag + 1
<1>1. CASE port_flag = 0 /\ port = 0 /\ chang_ip = 0
  BY <1>1 DEF MoveOn, Position
<1>2. CASE port_flag = 1 /\ port = 0 /\ chang_ip = 1
  BY <1>2 DEF MoveOn, Position
<1>3. CASE port_flag = 2 /\ port = 1 /\ chang_ip = 0
  BY <1>3 DEF MoveOn, Position
<1>4. CASE port_flag = 3 /\ port = 1 /\ chang_ip = 1
  BY <1>4 DEF MoveOn, Position
<1>5. CASE port_flag = 4 /\ port = 2 /\ chang_ip = 0
  BY <1>5 DEF MoveOn, Position
<1>6. CASE port_flag = 5 /\ port = 2 /\ chang_ip = 1
  BY <1>6 DEF MoveOn, Position
<1> QED BY <1>1, <1>2, <1>3, <1>4, <1>5, <1>6 DEF Position

(* In a burst, the addresses of the client and the server are the same     *)
(* only at the same position.                                              *)
LEMMA SameAddress ==
  ASSUME NatTypeOK, Position, program = "linux"
  PROVE  /\ burst \in 1..6
         /\ port_flag = burst - 1 => Bursts[burst] = Bound
<1>1. burst \in 1..6 /\ Bursts[burst] = LinuxBursts[burst]
  BY LinuxBurstsAre DEF NatTypeOK, Bursts
<1>2. port_flag = burst - 1 => port_flag + 1 = burst
  BY <1>1, BoundIsBurst
<1> QED BY <1>1, <1>2, BoundIsBurst

(* What a step of the server keeps, whether recvfrom has failed or not.    *)
LEMMA CountsKeeps ==
  ASSUME NatTypeOK, Position, NEW left \in Nat, Counts(left),
         UNCHANGED <<program, run, burst, sent, missed>>,
         recvFailed' \in BOOLEAN, calm' \in BOOLEAN
  PROVE  NatTypeOK' /\ Position'
<1> USE NatAssumption
<1>1. CASE /\ taken + 1 < Count /\ taken' = taken + 1 /\ queued' = left
           /\ UNCHANGED <<up, port, port_flag, chang_ip>>
  <2>1. taken' \in 0..Count - 1
    BY <1>1 DEF NatTypeOK
  <2> QED BY <1>1, <2>1 DEF NatTypeOK, Bursts, Position
<1>2. CASE taken + 1 = Count /\ taken' = 0 /\ queued' = 0 /\ MoveOn /\ up' \in BOOLEAN
  <2>1. Position'
    BY <1>2, MoveOnGoes
  <2>2. port' \in 0..2 /\ port_flag' \in 0..5 /\ chang_ip' \in {0, 1}
    BY <2>1 DEF Position
  <2>3. taken' \in 0..Count - 1
    BY <1>2
  <2> QED BY <1>2, <2>1, <2>2, <2>3 DEF NatTypeOK, Bursts
<1> QED BY <1>1, <1>2 DEF Counts

(* The server takes a datagram, and moves on after the last of a burst.    *)
LEMMA TakeDatagramKeeps ==
  ASSUME NatInv, TakeDatagram
  PROVE  NatInv'
<1> USE NatAssumption
<1>1. NatTypeOK /\ Position /\ LinuxKeepsStep /\ port_flag \in 0..5
  BY BoundIsBurst DEF NatInv
<1>2. /\ UNCHANGED <<program, run, burst, sent, recvFailed, missed>>
      /\ calm' = (calm /\ up') /\ Counts(queued - 1)
  BY DEF TakeDatagram, clientSide
<1>3. queued \in Nat /\ queued > 0 /\ queued - 1 \in Nat
  BY <1>1 DEF TakeDatagram, NatTypeOK
<1>4. calm \in BOOLEAN /\ recvFailed \in BOOLEAN /\ up' \in BOOLEAN /\ calm' \in BOOLEAN
  BY <1>1, <1>2 DEF NatTypeOK, Counts
<1>5. NatTypeOK' /\ Position'
  BY <1>1, <1>2, <1>3, <1>4, CountsKeeps
<1>6. LinuxKeepsStep' /\ (calm' => up' /\ ~recvFailed') /\ (calm' => calm)
  BY <1>1, <1>2, <1>4 DEF NatInv, LinuxKeepsStep
<1>7. CASE /\ taken + 1 < Count /\ taken' = taken + 1 /\ queued' = queued - 1
           /\ UNCHANGED <<up, port, port_flag, chang_ip>>
  <2>1. program = "android" /\ ~recvFailed => Stalled'
    BY <1>3, <1>7 DEF NatInv, Stalled
  <2>2. program = "linux" /\ calm => Together'
    <3> SUFFICES ASSUME program = "linux", calm PROVE InStep'
      BY DEF Together
    <3>1. InStep
      BY <1>3 DEF NatInv, Together, Ahead, Waiting
    <3>2. taken' + queued' = taken + queued
      BY <1>1, <1>7 DEF NatTypeOK
    <3> QED BY <1>2, <1>7, <3>1, <3>2 DEF InStep
  <2> QED BY <1>2, <1>5, <1>6, <2>1, <2>2 DEF NatInv
<1>8. CASE taken + 1 = Count /\ taken' = 0 /\ queued' = 0 /\ MoveOn
  <2>1. port_flag' = IF port_flag = 5 THEN 1 ELSE port_flag + 1
    BY <1>1, <1>8, MoveOnGoes
  <2>2. program = "android" /\ ~recvFailed => Stalled'
    BY <1>1, <1>3, <1>8, <2>1 DEF NatInv, Stalled
  <2>3. program = "linux" /\ calm => Together'
    <3> SUFFICES ASSUME program = "linux", calm PROVE Ahead'
      BY DEF Together
    <3>1. InStep
      BY <1>3 DEF NatInv, Together, Ahead, Waiting
    <3>2. sent = Count /\ burst \in 1..6
      BY <1>1, <1>3, <1>8, <3>1, SameAddress DEF InStep, NatTypeOK
    <3>3. port_flag' = IF burst = 6 THEN 1 ELSE burst
      BY <1>1, <2>1, <3>1, <3>2 DEF InStep
    <3> QED BY <1>2, <1>8, <3>2, <3>3 DEF Ahead
  <2> QED BY <1>2, <1>5, <1>6, <2>2, <2>3 DEF NatInv
<1> QED BY <1>2, <1>7, <1>8 DEF Counts

(* An error of recvfrom ends all claims but that of the positions.         *)
LEMMA RecvFailsKeeps ==
  ASSUME NatInv, RecvFails
  PROVE  NatInv'
<1>1. NatTypeOK /\ Position /\ LinuxKeepsStep /\ queued \in Nat
  BY DEF NatInv, NatTypeOK
<1>2. /\ UNCHANGED <<program, run, burst, sent, missed>> /\ Counts(queued)
      /\ recvFailed' = TRUE /\ calm' = FALSE
  BY DEF RecvFails, clientSide
<1>3. NatTypeOK' /\ Position'
  BY <1>1, <1>2, CountsKeeps
<1>4. LinuxKeepsStep'
  BY <1>1, <1>2 DEF LinuxKeepsStep
<1> QED BY <1>2, <1>3, <1>4 DEF NatInv

(* The client sends; while all is calm, only the first burst of a later    *)
(* run can miss the server.                                                *)
LEMMA SendDatagramKeeps ==
  ASSUME NatInv, SendDatagram
  PROVE  NatInv'
<1> USE NatAssumption
<1>1. NatTypeOK /\ Position /\ LinuxKeepsStep
  BY DEF NatInv
<1>2. /\ UNCHANGED <<program, run, burst, up, port, port_flag, chang_ip, taken, recvFailed>>
      /\ sent < Count /\ sent' = sent + 1 /\ sent' \in 0..Count
  BY <1>1 DEF SendDatagram, serverSide, NatTypeOK
<1>3. Position'
  BY <1>1, <1>2 DEF Position
<1>4. CASE Heard /\ queued' = queued + 1 /\ UNCHANGED <<calm, missed>>
  <2>1. NatTypeOK'
    BY <1>1, <1>2, <1>4 DEF NatTypeOK, Bursts
  <2>2. program = "android" /\ ~recvFailed => Stalled'
    <3> SUFFICES ASSUME program = "android", ~recvFailed PROVE port_flag \in {0, 1} /\ port_flag # 1
      BY <1>2 DEF Stalled
    <3>1. burst \in 1..3 /\ Bursts[burst] = AndroidBursts[burst]
      BY <1>1, AndroidBurstsAre DEF NatTypeOK, Bursts
    <3>2. burst = 1 \/ burst = 2 \/ burst = 3
      BY <3>1
    <3>3. chang_ip = 0
      BY <1>4, <3>1, <3>2, AndroidBurstsAre, <1>1 DEF Heard, Bound, Position
    <3> QED BY <1>1, <3>3 DEF NatInv, Stalled, Position
  <2>3. program = "linux" /\ calm => Together'
    <3> SUFFICES ASSUME program = "linux", calm PROVE InStep'
      BY DEF Together
    <3>1. InStep
      <4>1. ~Ahead
        BY <1>2 DEF Ahead
      <4>2. ~Waiting
        <5> SUFFICES ASSUME burst = 1, port_flag = 1 PROVE FALSE
          BY DEF Waiting
        <5>1. Bound = <<"ip2", 0>> /\ Bursts[burst] = <<"ip1", 0>>
          BY <1>1, LinuxBurstsAre DEF Bound, Position, Bursts
        <5> QED BY <1>4, <5>1 DEF Heard
      <4> QED BY <4>1, <4>2 DEF NatInv, Together
    <3>2. taken + queued' = sent + 1
      BY <1>1, <1>4, <3>1 DEF InStep, NatTypeOK
    <3> QED BY <1>2, <3>1, <3>2 DEF InStep
  <2> QED BY <1>1, <1>2, <1>3, <1>4, <2>1, <2>2, <2>3 DEF NatInv, LinuxKeepsStep
<1>5. CASE /\ ~Heard
           /\ missed' = IF calm THEN missed \cup {[run |-> run, at |-> Bursts[burst]]} ELSE missed
           /\ UNCHANGED <<queued, calm>>
  <2>1. missed' \subseteq [run: 1..MaxRun, at: Addresses]
    BY <1>1, <1>5, BurstsAreAddresses DEF NatTypeOK
  <2>2. NatTypeOK'
    BY <1>1, <1>2, <1>5, <2>1 DEF NatTypeOK, Bursts
  <2>3. program = "android" /\ ~recvFailed => Stalled'
    BY <1>2, <1>5 DEF NatInv, Stalled
  <2>4. ASSUME program = "linux", calm PROVE Waiting /\ Waiting'
    <3>1. ~InStep
      BY <1>1, <1>5, <2>4, SameAddress DEF InStep, Heard, NatInv
    <3>2. ~Ahead
      BY <1>2 DEF Ahead
    <3>3. Waiting
      BY <2>4, <3>1, <3>2 DEF NatInv, Together
    <3> QED BY <1>2, <1>5, <3>3 DEF Waiting
  <2>5. LinuxKeepsStep'
    <3> SUFFICES ASSUME program = "linux", NEW m \in missed' PROVE m.run > 1 /\ m.at = <<"ip1", 0>>
      BY <1>2 DEF LinuxKeepsStep
    <3>1. CASE m \in missed
      BY <1>1, <3>1 DEF LinuxKeepsStep
    <3>2. CASE m \notin missed
      <4>1. calm /\ m = [run |-> run, at |-> Bursts[burst]]
        BY <1>5, <3>2
      <4>2. run > 1 /\ burst = 1
        BY <2>4, <4>1 DEF Waiting
      <4>3. Bursts[1] = <<"ip1", 0>>
        BY LinuxBurstsAre DEF Bursts
      <4> QED BY <4>1, <4>2, <4>3
    <3> QED BY <3>1, <3>2
  <2> QED BY <1>2, <1>3, <1>5, <2>2, <2>3, <2>4, <2>5 DEF NatInv, Together
<1>6. CASE calm' = FALSE /\ UNCHANGED <<queued, missed>>
  <2>1. NatTypeOK'
    BY <1>1, <1>2, <1>6 DEF NatTypeOK, Bursts
  <2>2. program = "android" /\ ~recvFailed => Stalled'
    BY <1>2, <1>6 DEF NatInv, Stalled
  <2> QED BY <1>1, <1>2, <1>3, <1>6, <2>1, <2>2 DEF NatInv, LinuxKeepsStep
<1> QED BY <1>4, <1>5, <1>6 DEF SendDatagram

(* A pause that is long enough ends a burst at the address after it.       *)
LEMMA PauseKeeps ==
  ASSUME NatInv, Pause
  PROVE  NatInv'
<1> USE NatAssumption
<1>1. NatTypeOK /\ Position /\ LinuxKeepsStep
  BY DEF NatInv
<1>2. /\ UNCHANGED <<program, up, port, port_flag, chang_ip, taken, queued, recvFailed, missed>>
      /\ sent = Count /\ sent' = 0
  BY DEF Pause, serverSide
<1>3. Position'
  BY <1>1, <1>2 DEF Position
<1>4. Len(Bursts) \in Nat \ {0} /\ Bursts' = Bursts
  <2>1. Bursts' = Bursts
    BY <1>2 DEF Bursts
  <2>2. Len(Bursts) = 6 \/ Len(Bursts) = 3
    BY LinuxBurstsAre, AndroidBurstsAre DEF Bursts
  <2> QED BY <2>1, <2>2
<1>5. calm' \in BOOLEAN
  BY <1>1 DEF Pause, NatTypeOK
<1>6. run' \in 1..MaxRun /\ burst' \in 1..Len(Bursts)
  BY <1>1, <1>4 DEF Pause, NatTypeOK
<1>7. NatTypeOK'
  BY <1>1, <1>2, <1>4, <1>5, <1>6 DEF NatTypeOK
<1>8. program = "android" /\ ~recvFailed => Stalled'
  BY <1>2 DEF NatInv, Stalled
<1>9. program = "linux" /\ calm' => Together'
  <2> SUFFICES ASSUME program = "linux", calm' PROVE Together'
    OBVIOUS
  <2>1. calm /\ queued = 0
    BY DEF Pause
  <2>2. Len(Bursts) = 6 /\ burst \in 1..6
    BY <1>1, LinuxBurstsAre DEF Bursts, NatTypeOK
  <2>3. Ahead \/ Waiting
    <3>1. ~InStep
      BY <1>1, <1>2, <2>1 DEF InStep, NatTypeOK
    <3> QED BY <2>1, <3>1 DEF NatInv, Together
  <2>4. taken = 0
    BY <2>3 DEF Ahead, Waiting
  <2>5. CASE burst < 6 /\ burst' = burst + 1 /\ UNCHANGED run
    <3>1. port_flag = burst
      BY <2>3, <2>5 DEF Ahead, Waiting
    <3>2. port_flag = burst' - 1
      BY <2>2, <2>5, <3>1
    <3> QED BY <1>2, <2>1, <2>4, <3>2 DEF Together, InStep
  <2>6. CASE burst = 6 /\ burst' = 1 /\ run' = run + 1
    <3>1. port_flag = 1
      BY <2>3, <2>6 DEF Ahead, Waiting
    <3>2. run' > 1
      BY <1>1, <2>6 DEF NatTypeOK
    <3> QED BY <1>2, <2>1, <2>4, <2>6, <3>1, <3>2 DEF Together, Waiting
  <2> QED BY <2>2, <2>5, <2>6 DEF Pause
<1>10. calm' => up' /\ ~recvFailed'
  <2>1. calm' => calm
    BY DEF Pause
  <2>2. calm => up /\ ~recvFailed
    BY DEF NatInv
  <2> QED BY <1>2, <2>1, <2>2
<1> QED BY <1>1, <1>2, <1>3, <1>7, <1>8, <1>9, <1>10 DEF NatInv, LinuxKeepsStep

LEMMA InitNatInv == NatInit => NatInv
<1> SUFFICES ASSUME NatInit PROVE NatInv
  OBVIOUS
<1> USE NatAssumption
<1>1. NatTypeOK
  <2>1. Len(Bursts) = 6 \/ Len(Bursts) = 3
    BY LinuxBurstsAre, AndroidBurstsAre DEF Bursts
  <2>2. burst \in 1..Len(Bursts)
    BY <2>1 DEF NatInit
  <2>3. up \in BOOLEAN /\ recvFailed \in BOOLEAN /\ calm \in BOOLEAN
    BY DEF NatInit
  <2>4. taken \in 0..Count - 1 /\ run \in 1..MaxRun /\ sent \in 0..Count
    BY DEF NatInit
  <2> QED BY <2>2, <2>3, <2>4 DEF NatInit, NatTypeOK
<1> QED BY <1>1 DEF NatInit, NatInv, Position, Stalled, Together, InStep, LinuxKeepsStep

LEMMA NextNatInv == NatInv /\ [NatNext]_natVars => NatInv'
<1> SUFFICES ASSUME NatInv, [NatNext]_natVars PROVE NatInv'
  OBVIOUS
<1>1. CASE NatNext
  BY <1>1, TakeDatagramKeeps, RecvFailsKeeps, SendDatagramKeeps, PauseKeeps DEF NatNext
<1>2. CASE UNCHANGED natVars
  BY <1>2 DEF natVars, serverSide, clientSide, NatInv, NatTypeOK, Position, Stalled, Together,
              InStep, Ahead, Waiting, LinuxKeepsStep, Bursts
<1> QED BY <1>1, <1>2

-----------------------------------------------------------------------------
(* The server's position and its relation to the client hold whatever is   *)
(* sent, lost or late.                                                     *)
THEOREM NatInvariance == NatSpec => []NatInv
<1>1. NatInit => NatInv
  BY InitNatInv
<1>2. NatInv /\ [NatNext]_natVars => NatInv'
  BY NextNatInv
<1> QED BY <1>1, <1>2, PTL DEF NatSpec

(* Every variable keeps its type; the server never leaves its three ports. *)
THEOREM NatTypeCorrect == NatSpec => []NatTypeOK
<1>1. NatInv => NatTypeOK
  BY DEF NatInv
<1> QED BY <1>1, NatInvariance, PTL

(* While nothing is lost or late, the linux client's first run is heard    *)
(* completely, and a later one misses its first address only.              *)
THEOREM LinuxIsHeard == NatSpec => []LinuxKeepsStep
<1>1. NatInv => LinuxKeepsStep
  BY DEF NatInv
<1> QED BY <1>1, NatInvariance, PTL

(* With the Android client the server never comes past its second address, *)
(* while recvfrom does not fail.                                           *)
THEOREM AndroidNeverFinishes == NatSpec => []AndroidStalls
<1>1. NatInv => AndroidStalls
  BY DEF NatInv, Stalled, Position, AndroidStalls, Bound
<1> QED BY <1>1, NatInvariance, PTL

(* Whatever is lost or late, the server goes to the address that follows   *)
(* in the client's order.                                                  *)
THEOREM OrderIsKept == NatSpec => KeepsTheOrder
<1>1. NatInv /\ [NatNext]_natVars => [Bound' # Bound => Bound' = Following(Bound)]_natVars
  <2> SUFFICES ASSUME NatInv, NatNext, Bound' # Bound
               PROVE  Bound' = Following(Bound)
    OBVIOUS
  <2>1. MoveOn
    BY DEF NatNext, TakeDatagram, RecvFails, Counts, SendDatagram, Pause, serverSide, Bound
  <2>2. Position /\ Position' /\ port_flag' = IF port_flag = 5 THEN 1 ELSE port_flag + 1
    BY <2>1, MoveOnGoes DEF NatInv
  <2>3. Bound = LinuxBursts[port_flag + 1] /\ port_flag + 1 \in 1..6
    BY <2>2, BoundIsBurst
  <2>4. Bound' = LinuxBursts[port_flag' + 1]
    BY <2>2, LinuxBurstsAre DEF Position, Bound
  <2>5. port_flag' + 1 = IF port_flag + 1 = 6 THEN 2 ELSE (port_flag + 1) + 1
    <3>1. CASE port_flag = 5
      BY <2>2, <3>1
    <3>2. CASE port_flag # 5
      <4>1. port_flag \in 0..5 /\ port_flag' = port_flag + 1
        BY <2>2, <3>2, BoundIsBurst
      <4> QED BY <3>2, <4>1
    <3> QED BY <3>1, <3>2
  <2> QED BY <2>3, <2>4, <2>5, FollowingIs
<1> QED BY <1>1, NatInvariance, PTL DEF NatSpec, KeepsTheOrder
=============================================================================
