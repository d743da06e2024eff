---------------------------- MODULE TurnProofs ----------------------------
(***************************************************************************)
(* Proofs about TurnRelay, for any peers and thread identities, any length *)
(* of the list, any size of the buffer and of the room recvfrom needs.     *)
(***************************************************************************)
EXTENDS TurnRelay, FiniteSetTheorems, TLAPS

Pc == {"off", "new", "bind", "loop", "enter", "recv", "add", "added", "check",
       "scan", "look", "tail", "sub", "subbed", "leave", "wild"}
Scanning == {"scan", "look", "tail", "sub", "subbed"}

(* Where the relay is: the one thread that lives, or nowhere.              *)
PcIs(pc) == IF pc = "off" THEN \A t \in Thread : tpc[t] = "off"
                          ELSE \E t \in Thread : tpc[t] = pc

(* turnThreadRunning is set exactly while a relay thread lives, and then   *)
(* it is the only one.                                                     *)
FlagIsThread ==
  ~Dead => /\ \A t, u \in Thread : tpc[t] # "off" /\ tpc[u] # "off" => t = u
           /\ turnThreadRunning <=> \E t \in Thread : tpc[t] # "off"

(* recvfrom has its room: but for the moment before CheckFull the counters *)
(* stay Slack below the end of the buffer, whatever a TURN_REQ does.       *)
BoundAt(pc) ==
  /\ recvProcessBufP \in 0 .. (IF pc = "check" THEN Room - Slack + 1 ELSE Room - Slack)
  /\ scanP <= Room - Slack
  /\ reg <= Room - Slack
  /\ pc \notin Scanning => scanP = 0
  /\ pc = "look" => scanP < Room - Slack

(* After MASTER_QUIT one recvfrom may be under way, if none has returned;  *)
(* and it takes a MASTER_QUIT to make the thread leave.                    *)
QuitAt(pc) ==
  /\ ~turnSign /\ pc \in {"enter", "recv"} => since = 0
  /\ (~turnSign /\ pc # "off") \/ pc = "leave" => stopped

ServedAt(pc) == turnSign /\ for # "start" /\ ~late /\ ~unbound => pc \notin {"off", "leave"}

(* What has been received and not relayed lies between lo and hi.          *)
Holds(lo, hi) ==
  /\ Len(owed) = hi - lo
  /\ \A i \in 1..Len(owed) : owed[i] = buf[lo + i - 1]

HandAt(pc) ==
  /\ pc \in {"off", "new", "bind"} => owed = <<>>
  /\ pc \notin {"off", "new", "add", "added"} => Holds(scanP, recvProcessBufP)
  /\ pc \in {"add", "added"} => Holds(0, recvProcessBufP + 1)
  /\ pc = "recv" => at = recvProcessBufP
  /\ pc \in {"look", "sub", "subbed"} => scanP < recvProcessBufP
  /\ pc \in {"added", "subbed"} => reg = recvProcessBufP

(* While the two threads have not met, the list has its one entry, the     *)
(* cursor is where the walk left it, every name is found, and a walk never *)
(* ends without a sender that has been registered throughout.              *)
Undisturbed ==
  /\ size = 1 /\ node = 1
  /\ \A w \in Walker : walk[w] = "entry" => plist = 1
  /\ walk["turn"] = "test" /\ plist = 0 => ~member
  /\ walk["turn"] \in {"next", "end"} => ~member
  /\ for \in ByName => /\ walk["main"] = "test" => plist = 1
                       /\ walk["main"] \notin {"next", "end"}

CursorInv ==
  /\ walk["turn"] # "no" /\ member => tRecv_sin \in Registered
  /\ for \in {"nothing", "start"} => walk["main"] = "no"
  /\ for = "start" => turnSign
  /\ for \in {"find", "set"} => caller \in Slaves
  /\ for = "login" => caller \in Masters
  /\ ~met => Undisturbed

AtPc(pc) ==
  /\ BoundAt(pc) /\ QuitAt(pc) /\ ServedAt(pc)
  /\ ~raced => HandAt(pc)
  /\ pc # "look" => walk["turn"] = "no"

(* The inductive invariant: at the one place where the relay is, its       *)
(* counters and its buffer are what that place needs.                      *)
TurnInv ==
  /\ TurnTypeOK
  /\ FlagIsThread
  /\ ~Dead => \A pc \in Pc : PcIs(pc) => AtPc(pc)
  /\ ~raced => intact
  /\ CursorInv /\ MembersHeard /\ StopsAfterQuit

-----------------------------------------------------------------------------
(* The type invariant in parts: what the relay works on, and the rest.     *)
BufType ==
  /\ buf \in [0..Room -> Nat] /\ scanP \in 0..Room
  /\ at \in 0..Room - Slack
  /\ recvProcessBufP \in 0..Room /\ reg \in 0..Room
  /\ tRecv_sin \in Sender \cup {None}
  /\ taken \in 0..MaxDatagrams /\ owed \in Seq(1..MaxDatagrams)
  /\ intact \in BOOLEAN

ListType ==
  /\ size \in Entries
  /\ master \in [Entries -> Masters \cup {None}] /\ slave \in [Entries -> Slaves \cup {None}]
  /\ plist \in 0..size /\ node \in 0..size
  /\ walk \in [Walker -> {"no", "test", "entry", "compare", "next", "found", "end"}]
  /\ for \in {"nothing", "find", "set", "print", "name", "login", "pol", "address",
              "delete", "start"}
  /\ caller \in Sender \cup {None}

RestType ==
  /\ ListType
  /\ turnSign \in BOOLEAN /\ turnThreadRunning \in BOOLEAN
  /\ member \in BOOLEAN /\ shut \in BOOLEAN /\ raced \in BOOLEAN /\ late \in BOOLEAN
  /\ unbound \in BOOLEAN /\ stopped \in BOOLEAN
  /\ since \in Nat

(* The type invariant and its parts.                                       *)
LEMMA TypeParts ==
  TurnTypeOK => BufType /\ RestType /\ met \in BOOLEAN /\ tpc \in [Thread -> Pc]
BY DEF TurnTypeOK, BufType, RestType, ListType, Pc

LEMMA TypeFromParts ==
  ASSUME BufType', RestType', met' \in BOOLEAN, tpc' \in [Thread -> Pc]
  PROVE  TurnTypeOK'
BY DEF TurnTypeOK, BufType, RestType, ListType, Pc

(* met is the same in every step.                                          *)
Meets == met' = (met \/ \A w \in Walker : walk[w] \notin {"no", "end"})

(* Once the walks have met, they have met.                                 *)
LEMMA MetType == TurnTypeOK /\ Meets => met' \in BOOLEAN /\ (met => met')
BY DEF TurnTypeOK, Meets

(* Who is registered is written in the list alone.                         *)
LEMMA SameRegistered ==
  ASSUME UNCHANGED <<size, master, slave>>
  PROVE  Registered' = Registered
BY DEF Registered, Of

(* The invariant of the cursor does not see what it does not name.         *)
LEMMA SameCursor ==
  ASSUME CursorInv, UNCHANGED <<size, master, slave, plist, node, walk, for, caller>>,
         UNCHANGED <<turnSign, member, tRecv_sin>>, met => met'
  PROVE  CursorInv'
BY SameRegistered DEF CursorInv, Undisturbed

-----------------------------------------------------------------------------
(* A step of one relay thread: all others are off.                         *)
LEMMA Alone ==
  ASSUME TurnInv, ~Dead, NEW t \in Thread, NEW from \in Pc \ {"off"}, NEW to \in Pc,
         Goes(t, from, to)
  PROVE  /\ AtPc(from) /\ turnThreadRunning
         /\ \A u \in Thread : tpc[u] = IF u = t THEN from ELSE "off"
         /\ \A u \in Thread : tpc'[u] = IF u = t THEN to ELSE "off"
         /\ tpc' \in [Thread -> Pc]
<1>1. tpc \in [Thread -> Pc] /\ tpc[t] = from
  BY TypeParts DEF TurnInv, Goes
<1>2. turnThreadRunning /\ \A u \in Thread : tpc[u] = IF u = t THEN from ELSE "off"
  BY <1>1 DEF TurnInv, FlagIsThread
<1>3. tpc' \in [Thread -> Pc] /\ \A u \in Thread : tpc'[u] = IF u = t THEN to ELSE "off"
  BY <1>1, <1>2 DEF Goes
<1>4. AtPc(from)
  <2>1. PcIs(from)
    BY <1>1 DEF PcIs
  <2> QED BY <2>1 DEF TurnInv
<1> QED BY <1>2, <1>3, <1>4

(* What such a step has to see to.                                         *)
LEMMA ThreadStep ==
  ASSUME TurnInv, ~Dead, Meets,
         NEW t \in Thread, NEW from \in Pc \ {"off"}, NEW to \in Pc \ {"wild"},
         Goes(t, from, to), turnThreadRunning' <=> to # "off",
         BufType', RestType', AtPc(to)', ~raced' => intact', CursorInv',
         shut' \/ size' > 1 => met', StopsAfterQuit'
  PROVE  TurnInv'
<1>1. /\ tpc' \in [Thread -> Pc]
      /\ \A u \in Thread : tpc'[u] = IF u = t THEN to ELSE "off"
  BY Alone
<1>2. TurnTypeOK'
  BY <1>1, MetType, TypeFromParts DEF TurnInv
<1>3. ~Dead' /\ FlagIsThread'
  BY <1>1 DEF Dead, FlagIsThread
<1>4. ASSUME NEW pc \in Pc, PcIs(pc)' PROVE AtPc(pc)'
  <2>1. pc = to
    BY <1>1, <1>4 DEF PcIs
  <2> QED BY <2>1
<1>5. MembersHeard'
  BY <1>3 DEF MembersHeard
<1> QED BY <1>2, <1>3, <1>4, <1>5 DEF TurnInv

(* The list, the flags and the histories do not change: most steps.        *)
LEMMA RestStep ==
  ASSUME TurnInv, ~Dead, Meets,
         NEW t \in Thread, NEW from \in Pc \ {"off", "look"}, NEW to \in Pc \ {"off", "look", "wild"},
         Goes(t, from, to), UNCHANGED <<rest, tRecv_sin>>,
         to = "enter" => turnSign, to = "leave" => ~turnSign, to = "recv" => from = "enter",
         BufType', BoundAt(to)', ~raced => intact' /\ HandAt(to)'
  PROVE  TurnInv'
<1>1. /\ AtPc(from) /\ turnThreadRunning
      /\ UNCHANGED <<turnSign, turnThreadRunning, size, master, slave, plist, node, walk, for, caller>>
      /\ UNCHANGED <<member, shut, since, raced, late, unbound, stopped, tRecv_sin>>
  BY Alone DEF rest, listVars, seenVars
<1>2. RestType'
  BY <1>1, TypeParts DEF TurnInv, RestType, ListType
<1>3. AtPc(to)'
  <2>1. QuitAt(to)' /\ ServedAt(to)'
    BY <1>1 DEF AtPc, QuitAt, ServedAt
  <2> QED BY <1>1, <2>1 DEF AtPc
<1>4. CursorInv'
  BY <1>1, MetType, SameCursor DEF TurnInv
<1>5. (shut' \/ size' > 1 => met') /\ StopsAfterQuit'
  BY <1>1, MetType DEF TurnInv, MembersHeard, StopsAfterQuit
<1> QED BY <1>1, <1>2, <1>3, <1>4, <1>5, ThreadStep

(* The numbers the code computes with.                                     *)
LEMMA Numbers ==
  ASSUME TurnInv
  PROVE  /\ BufType /\ Room \in Nat /\ Slack \in Nat /\ 1 <= Slack /\ Slack <= Room
         /\ recvProcessBufP \in Nat /\ scanP \in Nat /\ reg \in Nat /\ at \in Nat
         /\ owed \in Seq(1..MaxDatagrams)
         /\ MaxDatagrams \in Nat
BY TypeParts, TurnAssumption DEF TurnInv, BufType

(* The thread's steps between its datagrams and over its counters.         *)
LEMMA CountersKeep ==
  ASSUME TurnInv, ~Dead, Meets, NEW t \in Thread,
         \/ TestTurnSign(t) \/ EnterRecv(t) \/ LoadP(t) \/ StoreP(t) \/ CheckFull(t)
         \/ ScanEnd(t) \/ TestTail(t) \/ LoadTail(t)
  PROVE  TurnInv'
<1>i. /\ BufType /\ Room \in Nat /\ Slack \in Nat /\ 1 <= Slack /\ Slack <= Room
      /\ recvProcessBufP \in Nat /\ scanP \in Nat /\ reg \in Nat /\ at \in Nat
      /\ owed \in Seq(1..MaxDatagrams)
      /\ ~raced => intact
  BY Numbers DEF TurnInv
<1> USE DEF Pc, Scanning
<1>1. CASE TestTurnSign(t)
  <2>1. PICK to \in {"enter", "leave"} :
          Goes(t, "loop", to) /\ (to = "enter" <=> turnSign)
    BY <1>1 DEF TestTurnSign
  <2>2. UNCHANGED <<rest, bufVars, fifoVars>>
    BY <1>1 DEF TestTurnSign
  <2>3. BufType'
    BY <1>i, <2>2 DEF BufType, bufVars, fifoVars
  <2>4. AtPc("loop")
    BY <2>1, Alone
  <2>5. BoundAt(to)'
    BY <2>2, <2>4 DEF AtPc, BoundAt, bufVars
  <2>6. ~raced => intact' /\ HandAt(to)'
    BY <1>i, <2>2, <2>4 DEF AtPc, HandAt, Holds, bufVars, fifoVars
  <2> QED BY <2>1, <2>2, <2>3, <2>5, <2>6, RestStep DEF bufVars
<1>2. CASE EnterRecv(t)
  <2>1. /\ Goes(t, "enter", "recv") /\ at' = recvProcessBufP
        /\ UNCHANGED <<rest, buf, recvProcessBufP, tRecv_sin, scanP, reg, taken, owed, intact>>
    BY <1>2 DEF EnterRecv, fifoVars
  <2>2. AtPc("enter")
    BY <2>1, Alone
  <2>3. BoundAt("recv")'
    BY <2>1, <2>2 DEF AtPc, BoundAt
  <2>4. BufType'
    BY <1>i, <2>1, <2>2 DEF BufType, AtPc, BoundAt
  <2>5. ~raced => intact' /\ HandAt("recv")'
    BY <1>i, <2>1, <2>2 DEF AtPc, HandAt, Holds
  <2> QED BY <2>1, <2>3, <2>4, <2>5, RestStep
<1>3. CASE LoadP(t)
  <2>1. /\ Goes(t, "add", "added") /\ reg' = recvProcessBufP
        /\ UNCHANGED <<rest, buf, recvProcessBufP, at, tRecv_sin, scanP, taken, owed, intact>>
    BY <1>3 DEF LoadP, fifoVars
  <2>2. AtPc("add")
    BY <2>1, Alone
  <2>3. BoundAt("added")'
    BY <1>i, <2>1, <2>2 DEF AtPc, BoundAt
  <2>4. BufType'
    BY <1>i, <2>1 DEF BufType
  <2>5. ~raced => intact' /\ HandAt("added")'
    BY <1>i, <2>1, <2>2 DEF AtPc, HandAt, Holds
  <2> QED BY <2>1, <2>3, <2>4, <2>5, RestStep
<1>4. CASE StoreP(t)
  <2>1. /\ Goes(t, "added", "check") /\ recvProcessBufP' = reg + 1 /\ reg' = 0
        /\ UNCHANGED <<rest, buf, at, tRecv_sin, scanP, taken, owed, intact>>
    BY <1>4 DEF StoreP, fifoVars
  <2>2. AtPc("added")
    BY <2>1, Alone
  <2>3. BoundAt("check")'
    BY <1>i, <2>1, <2>2 DEF AtPc, BoundAt
  <2>4. BufType'
    BY <1>i, <2>1, <2>2 DEF BufType, AtPc, BoundAt
  <2>5. ~raced => intact' /\ HandAt("check")'
    BY <1>i, <2>1, <2>2 DEF AtPc, BoundAt, HandAt, Holds
  <2> QED BY <2>1, <2>3, <2>4, <2>5, RestStep
<1>5. CASE CheckFull(t)
  <2>1. AtPc("check") /\ scanP' = 0
        /\ UNCHANGED <<rest, buf, at, tRecv_sin, reg, taken>>
    BY <1>5, Alone DEF CheckFull
  <2>2. CASE /\ recvProcessBufP <= Room - Slack /\ Goes(t, "check", "scan")
             /\ UNCHANGED <<recvProcessBufP, owed, intact>>
    <3>1. BoundAt("scan")'
      BY <1>i, <2>1, <2>2 DEF AtPc, BoundAt
    <3>2. BufType'
      BY <1>i, <2>1, <2>2 DEF BufType
    <3>3. ~raced => intact' /\ HandAt("scan")'
      BY <1>i, <2>1, <2>2 DEF AtPc, BoundAt, HandAt, Holds
    <3> QED BY <2>1, <2>2, <3>1, <3>2, <3>3, RestStep
  <2>3. CASE /\ recvProcessBufP > Room - Slack /\ Goes(t, "check", "loop")
             /\ recvProcessBufP' = 0 /\ owed' = <<>>
             /\ intact' = (intact /\ Len(owed) > Room - Slack)
    <3>1. BoundAt("loop")'
      BY <1>i, <2>1, <2>3 DEF AtPc, BoundAt
    <3>2. BufType'
      BY <1>i, <2>1, <2>3 DEF BufType
    <3>3. ~raced => intact'
      <4>1. ~raced => Len(owed) = recvProcessBufP
        BY <1>i, <2>1 DEF AtPc, BoundAt, HandAt, Holds
      <4> QED BY <1>i, <2>3, <4>1
    <3>4. HandAt("loop")'
      BY <1>i, <2>1, <2>3 DEF HandAt, Holds
    <3> QED BY <2>1, <2>3, <3>1, <3>2, <3>3, <3>4, RestStep
  <2> QED BY <1>5, <2>1, <2>2, <2>3 DEF CheckFull
<1>6. CASE ScanEnd(t)
  <2>1. /\ Goes(t, "scan", "tail")
        /\ UNCHANGED <<rest, buf, recvProcessBufP, at, tRecv_sin, scanP, reg, taken, owed, intact>>
    BY <1>6 DEF ScanEnd, bufVars, fifoVars
  <2>2. AtPc("scan")
    BY <2>1, Alone
  <2>3. BoundAt("tail")'
    BY <1>i, <2>1, <2>2 DEF AtPc, BoundAt
  <2>4. BufType'
    BY <1>i, <2>1 DEF BufType
  <2>5. ~raced => intact' /\ HandAt("tail")'
    BY <1>i, <2>1, <2>2 DEF AtPc, HandAt, Holds
  <2> QED BY <2>1, <2>3, <2>4, <2>5, RestStep
<1>7. CASE TestTail(t)
  <2>1. AtPc("tail") /\ UNCHANGED <<rest, buf, at, tRecv_sin, reg, taken, owed, intact>>
    BY <1>7, Alone DEF TestTail, fifoVars
  <2>2. CASE /\ scanP < recvProcessBufP /\ Goes(t, "tail", "sub")
             /\ UNCHANGED <<scanP, recvProcessBufP>>
    <3>1. BoundAt("sub")'
      BY <1>i, <2>1, <2>2 DEF AtPc, BoundAt
    <3>2. BufType'
      BY <1>i, <2>1, <2>2 DEF BufType
    <3>3. ~raced => intact' /\ HandAt("sub")'
      BY <1>i, <2>1, <2>2 DEF AtPc, HandAt, Holds
    <3> QED BY <2>1, <2>2, <3>1, <3>2, <3>3, RestStep
  <2>3. CASE /\ Goes(t, "tail", "loop") /\ scanP' = 0
             /\ \/ scanP = recvProcessBufP /\ recvProcessBufP' = 0
                \/ scanP > recvProcessBufP /\ UNCHANGED recvProcessBufP
    <3>1. BoundAt("loop")'
      BY <1>i, <2>1, <2>3 DEF AtPc, BoundAt
    <3>2. BufType'
      BY <1>i, <2>1, <2>3 DEF BufType
    <3>3. ~raced => intact' /\ HandAt("loop")'
      BY <1>i, <2>1, <2>3 DEF AtPc, HandAt, Holds
    <3> QED BY <2>1, <2>3, <3>1, <3>2, <3>3, RestStep
  <2> QED BY <1>7, <2>2, <2>3 DEF TestTail
<1>8. CASE LoadTail(t)
  <2>1. /\ Goes(t, "sub", "subbed") /\ reg' = recvProcessBufP
        /\ UNCHANGED <<rest, buf, recvProcessBufP, at, tRecv_sin, scanP, taken, owed, intact>>
    BY <1>8 DEF LoadTail, fifoVars
  <2>2. AtPc("sub")
    BY <2>1, Alone
  <2>3. BoundAt("subbed")'
    BY <1>i, <2>1, <2>2 DEF AtPc, BoundAt
  <2>4. BufType'
    BY <1>i, <2>1 DEF BufType
  <2>5. ~raced => intact' /\ HandAt("subbed")'
    BY <1>i, <2>1, <2>2 DEF AtPc, HandAt, Holds
  <2> QED BY <2>1, <2>3, <2>4, <2>5, RestStep
<1> QED BY <1>1, <1>2, <1>3, <1>4, <1>5, <1>6, <1>7, <1>8

(* What has not been relayed moves to the front of the buffer.             *)
LEMMA StoreTailKeeps ==
  ASSUME TurnInv, ~Dead, Meets, NEW t \in Thread, StoreTail(t)
  PROVE  TurnInv'
<1>i. /\ BufType /\ Room \in Nat /\ Slack \in Nat /\ 1 <= Slack /\ Slack <= Room
      /\ recvProcessBufP \in Nat /\ scanP \in Nat /\ reg \in Nat /\ at \in Nat
      /\ owed \in Seq(1..MaxDatagrams)
      /\ ~raced => intact
  BY Numbers DEF TurnInv
<1> USE DEF Pc, Scanning
<1>1. /\ reg >= scanP /\ Goes(t, "subbed", "loop")
      /\ recvProcessBufP' = reg - scanP /\ scanP' = 0 /\ reg' = 0
      /\ buf' = [i \in 0..Room |-> IF i < reg - scanP THEN buf[i + scanP] ELSE buf[i]]
      /\ UNCHANGED <<rest, at, tRecv_sin, taken, owed, intact>>
  BY DEF StoreTail, fifoVars
<1>2. AtPc("subbed")
  BY <1>1, Alone
<1>3. reg <= Room - Slack /\ reg - scanP \in 0..Room - Slack
  BY <1>i, <1>1, <1>2 DEF AtPc, BoundAt
<1>4. BoundAt("loop")'
  BY <1>i, <1>1, <1>3 DEF BoundAt
<1>5. BufType'
  <2>1. \A i \in 0..Room : i < reg - scanP => i + scanP \in 0..Room
    BY <1>i, <1>3
  <2>2. buf' \in [0..Room -> Nat]
    BY <1>i, <1>1, <2>1 DEF BufType
  <2> QED BY <1>i, <1>1, <1>3, <2>2 DEF BufType
<1>6. ASSUME ~raced PROVE intact' /\ HandAt("loop")'
  <2>1. Len(owed) = reg - scanP /\ \A i \in 1..Len(owed) : owed[i] = buf[scanP + i - 1]
    BY <1>2, <1>6 DEF AtPc, HandAt, Holds
  <2>2. ASSUME NEW i \in 1..Len(owed) PROVE owed'[i] = buf'[0 + i - 1]
    <3>1. i - 1 \in 0..Room /\ i - 1 < reg - scanP /\ i \in Nat
      BY <1>i, <1>3, <2>1
    <3>2. buf'[i - 1] = buf[i - 1 + scanP]
      BY <1>1, <3>1
    <3>3. i - 1 + scanP = scanP + i - 1 /\ 0 + i - 1 = i - 1
      BY <1>i, <3>1
    <3> QED BY <1>1, <2>1, <3>2, <3>3
  <2>3. Len(owed') = recvProcessBufP' - 0
    BY <1>i, <1>1, <2>1
  <2> QED BY <1>i, <1>1, <1>6, <2>2, <2>3 DEF HandAt, Holds
<1> QED BY <1>1, <1>4, <1>5, <1>6, RestStep

(* A new thread allocates its buffer.                                      *)
LEMMA BeginTurnKeeps ==
  ASSUME TurnInv, ~Dead, Meets, NEW t \in Thread, BeginTurn(t)
  PROVE  TurnInv'
<1>i. /\ BufType /\ RestType /\ Room \in Nat /\ Slack \in Nat /\ 1 <= Slack /\ Slack <= Room
      /\ scanP \in Nat /\ reg \in Nat
      /\ ~raced => intact
  BY Numbers, TypeParts DEF TurnInv
<1> USE DEF Pc, Scanning
<1>1. /\ Goes(t, "new", "bind") /\ turnThreadRunning' = TRUE /\ recvProcessBufP' = 0
      /\ UNCHANGED <<turnSign, size, master, slave, plist, node, walk, for, caller>>
      /\ UNCHANGED <<buf, at, tRecv_sin, scanP, reg, taken, owed, intact>>
      /\ UNCHANGED <<member, shut, since, raced, late, unbound, stopped>>
  BY DEF BeginTurn, listVars, fifoVars, seenVars
<1>2. AtPc("new")
  BY <1>1, Alone
<1>3. BufType' /\ RestType'
  BY <1>i, <1>1 DEF BufType, RestType, ListType
<1>4. AtPc("bind")'
  <2>1. BoundAt("bind")'
    BY <1>i, <1>1, <1>2 DEF AtPc, BoundAt
  <2>2. QuitAt("bind")' /\ ServedAt("bind")'
    BY <1>1, <1>2 DEF AtPc, QuitAt, ServedAt
  <2>3. ~raced' => HandAt("bind")'
    BY <1>1, <1>2 DEF AtPc, BoundAt, HandAt, Holds
  <2> QED BY <1>1, <1>2, <2>1, <2>2, <2>3 DEF AtPc
<1>5. CursorInv'
  BY <1>1, MetType, SameCursor DEF TurnInv
<1>6. (shut' \/ size' > 1 => met') /\ StopsAfterQuit'
  BY <1>1, MetType DEF TurnInv, MembersHeard, StopsAfterQuit
<1> QED BY <1>i, <1>1, <1>3, <1>4, <1>5, <1>6, ThreadStep

(* It binds its port; nobody has sent to it yet.                           *)
LEMMA BindTurnKeeps ==
  ASSUME TurnInv, ~Dead, Meets, NEW t \in Thread, BindTurn(t)
  PROVE  TurnInv'
<1>i. /\ BufType /\ RestType /\ Room \in Nat /\ Slack \in Nat /\ 1 <= Slack /\ Slack <= Room
      /\ recvProcessBufP \in Nat /\ scanP \in Nat /\ reg \in Nat
      /\ ~raced => intact
  BY Numbers, TypeParts DEF TurnInv
<1> USE DEF Pc, Scanning
<1>1. /\ Goes(t, "bind", "loop") /\ tRecv_sin' = None
      /\ UNCHANGED <<turnSign, turnThreadRunning, size, master, slave, plist, node, walk, for, caller>>
      /\ UNCHANGED <<buf, recvProcessBufP, at, scanP, reg, taken, owed, intact>>
      /\ UNCHANGED <<member, shut, since, raced, late, unbound, stopped>>
  BY DEF BindTurn, rest, listVars, fifoVars, seenVars
<1>2. AtPc("bind") /\ turnThreadRunning
  BY <1>1, Alone
<1>3. BufType' /\ RestType'
  BY <1>i, <1>1 DEF BufType, RestType, ListType
<1>4. AtPc("loop")'
  <2>1. BoundAt("loop")'
    BY <1>i, <1>1, <1>2 DEF AtPc, BoundAt
  <2>2. QuitAt("loop")' /\ ServedAt("loop")'
    BY <1>1, <1>2 DEF AtPc, QuitAt, ServedAt
  <2>3. ~raced' => HandAt("loop")'
    BY <1>1, <1>2 DEF AtPc, HandAt, Holds
  <2> QED BY <1>1, <1>2, <2>1, <2>2, <2>3 DEF AtPc
<1>5. CursorInv'
  BY <1>1, <1>2, MetType DEF TurnInv, CursorInv, Undisturbed, AtPc
<1>6. (shut' \/ size' > 1 => met') /\ StopsAfterQuit'
  BY <1>1, MetType DEF TurnInv, MembersHeard, StopsAfterQuit
<1> QED BY <1>i, <1>1, <1>2, <1>3, <1>4, <1>5, <1>6, ThreadStep

(* It cannot, and ends.                                                    *)
LEMMA BindFailsKeeps ==
  ASSUME TurnInv, ~Dead, Meets, NEW t \in Thread, BindFails(t)
  PROVE  TurnInv'
<1>i. BufType /\ RestType /\ (~raced => intact)
  BY Numbers, TypeParts DEF TurnInv
<1> USE DEF Pc, Scanning
<1>1. /\ Goes(t, "bind", "off") /\ turnThreadRunning' = FALSE /\ unbound' = TRUE
      /\ UNCHANGED <<turnSign, size, master, slave, plist, node, walk, for, caller>>
      /\ UNCHANGED <<buf, recvProcessBufP, at, tRecv_sin, scanP, reg, taken, owed, intact>>
      /\ UNCHANGED <<member, shut, since, raced, late, stopped>>
  BY DEF BindFails, listVars, bufVars, fifoVars
<1>2. AtPc("bind")
  BY <1>1, Alone
<1>3. BufType' /\ RestType'
  BY <1>i, <1>1 DEF BufType, RestType, ListType
<1>4. AtPc("off")'
  <2>1. BoundAt("off")' /\ QuitAt("off")' /\ ServedAt("off")'
    BY <1>1, <1>2 DEF AtPc, BoundAt, QuitAt, ServedAt
  <2>2. ~raced' => HandAt("off")'
    BY <1>1, <1>2 DEF AtPc, HandAt
  <2> QED BY <1>1, <1>2, <2>1, <2>2 DEF AtPc
<1>5. CursorInv'
  BY <1>1, MetType, SameCursor DEF TurnInv
<1>6. (shut' \/ size' > 1 => met') /\ StopsAfterQuit'
  BY <1>1, MetType DEF TurnInv, MembersHeard, StopsAfterQuit
<1> QED BY <1>i, <1>1, <1>3, <1>4, <1>5, <1>6, ThreadStep

(* recvfrom returns a datagram.                                            *)
LEMMA TakePacketKeeps ==
  ASSUME TurnInv, ~Dead, Meets, NEW t \in Thread, NEW c \in Sender, TakePacket(t, c)
  PROVE  TurnInv'
<1>i. /\ BufType /\ RestType /\ Room \in Nat /\ Slack \in Nat /\ 1 <= Slack /\ Slack <= Room
      /\ recvProcessBufP \in Nat /\ scanP \in Nat /\ reg \in Nat /\ at \in Nat
      /\ owed \in Seq(1..MaxDatagrams) /\ MaxDatagrams \in Nat
      /\ ~raced => intact
  BY Numbers, TypeParts DEF TurnInv
<1> USE DEF Pc, Scanning
<1>1. /\ Goes(t, "recv", "add") /\ taken < MaxDatagrams
      /\ taken' = taken + 1 /\ buf' = [buf EXCEPT ![at] = taken']
      /\ tRecv_sin' = c /\ at' = 0
      /\ owed' = Append(owed, taken')
      /\ since' = IF turnSign THEN since ELSE since + 1
      /\ UNCHANGED <<turnSign, turnThreadRunning, size, master, slave, plist, node, walk, for, caller>>
      /\ UNCHANGED <<recvProcessBufP, scanP, reg, intact, member, shut, raced, late, unbound, stopped>>
  BY DEF TakePacket, listVars
<1>2. AtPc("recv") /\ turnThreadRunning
  BY <1>1, Alone
<1>3. BufType' /\ RestType'
  <2>1. taken' \in 1..MaxDatagrams /\ at \in 0..Room
    BY <1>i, <1>1 DEF BufType
  <2> QED BY <1>i, <1>1, <2>1 DEF BufType, RestType, ListType
<1>4. AtPc("add")'
  <2>1. BoundAt("add")'
    BY <1>i, <1>1, <1>2 DEF AtPc, BoundAt
  <2>2. QuitAt("add")' /\ ServedAt("add")'
    BY <1>1, <1>2 DEF AtPc, QuitAt, ServedAt
  <2>3. ~raced' => HandAt("add")'
    <3> SUFFICES ASSUME ~raced PROVE HandAt("add")'
      BY <1>1
    <3>1. /\ Len(owed) = recvProcessBufP /\ at = recvProcessBufP
          /\ \A i \in 1..Len(owed) : owed[i] = buf[i - 1]
      BY <1>i, <1>2 DEF AtPc, BoundAt, HandAt, Holds
    <3>2. Len(owed') = recvProcessBufP + 1
      BY <1>i, <1>1, <3>1
    <3>3. at \in 0..Room
      BY <1>i DEF BufType
    <3>4. ASSUME NEW i \in 1..Len(owed') PROVE owed'[i] = buf'[i - 1]
      <4>1. CASE i = recvProcessBufP + 1
        <5>1. owed'[i] = taken'
          BY <1>i, <1>1, <3>1, <4>1
        <5>2. i - 1 = at
          BY <1>i, <3>1, <4>1
        <5> QED BY <1>i, <1>1, <3>3, <5>1, <5>2 DEF BufType
      <4>2. CASE i \in 1..recvProcessBufP
        <5>1. owed'[i] = owed[i]
          BY <1>i, <1>1, <3>1, <4>2
        <5>2. i - 1 # at /\ i - 1 \in 0..Room
          BY <1>i, <3>1, <3>3, <4>2
        <5> QED BY <1>i, <1>1, <3>1, <4>2, <5>1, <5>2 DEF BufType
      <4> QED BY <1>i, <3>2, <4>1, <4>2
    <3> QED BY <1>i, <1>1, <3>2, <3>4 DEF HandAt, Holds
  <2> QED BY <1>1, <1>2, <2>1, <2>2, <2>3 DEF AtPc
<1>5. CursorInv'
  BY <1>1, <1>2, MetType DEF TurnInv, CursorInv, Undisturbed, AtPc
<1>6. (shut' \/ size' > 1 => met') /\ StopsAfterQuit'
  <2>1. ~turnSign' => since' <= 1
    BY <1>1, <1>2 DEF AtPc, QuitAt
  <2> QED BY <1>1, <2>1, MetType DEF TurnInv, MembersHeard, StopsAfterQuit
<1> QED BY <1>i, <1>1, <1>2, <1>3, <1>4, <1>5, <1>6, ThreadStep

(* recvfrom returns nothing.                                               *)
LEMMA TakeNothingKeeps ==
  ASSUME TurnInv, ~Dead, Meets, NEW t \in Thread, NEW c \in Sender, TakeNothing(t, c)
  PROVE  TurnInv'
<1>i. /\ BufType /\ RestType /\ Room \in Nat /\ Slack \in Nat /\ 1 <= Slack /\ Slack <= Room
      /\ recvProcessBufP \in Nat /\ scanP \in Nat /\ reg \in Nat
      /\ ~raced => intact
  BY Numbers, TypeParts DEF TurnInv
<1> USE DEF Pc, Scanning
<1>1. /\ Goes(t, "recv", "loop") /\ tRecv_sin' = c /\ at' = 0
      /\ since' = IF turnSign THEN since ELSE since + 1
      /\ UNCHANGED <<turnSign, turnThreadRunning, size, master, slave, plist, node, walk, for, caller>>
      /\ UNCHANGED <<buf, recvProcessBufP, scanP, reg, taken, owed, intact>>
      /\ UNCHANGED <<member, shut, raced, late, unbound, stopped>>
  BY DEF TakeNothing, listVars, fifoVars
<1>2. AtPc("recv") /\ turnThreadRunning
  BY <1>1, Alone
<1>3. BufType' /\ RestType'
  BY <1>i, <1>1 DEF BufType, RestType, ListType
<1>4. AtPc("loop")'
  <2>1. BoundAt("loop")'
    BY <1>i, <1>1, <1>2 DEF AtPc, BoundAt
  <2>2. QuitAt("loop")' /\ ServedAt("loop")'
    BY <1>1, <1>2 DEF AtPc, QuitAt, ServedAt
  <2>3. ~raced' => HandAt("loop")'
    BY <1>1, <1>2 DEF AtPc, HandAt, Holds
  <2> QED BY <1>1, <1>2, <2>1, <2>2, <2>3 DEF AtPc
<1>5. CursorInv'
  BY <1>1, <1>2, MetType DEF TurnInv, CursorInv, Undisturbed, AtPc
<1>6. (shut' \/ size' > 1 => met') /\ StopsAfterQuit'
  <2>1. ~turnSign' => since' <= 1
    BY <1>1, <1>2 DEF AtPc, QuitAt
  <2> QED BY <1>1, <2>1, MetType DEF TurnInv, MembersHeard, StopsAfterQuit
<1> QED BY <1>i, <1>1, <1>2, <1>3, <1>4, <1>5, <1>6, ThreadStep

(* The thread ends, with what it has not relayed.                          *)
LEMMA LeaveTurnKeeps ==
  ASSUME TurnInv, ~Dead, Meets, NEW t \in Thread, LeaveTurn(t)
  PROVE  TurnInv'
<1>i. /\ BufType /\ RestType /\ Room \in Nat /\ Slack \in Nat /\ 1 <= Slack /\ Slack <= Room
      /\ ~raced => intact
  BY Numbers, TypeParts DEF TurnInv
<1> USE DEF Pc, Scanning
<1>1. /\ Goes(t, "leave", "off") /\ turnThreadRunning' = FALSE /\ owed' = <<>>
      /\ intact' = (intact /\ (owed = <<>> \/ stopped))
      /\ UNCHANGED <<turnSign, size, master, slave, plist, node, walk, for, caller>>
      /\ UNCHANGED <<buf, recvProcessBufP, at, tRecv_sin, scanP, reg, taken>>
      /\ UNCHANGED <<member, shut, since, raced, late, unbound, stopped>>
  BY DEF LeaveTurn, listVars, bufVars, seenVars
<1>2. AtPc("leave")
  BY <1>1, Alone
<1>3. BufType' /\ RestType'
  <2>1. owed' \in Seq(1..MaxDatagrams)
    BY <1>1
  <2> QED BY <1>i, <1>1, <2>1 DEF BufType, RestType, ListType
<1>4. AtPc("off")'
  <2>1. BoundAt("off")'
    BY <1>i, <1>1, <1>2 DEF AtPc, BoundAt
  <2>2. QuitAt("off")' /\ ServedAt("off")'
    BY <1>1, <1>2 DEF AtPc, QuitAt, ServedAt
  <2>3. HandAt("off")'
    BY <1>1 DEF HandAt
  <2> QED BY <1>1, <1>2, <2>1, <2>2, <2>3 DEF AtPc
<1>5. CursorInv' /\ (~raced' => intact')
  BY <1>i, <1>1, <1>2, MetType, SameCursor DEF TurnInv, AtPc, QuitAt
<1>6. (shut' \/ size' > 1 => met') /\ StopsAfterQuit'
  BY <1>1, MetType DEF TurnInv, MembersHeard, StopsAfterQuit
<1> QED BY <1>i, <1>1, <1>3, <1>4, <1>5, <1>6, ThreadStep

-----------------------------------------------------------------------------
(* One step of a walk, whichever thread is in it.  While the threads have  *)
(* not met, the other one is not walking.                                  *)
LEMMA WalkKeeps ==
  ASSUME TurnInv, Meets, NEW w \in Walker, Walks(w),
         UNCHANGED <<for, caller, turnSign, tRecv_sin, member, size, master, slave>>
  PROVE  CursorInv' /\ ListType' /\ (walk'["turn"] = "no" <=> walk["turn"] = "no")
<1>i. /\ ListType /\ CursorInv /\ met' \in BOOLEAN /\ (met => met')
      /\ size \in Nat \ {0} /\ plist \in Nat /\ plist <= size
  BY TypeParts, MetType, TurnAssumption DEF TurnInv, RestType, ListType, Entries
<1>s. /\ "main" \in Walker /\ "turn" \in Walker
      /\ \A v \in Walker : v = "main" \/ v = "turn"
  BY DEF Walker
<1>1. PICK from \in {"test", "entry", "compare", "next"},
           to \in {"test", "entry", "compare", "next", "found", "end"} :
        /\ Steps(w, from, to)
        /\ from = "test" => UNCHANGED <<plist, node>> /\ to = IF plist = 0 THEN "end" ELSE "entry"
        /\ from = "entry" => to = "compare" /\ UNCHANGED plist /\ node' \in {node, plist}
        /\ from = "compare" => /\ UNCHANGED <<plist, node>> /\ node # 0
                               /\ to = IF Matches(w) THEN "found" ELSE "next"
        /\ from = "next" => /\ to = "test" /\ UNCHANGED node
                            /\ plist' = IF plist = 0 THEN size ELSE plist - 1
  <2>1. CASE WalkTest(w)
    BY <2>1 DEF WalkTest
  <2>2. CASE WalkEntry(w)
    BY <2>2 DEF WalkEntry
  <2>3. CASE WalkCompare(w)
    BY <2>3 DEF WalkCompare, GoesWild, Steps
  <2>4. CASE WalkNext(w)
    BY <2>4 DEF WalkNext
  <2> QED BY <2>1, <2>2, <2>3, <2>4 DEF Walks
<1>2. /\ walk[w] = from /\ walk'[w] = to
      /\ \A v \in Walker : v # w => walk'[v] = walk[v]
      /\ walk' \in [Walker -> {"no", "test", "entry", "compare", "next", "found", "end"}]
  BY <1>i, <1>1 DEF ListType, Steps
<1>3. ListType'
  <2>1. plist' \in 0..size /\ node' \in 0..size
    BY <1>i, <1>1 DEF ListType
  <2> QED BY <1>i, <1>2, <2>1 DEF ListType
<1>4. walk'["turn"] = "no" <=> walk["turn"] = "no"
  BY <1>1, <1>2, <1>s
<1>5. for \in {"nothing", "start"} => walk'["main"] = "no"
  BY <1>i, <1>1, <1>2, <1>s DEF CursorInv
<1>6. walk'["turn"] # "no" /\ member => tRecv_sin \in Registered'
  BY <1>i, <1>4, SameRegistered DEF CursorInv
<1>7. ASSUME ~met' PROVE Undisturbed'
  <2>1. Undisturbed
    BY <1>i, <1>7 DEF CursorInv
  <2>2. \A v \in Walker : v # w => walk'[v] \in {"no", "end"} /\ walk[v] \in {"no", "end"}
    BY <1>2, <1>7, <1>s DEF Meets
  <2>3. size = 1 /\ node = 1 /\ plist \in {0, 1}
    BY <1>i, <2>1 DEF Undisturbed
  <2>4. size' = 1 /\ node' = 1
    BY <1>1, <1>2, <2>1, <2>3 DEF Undisturbed
  <2>5. \A v \in Walker : walk'[v] = "entry" => plist' = 1
    BY <1>1, <1>2, <2>1, <2>2, <2>3 DEF Undisturbed
  <2>6. /\ walk'["turn"] = "test" /\ plist' = 0 => ~member
        /\ walk'["turn"] \in {"next", "end"} => ~member
    <3>1. CASE w # "turn"
      <4>1. walk'["turn"] = walk["turn"] /\ walk["turn"] \in {"no", "end"}
        BY <1>2, <1>s, <2>2, <3>1
      <4> QED BY <2>1, <4>1 DEF Undisturbed
    <3>2. CASE w = "turn"
      <4>1. CASE from = "compare"
        <5>1. ~Matches("turn") => ~member
          <6>1. Registered = Of(node)
            BY <2>3 DEF Registered
          <6> QED BY <1>i, <1>2, <3>2, <4>1, <6>1 DEF Matches, CursorInv
        <5> QED BY <1>1, <1>2, <3>2, <4>1, <5>1
      <4>2. CASE from # "compare"
        BY <1>1, <1>2, <2>1, <2>3, <3>2, <4>2 DEF Undisturbed
      <4> QED BY <4>1, <4>2
    <3> QED BY <3>1, <3>2
  <2>7. ASSUME for \in ByName
        PROVE  (walk'["main"] = "test" => plist' = 1) /\ walk'["main"] \notin {"next", "end"}
    <3>1. CASE w # "main"
      <4>1. walk'["main"] = walk["main"] /\ walk["main"] \in {"no", "end"}
        BY <1>2, <1>s, <2>2, <3>1
      <4> QED BY <2>1, <2>7, <4>1 DEF Undisturbed
    <3>2. CASE w = "main"
      <4>1. Matches("main")
        BY <2>7 DEF Matches
      <4> QED BY <1>1, <1>2, <2>1, <2>3, <2>7, <3>2, <4>1 DEF Undisturbed
    <3> QED BY <3>1, <3>2
  <2> QED BY <2>4, <2>5, <2>6, <2>7 DEF Undisturbed
<1>8. CursorInv'
  BY <1>i, <1>5, <1>6, <1>7 DEF CursorInv
<1> QED BY <1>3, <1>4, <1>8

(* The relay begins to look for the sender of a packet.                    *)
LEMMA ScanPacketKeeps ==
  ASSUME TurnInv, ~Dead, Meets, NEW t \in Thread, ScanPacket(t)
  PROVE  TurnInv'
<1>i. /\ BufType /\ RestType /\ Room \in Nat /\ Slack \in Nat /\ 1 <= Slack /\ Slack <= Room
      /\ recvProcessBufP \in Nat /\ scanP \in Nat /\ reg \in Nat
      /\ (~raced => intact) /\ CursorInv /\ (met => met')
  BY Numbers, TypeParts, MetType DEF TurnInv
<1> USE DEF Pc, Scanning
<1>1. /\ scanP < recvProcessBufP /\ Goes(t, "scan", "look")
      /\ node # 0 /\ plist' = size /\ Steps("turn", "no", "test")
      /\ member' = (tRecv_sin \in Registered)
      /\ UNCHANGED <<turnSign, turnThreadRunning, size, master, slave, node, for, caller>>
      /\ UNCHANGED <<buf, recvProcessBufP, at, tRecv_sin, scanP, reg, taken, owed, intact>>
      /\ UNCHANGED <<shut, since, raced, late, unbound, stopped>>
  BY DEF ScanPacket, Begin, bufVars, fifoVars
<1>2. AtPc("scan") /\ turnThreadRunning
  BY <1>1, Alone
<1>w. /\ walk'["turn"] = "test" /\ walk'["main"] = walk["main"]
      /\ \A v \in Walker : v = "main" \/ v = "turn"
      /\ walk' \in [Walker -> {"no", "test", "entry", "compare", "next", "found", "end"}]
  BY <1>i, <1>1 DEF Steps, RestType, ListType, Walker
<1>3. BufType' /\ RestType'
  <2>1. plist' \in 0..size
    BY <1>i, <1>1, TurnAssumption DEF RestType, ListType, Entries
  <2> QED BY <1>i, <1>1, <1>w, <2>1 DEF BufType, RestType, ListType
<1>4. AtPc("look")'
  <2>1. BoundAt("look")'
    BY <1>i, <1>1, <1>2 DEF AtPc, BoundAt
  <2>2. QuitAt("look")' /\ ServedAt("look")'
    BY <1>1, <1>2 DEF AtPc, QuitAt, ServedAt
  <2>3. ~raced' => HandAt("look")'
    BY <1>1, <1>2 DEF AtPc, HandAt, Holds
  <2> QED BY <2>1, <2>2, <2>3 DEF AtPc
<1>5. CursorInv'
  <2>1. Registered' = Registered
    BY <1>1, SameRegistered
  <2>2. ~met' => Undisturbed'
    BY <1>i, <1>1, <1>w DEF CursorInv, Undisturbed
  <2> QED BY <1>i, <1>1, <1>w, <2>1, <2>2 DEF CursorInv
<1>6. (shut' \/ size' > 1 => met') /\ StopsAfterQuit'
  BY <1>1, MetType DEF TurnInv, MembersHeard, StopsAfterQuit
<1> QED BY <1>i, <1>1, <1>2, <1>3, <1>4, <1>5, <1>6, ThreadStep

(* The relay's walk.                                                       *)
LEMMA TurnWalksKeeps ==
  ASSUME TurnInv, ~Dead, Meets, NEW t \in Thread, TurnWalks(t)
  PROVE  TurnInv'
<1>i. /\ BufType /\ RestType /\ (~raced => intact)
  BY Numbers, TypeParts DEF TurnInv
<1> USE DEF Pc, Scanning
<1>1. /\ tpc[t] = "look" /\ Walks("turn")
      /\ UNCHANGED <<turnSign, turnThreadRunning, size, master, slave, for, caller, tpc>>
      /\ UNCHANGED <<buf, recvProcessBufP, at, tRecv_sin, scanP, reg, taken, owed, intact>>
      /\ UNCHANGED <<member, shut, since, raced, late, unbound, stopped>>
  BY DEF TurnWalks, bufVars, fifoVars, seenVars
<1>2. Goes(t, "look", "look")
  BY <1>1, TypeParts DEF TurnInv, Goes
<1>3. AtPc("look") /\ turnThreadRunning
  BY <1>2, Alone
<1>4. CursorInv' /\ ListType'
  BY <1>1, WalkKeeps DEF Walker
<1>5. BufType' /\ RestType'
  BY <1>i, <1>1, <1>4 DEF BufType, RestType
<1>6. AtPc("look")'
  BY <1>1, <1>3 DEF AtPc, BoundAt, QuitAt, ServedAt, HandAt, Holds
<1>7. (shut' \/ size' > 1 => met') /\ StopsAfterQuit'
  BY <1>1, MetType DEF TurnInv, MembersHeard, StopsAfterQuit
<1> QED BY <1>i, <1>1, <1>2, <1>3, <1>4, <1>5, <1>6, <1>7, ThreadStep

(* The walk is over, and the packet relayed or left.                       *)
LEMMA LookedKeeps ==
  ASSUME TurnInv, ~Dead, Meets, NEW t \in Thread, RelayPacket(t) \/ RejectPacket(t)
  PROVE  TurnInv'
<1>i. /\ BufType /\ RestType /\ Room \in Nat /\ Slack \in Nat /\ 1 <= Slack /\ Slack <= Room
      /\ recvProcessBufP \in Nat /\ scanP \in Nat /\ reg \in Nat
      /\ owed \in Seq(1..MaxDatagrams)
      /\ (~raced => intact) /\ CursorInv /\ (met => met') /\ met' \in BOOLEAN
  BY Numbers, TypeParts, MetType DEF TurnInv
<1> USE DEF Pc, Scanning
<1>1. PICK from \in {"found", "end"} : Steps("turn", from, "no")
  BY DEF RelayPacket, RejectPacket
<1>2. /\ UNCHANGED <<turnSign, turnThreadRunning, size, master, slave, plist, node, for, caller>>
      /\ UNCHANGED <<buf, recvProcessBufP, at, tRecv_sin, reg, taken>>
      /\ UNCHANGED <<member, since, raced, late, unbound, stopped>>
  BY DEF RelayPacket, RejectPacket, lookRest, bufVars, fifoVars, seenVars
<1>w. /\ walk'["turn"] = "no" /\ walk'["main"] = walk["main"] /\ walk["turn"] = from
      /\ \A v \in Walker : v = "main" \/ v = "turn"
      /\ walk' \in [Walker -> {"no", "test", "entry", "compare", "next", "found", "end"}]
  BY <1>i, <1>1 DEF Steps, RestType, ListType, Walker
<1>3. CursorInv'
  <2>1. ~met' => Undisturbed'
    BY <1>i, <1>2, <1>w DEF CursorInv, Undisturbed
  <2> QED BY <1>i, <1>2, <1>w, <2>1 DEF CursorInv
<1>4. StopsAfterQuit'
  BY <1>2 DEF TurnInv, StopsAfterQuit
<1>5. CASE RelayPacket(t)
  <2>1. /\ Goes(t, "look", "scan") /\ scanP' = scanP + 1 /\ UNCHANGED shut
        /\ intact' = (intact /\ owed # <<>> /\ buf[scanP] = Head(owed))
        /\ owed' = IF owed = <<>> THEN owed ELSE Tail(owed)
    BY <1>5 DEF RelayPacket, seenVars
  <2>2. AtPc("look") /\ turnThreadRunning
    BY <2>1, Alone
  <2>3. BoundAt("scan")'
    BY <1>i, <1>2, <2>1, <2>2 DEF AtPc, BoundAt
  <2>4. owed' \in Seq(1..MaxDatagrams)
    <3>1. CASE owed = <<>>
      BY <1>i, <2>1, <3>1
    <3>2. CASE owed # <<>>
      <4>1. Tail(owed) \in Seq(1..MaxDatagrams)
        BY <1>i, <3>2
      <4> QED BY <2>1, <3>2, <4>1
    <3> QED BY <3>1, <3>2
  <2>5. BufType' /\ RestType'
    BY <1>i, <1>2, <1>w, <2>1, <2>2, <2>4 DEF BufType, RestType, ListType, AtPc, BoundAt
  <2>6. ASSUME ~raced PROVE intact' /\ HandAt("scan")'
    <3>1. /\ Len(owed) = recvProcessBufP - scanP /\ scanP < recvProcessBufP
          /\ \A i \in 1..Len(owed) : owed[i] = buf[scanP + i - 1]
      BY <2>2, <2>6 DEF AtPc, HandAt, Holds
    <3>2. 1 \in 1..Len(owed) /\ owed # <<>>
      BY <1>i, <3>1
    <3>3. Head(owed) = buf[scanP]
      <4>1. Head(owed) = owed[1]
        BY <1>i, <3>2
      <4>2. scanP + 1 - 1 = scanP
        BY <1>i
      <4> QED BY <3>1, <3>2, <4>1, <4>2
    <3>4. Len(owed') = recvProcessBufP - (scanP + 1)
      BY <1>i, <2>1, <3>1, <3>2
    <3>5. ASSUME NEW i \in 1..Len(owed') PROVE owed'[i] = buf[scanP + 1 + i - 1]
      <4>1. owed'[i] = owed[i + 1] /\ i + 1 \in 1..Len(owed)
        BY <1>i, <2>1, <3>1, <3>2, <3>4
      <4>2. scanP + (i + 1) - 1 = scanP + 1 + i - 1
        BY <1>i
      <4> QED BY <3>1, <4>1, <4>2
    <3> QED BY <1>i, <1>2, <2>1, <2>6, <3>2, <3>3, <3>4, <3>5 DEF HandAt, Holds
  <2>7. AtPc("scan")'
    BY <1>2, <1>w, <2>2, <2>3, <2>6 DEF AtPc, QuitAt, ServedAt
  <2>8. shut' \/ size' > 1 => met'
    BY <1>i, <1>2, <2>1 DEF TurnInv, MembersHeard
  <2> QED BY <1>2, <1>3, <1>4, <2>1, <2>2, <2>5, <2>6, <2>7, <2>8, ThreadStep
<1>6. CASE RejectPacket(t)
  <2>1. /\ Goes(t, "look", "tail") /\ walk["turn"] = "end" /\ shut' = (shut \/ member)
        /\ UNCHANGED <<scanP, owed, intact>>
    BY <1>6 DEF RejectPacket, Steps, bufVars, fifoVars
  <2>2. AtPc("look") /\ turnThreadRunning
    BY <2>1, Alone
  <2>3. BoundAt("tail")'
    BY <1>i, <1>2, <2>1, <2>2 DEF AtPc, BoundAt
  <2>4. BufType' /\ RestType'
    BY <1>i, <1>2, <1>w, <2>1 DEF BufType, RestType, ListType
  <2>5. ~raced => intact' /\ HandAt("tail")'
    BY <1>i, <1>2, <2>1, <2>2 DEF AtPc, HandAt, Holds
  <2>6. AtPc("tail")'
    BY <1>2, <1>w, <2>2, <2>3, <2>5 DEF AtPc, QuitAt, ServedAt
  <2>7. shut' \/ size' > 1 => met'
    BY <1>i, <1>2, <2>1 DEF TurnInv, MembersHeard, CursorInv, Undisturbed
  <2> QED BY <1>2, <1>3, <1>4, <2>1, <2>2, <2>4, <2>5, <2>6, <2>7, ThreadStep
<1> QED BY <1>5, <1>6

(* Every step of a relay thread keeps the invariant.                       *)
LEMMA TurnThreadKeeps ==
  ASSUME TurnInv, ~Dead, Meets, NEW t \in Thread, turnThread(t)
  PROVE  TurnInv'
BY CountersKeep, StoreTailKeeps, BeginTurnKeeps, BindTurnKeeps, BindFailsKeeps,
   TakePacketKeeps, TakeNothingKeeps, LeaveTurnKeeps, ScanPacketKeeps,
   TurnWalksKeeps, LookedKeeps DEF turnThread

-----------------------------------------------------------------------------
(* The main thread.  A handler that starts no thread leaves the relay its  *)
(* place and all it works on, recvProcessBufP excepted.                    *)
LEMMA MainStep ==
  ASSUME TurnInv, ~Dead, Meets, NotTheThread,
         UNCHANGED <<turnThreadRunning, shut, unbound>>, stopped => stopped',
         recvProcessBufP' \in {recvProcessBufP, 0},
         raced => raced', ~raced' => recvProcessBufP' = recvProcessBufP,
         ~turnSign' => since' = 0 \/ (~turnSign /\ since' = since),
         ~turnSign' => ~turnSign \/ stopped',
         turnSign' /\ for' # "start" /\ ~late' => turnSign /\ for # "start" /\ ~late,
         walk'["turn"] = "no" <=> walk["turn"] = "no",
         RestType', CursorInv'
  PROVE  TurnInv'
<1>i. BufType /\ tpc \in [Thread -> Pc] /\ (met => met') /\ met' \in BOOLEAN
      /\ Room \in Nat /\ Slack \in 1..Room
  BY TypeParts, MetType, TurnAssumption DEF TurnInv
<1>u. UNCHANGED <<tpc, buf, at, tRecv_sin, scanP, reg, taken, owed, intact>>
  BY DEF NotTheThread, fifoVars
<1>1. TurnTypeOK'
  <2>1. BufType'
    BY <1>i, <1>u DEF BufType
  <2> QED BY <1>i, <1>u, <2>1, TypeFromParts
<1>2. Dead' = Dead /\ FlagIsThread'
  BY <1>u DEF TurnInv, FlagIsThread, Dead
<1>3. ASSUME NEW pc \in Pc, PcIs(pc)' PROVE AtPc(pc)'
  <2>1. AtPc(pc)
    BY <1>u, <1>3 DEF TurnInv, PcIs
  <2>2. BoundAt(pc)'
    BY <1>i, <1>u, <2>1 DEF AtPc, BoundAt
  <2>3. QuitAt(pc)' /\ ServedAt(pc)'
    BY <2>1 DEF AtPc, QuitAt, ServedAt
  <2>4. ~raced' => HandAt(pc)'
    BY <1>u, <2>1 DEF AtPc, HandAt, Holds
  <2> QED BY <2>1, <2>2, <2>3, <2>4 DEF AtPc
<1>4. MembersHeard'
  <2>1. ~met' => size' = 1
    BY DEF CursorInv, Undisturbed
  <2>2. size' \in Nat
    BY TurnAssumption DEF RestType, ListType, Entries
  <2>3. size' > 1 => met'
    BY <1>i, <2>1, <2>2
  <2> QED BY <1>i, <1>2, <2>3 DEF TurnInv, MembersHeard
<1>5. (~raced' => intact') /\ StopsAfterQuit'
  BY <1>i, <1>u DEF TurnInv, StopsAfterQuit
<1> QED BY <1>1, <1>2, <1>3, <1>4, <1>5 DEF TurnInv

(* Most handlers write nothing but the list and what is about it.          *)
LEMMA ListStep ==
  ASSUME TurnInv, ~Dead, Meets, OnlyTheList, for # "start", for' # "start",
         member' \in BOOLEAN, walk'["turn"] = "no" <=> walk["turn"] = "no",
         ListType', CursorInv'
  PROVE  TurnInv'
<1>1. /\ NotTheThread
      /\ UNCHANGED <<turnSign, turnThreadRunning, recvProcessBufP, shut, since>>
      /\ UNCHANGED <<raced, late, unbound, stopped>>
  BY DEF OnlyTheList
<1>2. RestType'
  BY <1>1, TypeParts DEF TurnInv, RestType
<1> QED BY <1>1, <1>2, MainStep

(* A walk that begins, whatever for, and whatever else is written.         *)
LEMMA BeginMain ==
  ASSUME TurnInv, Meets, plist' = size', ListType',
         NEW from \in {"no", "found", "end"}, Steps("main", from, "test"),
         for' \notin {"nothing", "start"}, UNCHANGED <<node, tRecv_sin>>,
         for' \in {"find", "set"} => caller' \in Slaves, for' = "login" => caller' \in Masters,
         ~met' => size' = size,
         member' => member /\ (walk["turn"] # "no" => tRecv_sin \in Registered')
  PROVE  CursorInv' /\ walk'["turn"] = walk["turn"] /\ walk'["main"] = "test"
<1>i. /\ CursorInv /\ (met => met')
      /\ walk \in [Walker -> {"no", "test", "entry", "compare", "next", "found", "end"}]
  BY TypeParts, MetType DEF TurnInv, RestType, ListType
<1>w. /\ walk'["turn"] = walk["turn"] /\ walk'["main"] = "test"
      /\ \A v \in Walker : v = "main" \/ v = "turn"
  BY <1>i DEF Steps, Walker
<1>1. ~met' => Undisturbed'
  BY <1>i, <1>w DEF CursorInv, Undisturbed
<1> QED BY <1>i, <1>w, <1>1 DEF CursorInv

(* The main thread's handlers that walk the list.                          *)
LEMMA HandlersKeep ==
  ASSUME TurnInv, ~Dead, Meets,
         \/ FoundPeer \/ PeerSetSlave \/ PeerSet \/ Printed \/ LookedUp \/ MainWalks
         \/ \E what \in {"name", "pol", "login", "find", "address"}, c \in Sender \cup {None} :
              /\ what = "login" => c \in Masters
              /\ what = "find" => c \in Slaves
              /\ LookUp(what, c)
  PROVE  TurnInv'
<1>i. /\ ListType /\ CursorInv /\ (met => met') /\ met' \in BOOLEAN /\ member \in BOOLEAN
      /\ walk \in [Walker -> {"no", "test", "entry", "compare", "next", "found", "end"}]
      /\ size \in Nat \ {0} /\ size <= PeerSheetLen /\ PeerSheetLen \in Nat
  BY TypeParts, MetType, TurnAssumption DEF TurnInv, RestType, ListType, Entries
<1>o. OnlyTheList
  BY DEF FoundPeer, PeerSetSlave, PeerSet, Printed, LookedUp, MainWalks, LookUp
<1>t. UNCHANGED <<tRecv_sin, turnSign>>
  BY <1>o DEF OnlyTheList, NotTheThread
<1>w. ASSUME NEW from \in {"no", "found", "end"}, NEW to \in {"test", "no"}, Steps("main", from, to)
      PROVE  walk' \in [Walker -> {"no", "test", "entry", "compare", "next", "found", "end"}]
  BY <1>i, <1>w DEF Steps
<1>1. ASSUME NEW what \in {"name", "pol", "login", "find", "address"},
             NEW c \in Sender \cup {None}, LookUp(what, c),
             what = "login" => c \in Masters, what = "find" => c \in Slaves
      PROVE  TurnInv'
  <2>1. /\ for = "nothing" /\ for' = what /\ caller' = c
        /\ plist' = size /\ Steps("main", "no", "test")
        /\ UNCHANGED <<size, master, slave, node, member>>
    BY <1>1 DEF LookUp, Begin, Idle
  <2>2. ListType'
    BY <1>i, <1>w, <2>1 DEF ListType
  <2>3. member /\ walk["turn"] # "no" => tRecv_sin \in Registered'
    BY <1>i, <2>1, SameRegistered DEF CursorInv
  <2>4. CursorInv' /\ walk'["turn"] = walk["turn"]
    BY <1>1, <1>t, <2>1, <2>2, <2>3, BeginMain
  <2> QED BY <1>i, <1>o, <2>1, <2>2, <2>4, ListStep
<1>2. CASE FoundPeer
  <2>1. /\ for = "find" /\ for' = "set" /\ plist' = size /\ Steps("main", "found", "test")
        /\ UNCHANGED <<size, master, slave, node, caller, member>>
    BY <1>2 DEF FoundPeer, Begin
  <2>2. ListType'
    BY <1>i, <1>w, <2>1 DEF ListType
  <2>3. /\ member /\ walk["turn"] # "no" => tRecv_sin \in Registered'
        /\ caller \in Slaves
    BY <1>i, <2>1, SameRegistered DEF CursorInv
  <2>4. CursorInv' /\ walk'["turn"] = walk["turn"]
    BY <1>t, <2>1, <2>2, <2>3, BeginMain
  <2> QED BY <1>i, <1>o, <2>1, <2>2, <2>4, ListStep
<1>3. CASE PeerSetSlave
  <2>1. /\ for = "set" /\ for' = "print" /\ plist' = size /\ Steps("main", "found", "test")
        /\ UNCHANGED <<size, master, node, caller>>
        /\ slave' = [slave EXCEPT ![node] = caller]
        /\ member' = (member /\ tRecv_sin \in Registered')
    BY <1>3 DEF PeerSetSlave, Begin
  <2>2. caller \in Slaves
    BY <1>i, <2>1 DEF CursorInv
  <2>3. ListType'
    <3>1. slave' \in [Entries -> Slaves \cup {None}]
      BY <1>i, <2>1, <2>2 DEF ListType
    <3>2. plist' \in 0..size
      BY <1>i, <2>1
    <3> QED BY <1>i, <1>w, <2>1, <3>1, <3>2 DEF ListType
  <2>4. CursorInv' /\ walk'["turn"] = walk["turn"]
    BY <1>t, <2>1, <2>3, BeginMain
  <2>5. member' \in BOOLEAN /\ for # "start" /\ for' # "start"
    BY <2>1
  <2> QED BY <1>o, <2>3, <2>4, <2>5, ListStep
<1>4. CASE PeerSet
  <2>1. /\ for = "login" /\ for' = "print" /\ size < PeerSheetLen
        /\ size' = size + 1 /\ plist' = size' /\ Steps("main", "end", "test")
        /\ master' = [master EXCEPT ![size'] = caller]
        /\ UNCHANGED <<slave, node, caller, member>>
    BY <1>4 DEF PeerSet
  <2>2. met
    BY <1>i, <2>1 DEF CursorInv, Undisturbed, Steps, ByName
  <2>3. caller \in Masters
    BY <1>i, <2>1 DEF CursorInv
  <2>4. size' \in Entries /\ node \in 0..size'
    BY <1>i, <2>1 DEF Entries, ListType
  <2>5. ListType'
    BY <1>i, <1>w, <2>1, <2>3, <2>4 DEF ListType
  <2>6. Registered \subseteq Registered'
    <3>1. ASSUME NEW i \in 1..size PROVE i \in 1..size' /\ Of(i)' = Of(i)
      <4>1. i \in 1..size' /\ i # size' /\ i \in Entries
        BY <1>i, <2>1 DEF Entries
      <4> QED BY <1>i, <2>1, <4>1 DEF Of, ListType
    <3> QED BY <3>1 DEF Registered
  <2>7. member /\ walk["turn"] # "no" => tRecv_sin \in Registered'
    BY <1>i, <2>6 DEF CursorInv
  <2>8. CursorInv' /\ walk'["turn"] = walk["turn"]
    BY <1>i, <1>t, <2>1, <2>2, <2>5, <2>7, BeginMain
  <2> QED BY <1>i, <1>o, <2>1, <2>5, <2>8, ListStep
<1>5. CASE Printed
  <2>1. /\ for = "print" /\ for' = "name" /\ caller' = None
        /\ plist' = size /\ Steps("main", "end", "test")
        /\ UNCHANGED <<size, master, slave, node, member>>
    BY <1>5 DEF Printed, Begin
  <2>2. ListType'
    BY <1>i, <1>w, <2>1 DEF ListType
  <2>3. member /\ walk["turn"] # "no" => tRecv_sin \in Registered'
    BY <1>i, <2>1, SameRegistered DEF CursorInv
  <2>4. CursorInv' /\ walk'["turn"] = walk["turn"]
    BY <1>t, <2>1, <2>2, <2>3, BeginMain
  <2> QED BY <1>i, <1>o, <2>1, <2>2, <2>4, ListStep
<1>6. CASE LookedUp
  <2>1. /\ walk["main"] # "no" /\ for' = "nothing" /\ caller' = None
        /\ walk' = [walk EXCEPT !["main"] = "no"]
        /\ UNCHANGED <<size, master, slave, plist, node, member>>
    BY <1>6 DEF LookedUp
  <2>2. /\ walk'["turn"] = walk["turn"] /\ walk'["main"] = "no"
        /\ \A v \in Walker : v = "main" \/ v = "turn"
        /\ walk' \in [Walker -> {"no", "test", "entry", "compare", "next", "found", "end"}]
    BY <1>i, <2>1 DEF Walker
  <2>3. ListType'
    BY <1>i, <2>1, <2>2 DEF ListType
  <2>4. CursorInv'
    <3>1. Registered' = Registered
      BY <2>1, SameRegistered
    <3>2. ~met' => Undisturbed'
      BY <1>i, <2>1, <2>2 DEF CursorInv, Undisturbed
    <3> QED BY <1>i, <1>t, <2>1, <2>2, <3>1, <3>2 DEF CursorInv
  <2>5. for # "start"
    BY <1>i, <2>1 DEF CursorInv
  <2> QED BY <1>i, <1>o, <2>1, <2>2, <2>3, <2>4, <2>5, ListStep
<1>7. CASE MainWalks
  <2>1. Walks("main") /\ UNCHANGED <<size, master, slave, for, caller, member>>
    BY <1>7 DEF MainWalks
  <2>2. CursorInv' /\ ListType' /\ (walk'["turn"] = "no" <=> walk["turn"] = "no")
    BY <1>t, <2>1, WalkKeeps DEF Walker
  <2>3. walk["main"] # "no"
    BY <2>1 DEF Walks, WalkTest, WalkEntry, WalkCompare, WalkNext, Steps
  <2>4. for # "start"
    BY <1>i, <2>3 DEF CursorInv
  <2> QED BY <1>i, <1>o, <2>1, <2>2, <2>4, ListStep
<1> QED BY <1>1, <1>2, <1>3, <1>4, <1>5, <1>6, <1>7

(* Those that write the flags.                                             *)
LEMMA RequestsKeep ==
  ASSUME TurnInv, ~Dead, Meets, TurnReq \/ MasterQuit
  PROVE  TurnInv'
<1>i. /\ RestType /\ ListType /\ CursorInv /\ (met => met')
  BY TypeParts, MetType DEF TurnInv, RestType
<1>t. NotTheThread /\ UNCHANGED tRecv_sin
  BY DEF TurnReq, MasterQuit, NotTheThread
<1>1. CASE TurnReq
  <2>1. /\ turnSign' = TRUE /\ recvProcessBufP' = 0 /\ for = "nothing" /\ for' = "start"
        /\ raced' = (raced \/ Busy) /\ since' = 0
        /\ UNCHANGED <<turnThreadRunning, size, master, slave, plist, node, walk, caller>>
        /\ UNCHANGED <<member, shut, late, unbound, stopped>>
    BY <1>1 DEF TurnReq, Idle
  <2>2. ~raced' => recvProcessBufP' = recvProcessBufP
    BY <2>1 DEF Busy
  <2>3. CursorInv'
    <3>1. Registered' = Registered
      BY <2>1, SameRegistered
    <3>2. ~met' => Undisturbed'
      BY <1>i, <2>1 DEF CursorInv, Undisturbed, ByName
    <3> QED BY <1>i, <1>t, <2>1, <3>1, <3>2 DEF CursorInv
  <2>4. RestType'
    BY <1>i, <2>1 DEF RestType, ListType
  <2> QED BY <1>t, <2>1, <2>2, <2>3, <2>4, MainStep
<1>2. CASE MasterQuit
  <2>1. /\ turnSign' = FALSE /\ since' = (IF turnSign THEN 0 ELSE since) /\ stopped' = TRUE
        /\ for = "nothing" /\ for' = "delete" /\ plist' = size /\ Steps("main", "no", "test")
        /\ UNCHANGED <<turnThreadRunning, size, master, slave, node, caller>>
        /\ UNCHANGED <<recvProcessBufP, member, shut, raced, late, unbound>>
    BY <1>2 DEF MasterQuit, Begin, Idle
  <2>2. ListType'
    <3>1. plist' \in 0..size
      BY <1>i, <2>1, TurnAssumption DEF ListType, Entries
    <3> QED BY <1>i, <2>1, <3>1 DEF ListType, Steps
  <2>3. member /\ walk["turn"] # "no" => tRecv_sin \in Registered'
    BY <1>i, <2>1, SameRegistered DEF CursorInv
  <2>4. CursorInv' /\ walk'["turn"] = walk["turn"]
    BY <1>t, <2>1, <2>2, <2>3, BeginMain
  <2>5. RestType'
    BY <1>i, <2>1, <2>2 DEF RestType
  <2>6. since' = 0 \/ (~turnSign /\ since' = since)
    BY <2>1
  <2>7. ~turnSign' /\ stopped'
    BY <2>1
  <2> QED BY <1>t, <2>1, <2>4, <2>5, <2>6, <2>7, MainStep
<1> QED BY <1>1, <1>2

(* The handler that may start a thread.                                    *)
LEMMA StartTurnKeeps ==
  ASSUME TurnInv, ~Dead, Meets, StartTurn
  PROVE  TurnInv'
<1>i. /\ BufType /\ RestType /\ CursorInv /\ (met => met') /\ met' \in BOOLEAN
      /\ tpc \in [Thread -> Pc] /\ (~raced => intact) /\ FlagIsThread
  BY TypeParts, MetType DEF TurnInv
<1>1. /\ for = "start" /\ for' = "nothing" /\ late' = \E t \in Thread : tpc[t] = "leave"
      /\ UNCHANGED <<turnSign, size, master, slave, plist, node, walk, caller>>
      /\ UNCHANGED <<buf, recvProcessBufP, at, tRecv_sin, scanP, reg, taken, owed, intact>>
      /\ UNCHANGED <<member, shut, since, raced>>
  BY DEF StartTurn, startRest, bufVars, fifoVars
<1>2. CursorInv'
  <2>1. ~met' => Undisturbed'
    BY <1>i, <1>1 DEF CursorInv, Undisturbed, ByName
  <2> QED BY <1>i, <1>1, <2>1, SameRegistered DEF CursorInv
<1>3. BufType' /\ StopsAfterQuit' /\ (~raced' => intact') /\ (shut' \/ size' > 1 => met')
      /\ turnSign
  BY <1>i, <1>1 DEF TurnInv, BufType, StopsAfterQuit, MembersHeard, CursorInv
<1>4. CASE turnThreadRunning
  <2>1. UNCHANGED <<turnThreadRunning, tpc, unbound, stopped>>
    BY <1>4 DEF StartTurn
  <2>2. RestType'
    BY <1>i, <1>1, <2>1 DEF RestType, ListType
  <2>3. TurnTypeOK'
    BY <1>i, <1>3, <2>1, <2>2, TypeFromParts
  <2>4. ~Dead' /\ FlagIsThread' /\ MembersHeard'
    BY <1>i, <1>3, <2>1 DEF FlagIsThread, Dead, MembersHeard
  <2>5. ASSUME NEW pc \in Pc, PcIs(pc)' PROVE AtPc(pc)'
    <3>1. PcIs(pc) /\ AtPc(pc)
      BY <2>1, <2>5 DEF TurnInv, PcIs
    <3>2. BoundAt(pc)' /\ QuitAt(pc)'
      BY <1>1, <2>1, <3>1 DEF AtPc, BoundAt, QuitAt
    <3>3. ServedAt(pc)'
      BY <1>i, <1>1, <1>4, <3>1 DEF ServedAt, FlagIsThread, PcIs
    <3>4. ~raced' => HandAt(pc)'
      BY <1>1, <3>1 DEF AtPc, HandAt, Holds
    <3> QED BY <1>1, <3>1, <3>2, <3>3, <3>4 DEF AtPc
  <2> QED BY <1>2, <1>3, <2>3, <2>4, <2>5 DEF TurnInv
<1>5. CASE ~turnThreadRunning
  <2>1. turnThreadRunning' = TRUE /\ unbound' = FALSE /\ stopped' = FALSE
    BY <1>5 DEF StartTurn
  <2>2. PICK t \in Thread : tpc[t] = "off" /\ tpc' = [tpc EXCEPT ![t] = "new"]
    BY <1>5 DEF StartTurn
  <2>3. \A u \in Thread : tpc[u] = "off"
    BY <1>i, <1>5 DEF FlagIsThread
  <2>4. /\ \A u \in Thread : tpc'[u] = IF u = t THEN "new" ELSE "off"
        /\ tpc' \in [Thread -> Pc]
    BY <1>i, <2>2, <2>3 DEF Pc
  <2>5. RestType'
    BY <1>i, <1>1, <2>1 DEF RestType, ListType
  <2>6. TurnTypeOK'
    BY <1>i, <1>3, <2>4, <2>5, TypeFromParts
  <2>7. ~Dead' /\ FlagIsThread' /\ MembersHeard'
    BY <1>3, <2>1, <2>4 DEF FlagIsThread, Dead, MembersHeard
  <2>8. AtPc("off")
    BY <2>3 DEF TurnInv, PcIs, Pc
  <2>9. AtPc("new")'
    <3>1. BoundAt("new")' /\ QuitAt("new")' /\ ServedAt("new")'
      BY <1>1, <1>3, <2>8 DEF AtPc, BoundAt, QuitAt, ServedAt, Scanning
    <3>2. ~raced' => HandAt("new")'
      BY <1>1, <2>8 DEF AtPc, HandAt
    <3> QED BY <1>1, <2>8, <3>1, <3>2 DEF AtPc
  <2>10. ASSUME NEW pc \in Pc, PcIs(pc)' PROVE AtPc(pc)'
    <3>1. pc = "new"
      BY <2>4, <2>10 DEF PcIs
    <3> QED BY <2>9, <3>1
  <2> QED BY <1>2, <1>3, <2>6, <2>7, <2>10 DEF TurnInv
<1> QED BY <1>4, <1>5

(* The server dies only when the threads have met, or after a TURN_REQ     *)
(* inside a pass.                                                          *)
LEMMA DiesKeeps ==
  ASSUME TurnInv, ~Dead, Meets, Dies
  PROVE  TurnInv'
<1>i. /\ BufType /\ RestType /\ CursorInv /\ (met => met') /\ met' \in BOOLEAN
      /\ tpc \in [Thread -> Pc]
  BY TypeParts, MetType DEF TurnInv
<1>1. /\ tpc' = [t \in Thread |-> "wild"]
      /\ UNCHANGED <<turnSign, turnThreadRunning, size, master, slave, plist, node, walk, for, caller>>
      /\ UNCHANGED <<buf, recvProcessBufP, at, tRecv_sin, scanP, reg, taken, owed, intact>>
      /\ UNCHANGED <<member, shut, since, raced, late, unbound, stopped>>
  BY DEF Dies, rest, listVars, seenVars, bufVars, fifoVars
<1>2. TurnTypeOK'
  <2>1. BufType' /\ RestType'
    BY <1>i, <1>1 DEF BufType, RestType, ListType
  <2> QED BY <1>i, <1>1, <2>1, TypeFromParts DEF Pc
<1>3. CursorInv' /\ StopsAfterQuit' /\ (~raced' => intact')
  BY <1>i, <1>1, SameCursor DEF TurnInv, StopsAfterQuit
<1>4. met' \/ raced'
  <2> SUFFICES ASSUME ~met', ~raced PROVE FALSE
    BY <1>1
  <2>1. Undisturbed
    BY <1>i DEF CursorInv
  <2>2. \A w \in Walker : ~GoesWild(w)
    BY <2>1 DEF GoesWild, Undisturbed, ByName
  <2>3. ASSUME NEW t \in Thread, tpc[t] = "subbed" PROVE ~(reg < scanP)
    <3>1. HandAt("subbed")
      BY <2>3 DEF TurnInv, PcIs, Pc, AtPc
    <3> QED BY <1>i, <3>1 DEF HandAt, BufType
  <2> QED BY <2>1, <2>2, <2>3 DEF Dies, Undisturbed
<1>5. MembersHeard'
  BY <1>i, <1>1, <1>4 DEF TurnInv, MembersHeard
(* Without a thread nobody is seen to die.                                 *)
<1>6. ASSUME ~Dead' PROVE UNCHANGED tpc /\ Thread = {}
  <2>1. Thread = {}
    BY <1>1, <1>6 DEF Dead
  <2> QED BY <1>i, <1>1, <2>1
<1>7. FlagIsThread'
  BY <1>1, <1>6 DEF TurnInv, FlagIsThread
<1>8. ASSUME ~Dead', NEW pc \in Pc, PcIs(pc)' PROVE AtPc(pc)'
  <2>1. AtPc(pc)
    BY <1>6, <1>8 DEF TurnInv, PcIs
  <2>2. BoundAt(pc)' /\ QuitAt(pc)' /\ ServedAt(pc)'
    BY <1>1, <2>1 DEF AtPc, BoundAt, QuitAt, ServedAt
  <2>3. ~raced' => HandAt(pc)'
    BY <1>1, <2>1 DEF AtPc, HandAt, Holds
  <2> QED BY <1>1, <2>1, <2>2, <2>3 DEF AtPc
<1> QED BY <1>2, <1>3, <1>5, <1>7, <1>8 DEF TurnInv

-----------------------------------------------------------------------------
LEMMA InitTurnInv == TurnInit => TurnInv
<1> SUFFICES ASSUME TurnInit PROVE TurnInv
  OBVIOUS
<1>i. /\ Room \in Nat /\ Slack \in Nat /\ 1 <= Slack /\ Slack <= Room /\ MaxDatagrams \in Nat
      /\ 0 \in 0..Room /\ 0 \in 0..Room - Slack /\ 0 \in 0..MaxDatagrams
  BY TurnAssumption
<1>1. TurnTypeOK
  <2>1. owed \in Seq(1..MaxDatagrams)
    BY DEF TurnInit
  <2>2. 1 \in Entries /\ 0 \in 0..1 /\ 1 \in 0..1
    BY TurnAssumption DEF Entries
  <2>3. master \in [Entries -> Masters \cup {None}] /\ slave \in [Entries -> Slaves \cup {None}]
    BY DEF TurnInit
  <2> QED BY <1>i, <2>1, <2>2, <2>3 DEF TurnInit, TurnTypeOK, Walker
<1>2. /\ \A t \in Thread : tpc[t] = "off"
      /\ \A w \in Walker : walk[w] = "no"
  BY DEF TurnInit
<1>3. FlagIsThread
  BY <1>2 DEF TurnInit, FlagIsThread
<1>4. ASSUME NEW pc \in Pc, PcIs(pc) PROVE AtPc(pc)
  <2>1. pc = "off"
    BY <1>2, <1>4 DEF PcIs
  <2>2. BoundAt("off") /\ QuitAt("off") /\ ServedAt("off") /\ HandAt("off")
    BY <1>i DEF TurnInit, BoundAt, QuitAt, ServedAt, HandAt
  <2> QED BY <1>2, <2>1, <2>2 DEF AtPc, Walker
<1>5. CursorInv
  BY <1>2 DEF TurnInit, CursorInv, Undisturbed, Walker, ByName
<1>6. MembersHeard /\ StopsAfterQuit /\ intact
  BY <1>2 DEF TurnInit, MembersHeard, StopsAfterQuit, Dead
<1> QED BY <1>1, <1>3, <1>4, <1>5, <1>6 DEF TurnInv

LEMMA NextTurnInv == TurnInv /\ [TurnNext]_turnVars => TurnInv'
<1> SUFFICES ASSUME TurnInv, [TurnNext]_turnVars PROVE TurnInv'
  OBVIOUS
<1>1. CASE TurnNext
  <2>1. ~Dead /\ Meets
    BY <1>1 DEF TurnNext, Meets
  <2>2. CASE MainThread
    <3>1. None \in Sender \cup {None} /\ Masters \subseteq Sender /\ Slaves \subseteq Sender
      BY DEF Sender
    <3>2. \/ TurnReq \/ MasterQuit \/ StartTurn \/ FoundPeer \/ PeerSetSlave \/ PeerSet
          \/ Printed \/ LookedUp \/ MainWalks
          \/ \E what \in {"name", "pol", "login", "find", "address"}, c \in Sender \cup {None} :
               /\ what = "login" => c \in Masters
               /\ what = "find" => c \in Slaves
               /\ LookUp(what, c)
      BY <2>2, <3>1 DEF MainThread
    <3> QED BY <2>1, <3>2, RequestsKeep, HandlersKeep, StartTurnKeeps
  <2>3. CASE \E t \in Thread : turnThread(t)
    BY <2>1, <2>3, TurnThreadKeeps
  <2> QED BY <1>1, <2>1, <2>2, <2>3, DiesKeeps DEF TurnNext
<1>2. CASE UNCHANGED turnVars
  <2>1. /\ UNCHANGED <<turnSign, turnThreadRunning, size, master, slave, plist, node, walk, for, caller, tpc>>
        /\ UNCHANGED <<buf, recvProcessBufP, at, tRecv_sin, scanP, reg, taken, owed, intact>>
        /\ UNCHANGED <<member, shut, since, raced, late, unbound, stopped, met>>
    BY <1>2 DEF turnVars, listVars, bufVars, fifoVars, seenVars
  <2>2. TurnTypeOK'
    <3>1. BufType' /\ RestType'
      BY <2>1, TypeParts DEF TurnInv, BufType, RestType, ListType
    <3> QED BY <2>1, <3>1, TypeParts, TypeFromParts DEF TurnInv
  <2>3. FlagIsThread' /\ CursorInv' /\ MembersHeard' /\ StopsAfterQuit' /\ (~raced' => intact')
    BY <2>1, SameCursor DEF TurnInv, FlagIsThread, MembersHeard, StopsAfterQuit, Dead
  <2>4. ASSUME ~Dead', NEW pc \in Pc, PcIs(pc)' PROVE AtPc(pc)'
    <3>1. AtPc(pc)
      BY <2>1, <2>4 DEF TurnInv, PcIs, Dead
    <3>2. BoundAt(pc)' /\ QuitAt(pc)' /\ ServedAt(pc)'
      BY <2>1, <3>1 DEF AtPc, BoundAt, QuitAt, ServedAt
    <3>3. ~raced' => HandAt(pc)'
      BY <2>1, <3>1 DEF AtPc, HandAt, Holds
    <3> QED BY <2>1, <3>1, <3>2, <3>3 DEF AtPc
  <2> QED BY <2>2, <2>3, <2>4 DEF TurnInv
<1> QED BY <1>1, <1>2

(* The invariant of the TURN relay holds in every reachable state.         *)
THEOREM TurnInvariance == TurnSpec => []TurnInv
BY InitTurnInv, NextTurnInv, PTL DEF TurnSpec

(* recvProcessBufP and what is computed from it stay inside                *)
(* recvProcessBuf, and recvfrom is always given recv_size bytes of room,   *)
(* for any TURN_DATA_SIZE and recv_size, and although the main thread      *)
(* resets recvProcessBufP whenever it likes.                               *)
THEOREM TurnTypeCorrect == TurnSpec => []TurnTypeOK
<1>1. TurnInv => TurnTypeOK
  BY DEF TurnInv
<1> QED BY <1>1, TurnInvariance, PTL

(* The main thread tests turnThreadRunning, and both the new and the       *)
(* ending thread write it, all without a lock: there are never two.        *)
THEOREM NeverTwoTurnThreads == TurnSpec => []OneTurnThread
<1>1. ASSUME TurnInv, ~Dead PROVE OneTurnThread
  <2> DEFINE Living == {t \in Thread : tpc[t] # "off"}
  <2>1. CASE Living = {}
    <3>1. Cardinality(Living) = 0
      BY <2>1, FS_EmptySet
    <3> QED BY <3>1 DEF OneTurnThread
  <2>2. CASE Living # {}
    <3>1. PICK t \in Living : TRUE
      BY <2>2
    <3>2. Living = {t}
      BY <1>1, <3>1 DEF TurnInv, FlagIsThread
    <3>3. Cardinality(Living) = 1
      BY <3>2, FS_Singleton
    <3> QED BY <3>3 DEF OneTurnThread
  <2> QED BY <2>1, <2>2
<1>2. TurnInv => OneTurnThread
  BY <1>1 DEF OneTurnThread
<1> QED BY <1>2, TurnInvariance, PTL

(* Packets leave the relay in the order in which they came, none twice;    *)
(* between passes the buffer holds what is still to go.  Packets are lost  *)
(* only all at once, when more than TURN_DATA_SIZE - recv_size are in      *)
(* hand, or when the relay ends after a MASTER_QUIT.  Not so once a        *)
(* TURN_REQ has come while the relay had packets in hand.                  *)
THEOREM RelayIsFIFO == TurnSpec => []TurnFIFO
<1>1. ASSUME TurnInv, ~raced, ~Dead
      PROVE  /\ intact
             /\ \A t \in Thread : tpc[t] = "loop" =>
                  owed = [i \in 1..recvProcessBufP |-> buf[i - 1]]
  <2>1. intact
    BY <1>1 DEF TurnInv
  <2>2. ASSUME NEW t \in Thread, tpc[t] = "loop"
        PROVE  owed = [i \in 1..recvProcessBufP |-> buf[i - 1]]
    <3>1. AtPc("loop")
      BY <1>1, <2>2 DEF TurnInv, PcIs, Pc
    <3>2. /\ scanP = 0 /\ Len(owed) = recvProcessBufP - scanP
          /\ \A i \in 1..Len(owed) : owed[i] = buf[scanP + i - 1]
      BY <1>1, <3>1 DEF AtPc, BoundAt, HandAt, Holds, Scanning
    <3>3. owed \in Seq(1..MaxDatagrams) /\ recvProcessBufP \in Nat
      BY <1>1, Numbers
    <3>4. Len(owed) = recvProcessBufP /\ \A i \in 1..recvProcessBufP : owed[i] = buf[i - 1]
      BY <3>2, <3>3
    <3>5. owed = [i \in 1..Len(owed) |-> owed[i]]
      BY <3>3
    <3> QED BY <3>4, <3>5
  <2> QED BY <2>1, <2>2
<1>2. TurnInv => TurnFIFO
  BY <1>1 DEF TurnFIFO
<1> QED BY <1>2, TurnInvariance, PTL

(* A registered sender is turned away, a name is registered twice, or the  *)
(* server dies, only if both threads were walking the list at once, or     *)
(* (the last) a TURN_REQ came inside a pass.                               *)
THEOREM MembersAreHeard == TurnSpec => []MembersHeard
<1>1. TurnInv => MembersHeard
  BY DEF TurnInv
<1> QED BY <1>1, TurnInvariance, PTL

(* After MASTER_QUIT the relay takes one datagram at most.                 *)
THEOREM QuitStopsTheRelay == TurnSpec => []StopsAfterQuit
<1>1. TurnInv => StopsAfterQuit
  BY DEF TurnInv
<1> QED BY <1>1, TurnInvariance, PTL

(* After a TURN_REQ a thread is there to relay, unless it came while the   *)
(* last one was leaving, or the thread could not bind its port.            *)
THEOREM RequestIsServed == TurnSpec => []TurnServed
<1>1. ASSUME TurnInv, turnSign, for # "start", ~late, ~unbound
      PROVE  \E t \in Thread : tpc[t] \notin {"off", "leave"}
  <2>1. CASE Dead
    BY <2>1 DEF Dead
  <2>2. CASE ~Dead
    <3>1. ~PcIs("off") /\ ~PcIs("leave")
      BY <1>1, <2>2 DEF TurnInv, AtPc, ServedAt, Pc
    <3>2. PICK t \in Thread : tpc[t] # "off"
      BY <3>1 DEF PcIs
    <3>3. tpc[t] # "leave"
      BY <3>1 DEF PcIs
    <3> QED BY <3>2, <3>3
  <2> QED BY <2>1, <2>2
<1>2. TurnInv => TurnServed
  BY <1>1 DEF TurnServed
<1> QED BY <1>2, TurnInvariance, PTL
=============================================================================
