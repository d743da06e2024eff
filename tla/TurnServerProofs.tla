------------------------- MODULE TurnServerProofs -------------------------
(***************************************************************************)
(* Proofs about TurnServer, for any number of slave programs, arrays, a    *)
(* right name and a right password of any size, and any set of logins.     *)
(***************************************************************************)
EXTENDS TurnServer, TLAPS

ParsePc == {"cut", "name", "endName", "pass", "end", "testName", "testPass"}
Told    == {"info", "poll", "slaveInfo", "start", "stop"}
Judged  == {"ready", "absent", "send"}
Running == ParsePc \cup {"dead"}

(* Every character of the right name, or password, was sent at its place.  *)
NameSent(H) == \A i \in 1 .. RightName : \E l \in H : i <= Len(l.name) /\ l.name[i]
PassSent(H) == \A i \in 1 .. RightPass : \E l \in H : i <= Len(l.pass) /\ l.pass[i]

(* What the memory holds of them somebody sent.                            *)
From(m, H) ==
  \A i \in Mem :
    /\ \A j \in 1 .. RightName : m[i] = NameChar(j) => \E l \in H : j <= Len(l.name) /\ l.name[j]
    /\ \A j \in 1 .. RightPass : m[i] = PassChar(j) => \E l \in H : j <= Len(l.pass) /\ l.pass[j]

All == heard["master"] \cup heard["slave"]

(* A comma in a buffer is where a name ended.                              *)
Commas(m, t, H) == \A i \in Offset : m[Buffer(t) + i] = Comma => \E o \in H : Len(o.name) = i

(* Where the parts of login l are while t parses it alone.                 *)
InBuffer(m, t, l) == \A i \in 0 .. Length(l) - 1 : m[Buffer(t) + i] = Char(l, i)
InUname(m, l)     == \A i \in 0 .. Len(l.name) - 1 : m[i] = Char(l, i)
InPasswd(m, l)    == \A i \in 0 .. Len(l.pass) - 1 : m[Size + i] = Char(l, Len(l.name) + 1 + i)
NameEnded(m, l)   == m[Len(l.name)] = Nul
PassEnded(m, l)   == m[Size + Len(l.pass)] = Nul

Alone(t, l) ==
  /\ l \in heard[t] /\ n = Length(l)
  /\ pc[t] \in {"cut", "name", "endName", "pass"} => InBuffer(mem, t, l)
  /\ pc[t] = "cut" => Commas(mem, t, heard[t])
  /\ pc[t] \in {"name", "endName", "pass"} =>
       \/ k[t] = Len(l.name)
       \/ k[t] > n /\ \E o \in heard[t] : Len(o.name) = k[t]
  /\ pc[t] \in {"endName", "pass"} /\ k[t] = Len(l.name) => InUname(mem, l)
  /\ pc[t] = "pass" /\ k[t] = Len(l.name) => NameEnded(mem, l)
  /\ pc[t] \in {"end", "testName", "testPass"} =>
       k[t] = Len(l.name) /\ InUname(mem, l) /\ NameEnded(mem, l) /\ InPasswd(mem, l)
  /\ pc[t] \in {"testName", "testPass"} => PassEnded(mem, l)
  /\ pc[t] = "testPass" => IsRightName

ParseAt(t) ==
  Parsing(t) =>
    /\ pc[t] = "testPass" => NameSent(All)
    /\ ~mixed[t] =>
         /\ \A u \in Thread \ {t} : ~Parsing(u)
         /\ login[t] = None => n \in {-1, 0} /\ pc[t] \in {"cut", "name", "endName", "pass"}
         /\ login[t] # None => Alone(t, login[t])

(* Until the master's login comes nothing is written to its buffer, since  *)
(* no password is longer than Passwd when nothing is mixed.                *)
BuffInv ==
  /\ From(mem, All) /\ Commas(mem, "slave", heard["slave"])
  /\ pc["master"] \in {"off", "accept"} => \A i \in Offset : mem[Buffer("master") + i] = Nul
  /\ pc["master"] \in {"off", "accept", "adrift"} =>
       ~mixed["slave"] /\ login["master"] = None /\ Verify_master = 0

(* The bytes sent to the master, and how many of them it has taken at      *)
(* least.                                                                  *)
Sent == IF pc["master"] \in {"poll", "slaveInfo"} THEN Verify_master
        ELSE IF pc["master"] \in {"start", "stop"} THEN Verify_master + 1 ELSE 0
Taken == IF mpc = "peer" THEN 1 ELSE IF mpc \in {"ready", "sent"} THEN 2 ELSE 0

AnswerInv ==
  /\ Taken + toMaster <= Sent
  /\ Verify_master = 1 => pc["master"] \in Told
  /\ pc["slave"] = "send" /\ slave_info = 1 => Verify_master = 1

(* The inductive invariant.                                                *)
TurnServerInv ==
  /\ ServerTypeOK
  /\ \A t \in Thread : ParseAt(t)
  /\ BuffInv /\ VerdictIsRight /\ NothingIsInvented
  /\ AnswerInv /\ ListensOnlyToMaster

-----------------------------------------------------------------------------
(* The sizes, as far as proofs need them.                                  *)
LEMMA Sizes ==
  /\ Size \in Nat /\ Size >= 2
  /\ RightName \in Nat /\ 1 <= RightName /\ RightName < Size
  /\ RightPass \in Nat /\ 1 <= RightPass /\ RightPass < Size
BY TurnServerAssumption

LEMMA LoginFacts ==
  ASSUME NEW l \in Logins
  PROVE  /\ l.name \in Seq(BOOLEAN) /\ l.pass \in Seq(BOOLEAN) /\ l # None
         /\ Len(l.name) \in Nat /\ 1 <= Len(l.name) /\ Len(l.name) < Size
         /\ Len(l.pass) \in Nat /\ 1 <= Len(l.pass) /\ Len(l.pass) < Size
         /\ Length(l) = Len(l.name) + 1 + Len(l.pass)
         /\ Length(l) \in Nat /\ Length(l) \in Offset
<1>1. l \in [name: Seq(BOOLEAN), pass: Seq(BOOLEAN)] /\ l # None
  BY TurnServerAssumption
<1>2. Len(l.name) \in 1 .. Size - 1 /\ Len(l.pass) \in 1 .. Size - 1
  BY TurnServerAssumption
<1>3. Len(l.name) \in Nat /\ Len(l.pass) \in Nat
  BY <1>1
<1> QED BY <1>1, <1>2, <1>3, Sizes DEF Length, Offset

(* The places in a login of the parts it has.                              *)
Parts(a, b, c, size) ==
  /\ a \in 0 .. c - 1 /\ c - a - 1 = b
  /\ \A i \in 0 .. c - 1 :
       /\ i \in Nat /\ i < c /\ i < 2 * size
       /\ i > a => i - a \in 1 .. b /\ i = a + (i - a)
  /\ \A i \in 0 .. a - 1 : i \in 0 .. c - 1 /\ i # a /\ i \in 0 .. a
  /\ \A i \in 0 .. b - 1 : a + 1 + i \in 0 .. c - 1 /\ i # b /\ i \in 0 .. b
  /\ \A i \in 0 .. a : i \in Nat /\ i < size
  /\ \A i \in 0 .. b : i \in Nat /\ i < size
  /\ a \in 0 .. a /\ b \in 0 .. b

LEMMA Sums ==
  ASSUME NEW a \in Nat, NEW b \in Nat, NEW size \in Nat, a < size, b < size
  PROVE  Parts(a, b, a + 1 + b, size)
BY DEF Parts

LEMMA Places ==
  ASSUME NEW l \in Logins
  PROVE  /\ Len(l.name) \in 0 .. Length(l) - 1
         /\ Length(l) - Len(l.name) - 1 = Len(l.pass)
         /\ \A i \in 0 .. Length(l) - 1 :
              /\ i \in Nat /\ i < Length(l) /\ i < 2 * Size
              /\ i > Len(l.name) =>
                   i - Len(l.name) \in 1 .. Len(l.pass) /\ i = Len(l.name) + (i - Len(l.name))
         /\ \A i \in 0 .. Len(l.name) - 1 :
              i \in 0 .. Length(l) - 1 /\ i # Len(l.name) /\ i \in 0 .. Len(l.name)
         /\ \A i \in 0 .. Len(l.pass) - 1 :
              /\ Len(l.name) + 1 + i \in 0 .. Length(l) - 1
              /\ i # Len(l.pass) /\ i \in 0 .. Len(l.pass)
         /\ \A i \in 0 .. Len(l.name) : i \in Nat /\ i < Size
         /\ \A i \in 0 .. Len(l.pass) : i \in Nat /\ i < Size
         /\ Len(l.name) \in 0 .. Len(l.name) /\ Len(l.pass) \in 0 .. Len(l.pass)
<1>1. /\ Len(l.name) \in Nat /\ Len(l.pass) \in Nat /\ Size \in Nat
      /\ Len(l.name) < Size /\ Len(l.pass) < Size
  BY LoginFacts, Sizes
<1>2. Length(l) = Len(l.name) + 1 + Len(l.pass)
  BY DEF Length
<1>3. Parts(Len(l.name), Len(l.pass), Len(l.name) + 1 + Len(l.pass), Size)
  BY <1>1, Sums
<1>4. Parts(Len(l.name), Len(l.pass), Length(l), Size)
  BY <1>2, <1>3
<1> QED BY <1>4, Zenon DEF Parts

(* What a character of a login may be, and where.                          *)
LEMMA CharFacts ==
  ASSUME NEW l \in Logins, NEW i \in 0 .. Length(l) - 1
  PROVE  /\ Char(l, i) \in Nat /\ Char(l, i) # Nul
         /\ Char(l, i) = Comma <=> i = Len(l.name)
         /\ \A j \in 1 .. RightName :
              Char(l, i) = NameChar(j) => i = j - 1 /\ j <= Len(l.name) /\ l.name[j]
         /\ \A j \in 1 .. RightPass :
              Char(l, i) = PassChar(j) => i = Len(l.name) + j /\ j <= Len(l.pass) /\ l.pass[j]
<1>l. /\ l.name \in Seq(BOOLEAN) /\ l.pass \in Seq(BOOLEAN)
      /\ Len(l.name) \in Nat /\ Len(l.name) < Size /\ Len(l.pass) \in Nat
  BY LoginFacts
<1>n. /\ i \in Nat
      /\ i > Len(l.name) =>
           i - Len(l.name) \in 1 .. Len(l.pass) /\ i = Len(l.name) + (i - Len(l.name))
  BY Places
<1> USE Sizes DEF Nul, Comma, Other, NameChar, PassChar
<1>1. CASE i < Len(l.name) /\ l.name[i + 1] /\ i < RightName
  <2>1. Char(l, i) = 2 + (i + 1)
    BY <1>1 DEF Char
  <2> QED BY <1>l, <1>n, <1>1, <2>1
<1>2. CASE i < Len(l.name) /\ ~(l.name[i + 1] /\ i < RightName)
  <2>1. Char(l, i) = 2
    BY <1>2 DEF Char
  <2> QED BY <1>l, <1>n, <1>2, <2>1
<1>3. CASE i = Len(l.name)
  <2>1. Char(l, i) = 1
    BY <1>l, <1>n, <1>3 DEF Char
  <2> QED BY <1>l, <1>n, <1>3, <2>1
<1>4. CASE i > Len(l.name)
  <2> DEFINE d == i - Len(l.name)
  <2>1. d \in 1 .. Len(l.pass) /\ i = Len(l.name) + d
    BY <1>n, <1>4
  <2>2. CASE l.pass[d] /\ d <= RightPass
    <3>1. Char(l, i) = 2 + Size + d
      BY <1>l, <1>n, <1>4, <2>2 DEF Char
    <3> HIDE DEF d
    <3>2. d \in Nat /\ 1 <= d /\ d <= Len(l.pass) /\ l.pass[d]
      BY <1>l, <2>1, <2>2
    <3>3. \A j \in 1 .. RightPass : Char(l, i) = PassChar(j) => j = d
      BY <3>1, <3>2
    <3>4. \A j \in 1 .. RightName : Char(l, i) # NameChar(j)
      BY <3>1, <3>2
    <3>5. Char(l, i) \in Nat /\ Char(l, i) # 0 /\ Char(l, i) # 1
      BY <3>1, <3>2
    <3>6. i # Len(l.name)
      BY <1>l, <1>n, <1>4
    <3> QED BY <2>1, <3>2, <3>3, <3>4, <3>5, <3>6
  <2>3. CASE ~(l.pass[d] /\ d <= RightPass)
    <3>1. Char(l, i) = 2
      BY <1>l, <1>n, <1>4, <2>3 DEF Char
    <3> HIDE DEF d
    <3> QED BY <1>l, <1>n, <1>4, <2>1, <2>3, <3>1
  <2> QED BY <2>2, <2>3
<1> QED BY <1>l, <1>n, <1>1, <1>2, <1>3, <1>4

(* What is right in a login is a right character.                          *)
LEMMA RightChars ==
  ASSUME NEW l \in Logins
  PROVE  /\ \A j \in 1 .. RightName :
              j <= Len(l.name) /\ l.name[j] => Char(l, j - 1) = NameChar(j)
         /\ \A j \in 1 .. RightPass :
              j <= Len(l.pass) /\ l.pass[j] => Char(l, Len(l.name) + j) = PassChar(j)
<1>l. Len(l.name) \in Nat /\ Len(l.pass) \in Nat
  BY LoginFacts
<1>1. ASSUME NEW j \in 1 .. RightName, j <= Len(l.name), l.name[j]
      PROVE  Char(l, j - 1) = NameChar(j)
  <2>1. j - 1 < Len(l.name) /\ (j - 1) + 1 = j /\ j - 1 < RightName
    BY <1>l, <1>1, Sizes
  <2> QED BY <1>1, <2>1 DEF Char
<1>2. ASSUME NEW j \in 1 .. RightPass, j <= Len(l.pass), l.pass[j]
      PROVE  Char(l, Len(l.name) + j) = PassChar(j)
  <2>1. /\ ~(Len(l.name) + j < Len(l.name)) /\ Len(l.name) + j # Len(l.name)
        /\ Len(l.name) + j - Len(l.name) = j /\ j <= RightPass
    BY <1>l, <1>2, Sizes
  <2> QED BY <1>2, <2>1 DEF Char
<1> QED BY <1>1, <1>2

-----------------------------------------------------------------------------
(* What a write leaves in the memory.                                      *)
LEMMA PokeEffect ==
  ASSUME mem \in [Mem -> Nat], NEW at, Poke(at)
  PROVE  /\ mem' \in [Mem -> Nat]
         /\ \A i \in Mem : mem'[i] = IF i = at THEN Nul ELSE mem[i]
BY DEF Poke, Nul

LEMMA CopyEffect ==
  ASSUME mem \in [Mem -> Nat], NEW to \in Nat, NEW from \in Nat, NEW len \in Nat,
         from + len <= 6 * Size, Copy(to, from, len)
  PROVE  /\ mem' \in [Mem -> Nat]
         /\ \A i \in Mem : mem'[i] = IF i \in to .. to + len - 1 THEN mem[from + i - to]
                                     ELSE mem[i]
         /\ \A i \in Mem : \E j \in Mem : mem'[i] = mem[j]
<1>1. \A i \in Mem : i \in to .. to + len - 1 => from + i - to \in Mem
  BY Sizes DEF Mem
<1>2. \A i \in Mem : mem'[i] = IF i \in to .. to + len - 1 THEN mem[from + i - to] ELSE mem[i]
  BY DEF Copy
<1>3. \A i \in Mem : \E j \in Mem : mem'[i] = mem[j]
  BY <1>1, <1>2
<1>4. mem' = [i \in Mem |-> IF i \in to .. to + len - 1 THEN mem[from + i - to] ELSE mem[i]]
  BY DEF Copy
<1>5. \A i \in Mem : mem'[i] \in Nat
  BY <1>3
<1>6. mem' = [i \in Mem |-> mem'[i]]
  BY <1>4
<1> QED BY <1>2, <1>3, <1>5, <1>6

(* From is kept by every write: a string is copied, ended, or received.    *)
LEMMA FromGrows ==
  ASSUME NEW m, NEW H, NEW G, From(m, H), H \subseteq G
  PROVE  From(m, G)
<1>1. ASSUME NEW i \in Mem, NEW j \in 1 .. RightName, m[i] = NameChar(j)
      PROVE  \E l \in G : j <= Len(l.name) /\ l.name[j]
  BY <1>1 DEF From
<1>2. ASSUME NEW i \in Mem, NEW j \in 1 .. RightPass, m[i] = PassChar(j)
      PROVE  \E l \in G : j <= Len(l.pass) /\ l.pass[j]
  BY <1>2 DEF From
<1> QED BY <1>1, <1>2 DEF From

LEMMA FromMoved ==
  ASSUME NEW m, NEW m2, NEW H, From(m, H),
         \A i \in Mem : m2[i] = Nul \/ \E j \in Mem : m2[i] = m[j]
  PROVE  From(m2, H)
<1>0. (\A j \in 1 .. RightName : NameChar(j) # Nul) /\ (\A j \in 1 .. RightPass : PassChar(j) # Nul)
  BY Sizes DEF NameChar, PassChar, Nul
<1>1. ASSUME NEW i \in Mem, NEW j \in 1 .. RightName, m2[i] = NameChar(j)
      PROVE  \E l \in H : j <= Len(l.name) /\ l.name[j]
  <2>1. PICK q \in Mem : m[q] = NameChar(j)
    BY <1>0, <1>1
  <2> QED BY <2>1 DEF From
<1>2. ASSUME NEW i \in Mem, NEW j \in 1 .. RightPass, m2[i] = PassChar(j)
      PROVE  \E l \in H : j <= Len(l.pass) /\ l.pass[j]
  <2>1. PICK q \in Mem : m[q] = PassChar(j)
    BY <1>0, <1>2
  <2> QED BY <2>1 DEF From
<1> QED BY <1>1, <1>2 DEF From

LEMMA FromHeard ==
  ASSUME NEW m, NEW m2, NEW H, NEW l \in Logins, l \in H, From(m, H),
         \A i \in Mem : m2[i] = m[i] \/ \E c \in 0 .. Length(l) - 1 : m2[i] = Char(l, c)
  PROVE  From(m2, H)
<1>1. ASSUME NEW i \in Mem, NEW j \in 1 .. RightName, m2[i] = NameChar(j)
      PROVE  \E o \in H : j <= Len(o.name) /\ o.name[j]
  <2>1. CASE m2[i] = m[i]
    BY <1>1, <2>1 DEF From
  <2>2. ASSUME NEW c \in 0 .. Length(l) - 1, m2[i] = Char(l, c)
        PROVE  j <= Len(l.name) /\ l.name[j]
    BY <1>1, <2>2, CharFacts
  <2> QED BY <2>1, <2>2
<1>2. ASSUME NEW i \in Mem, NEW j \in 1 .. RightPass, m2[i] = PassChar(j)
      PROVE  \E o \in H : j <= Len(o.pass) /\ o.pass[j]
  <2>1. CASE m2[i] = m[i]
    BY <1>2, <2>1 DEF From
  <2>2. ASSUME NEW c \in 0 .. Length(l) - 1, m2[i] = Char(l, c)
        PROVE  j <= Len(l.pass) /\ l.pass[j]
    BY <1>2, <2>2, CharFacts
  <2> QED BY <2>1, <2>2
<1> QED BY <1>1, <1>2 DEF From

(* The strings compared by strcmp.                                         *)
LEMMA RightIsSent ==
  ASSUME NEW H, From(mem, H)
  PROVE  (IsRightName => NameSent(H)) /\ (IsRightPass => PassSent(H))
<1>1. \A i \in 1 .. RightName : i - 1 \in Mem
  BY Sizes DEF Mem
<1>2. \A i \in 1 .. RightPass : Size + i - 1 \in Mem
  BY Sizes DEF Mem
<1>3. ASSUME IsRightName, NEW i \in 1 .. RightName
      PROVE  \E l \in H : i <= Len(l.name) /\ l.name[i]
  BY <1>1, <1>3 DEF IsRightName, From
<1>4. ASSUME IsRightPass, NEW i \in 1 .. RightPass
      PROVE  \E l \in H : i <= Len(l.pass) /\ l.pass[i]
  BY <1>2, <1>4 DEF IsRightPass, From
<1> QED BY <1>3, <1>4 DEF NameSent, PassSent

(* A name, and a password, that is there as it was sent.                   *)
LEMMA NameJudged ==
  ASSUME NEW l \in Logins, InUname(mem, l), NameEnded(mem, l)
  PROVE  IsRightName <=> Len(l.name) = RightName /\ \A i \in 1 .. RightName : l.name[i]
<1>l. /\ Len(l.name) \in Nat /\ 1 <= Len(l.name)
      /\ \A i \in 0 .. Len(l.name) - 1 : mem[i] = Char(l, i)
      /\ mem[Len(l.name)] = Nul
  BY LoginFacts DEF InUname, NameEnded
<1>r. \A i \in 0 .. Len(l.name) - 1 : i \in 0 .. Length(l) - 1
  BY Places
<1>1. ASSUME IsRightName
      PROVE  Len(l.name) = RightName /\ \A i \in 1 .. RightName : l.name[i]
  <2>1. mem[RightName] = Nul /\ \A i \in 1 .. RightName : mem[i - 1] = NameChar(i)
    BY <1>1 DEF IsRightName
  <2>2. ~(Len(l.name) < RightName)
    <3> SUFFICES ASSUME Len(l.name) < RightName PROVE FALSE
      OBVIOUS
    <3>1. Len(l.name) + 1 \in 1 .. RightName /\ Len(l.name) + 1 - 1 = Len(l.name)
      BY <1>l, Sizes
    <3>2. mem[Len(l.name)] = NameChar(Len(l.name) + 1)
      BY <2>1, <3>1
    <3> QED BY <1>l, <3>2 DEF NameChar, Nul
  <2>3. ~(Len(l.name) > RightName)
    <3> SUFFICES ASSUME Len(l.name) > RightName PROVE FALSE
      OBVIOUS
    <3>1. RightName \in 0 .. Len(l.name) - 1
      BY <1>l, Sizes
    <3>2. mem[RightName] # Nul
      BY <1>l, <1>r, <3>1, CharFacts
    <3> QED BY <2>1, <3>2
  <2>4. ASSUME NEW i \in 1 .. RightName PROVE l.name[i]
    <3>1. i - 1 \in 0 .. Len(l.name) - 1
      BY <1>l, <2>2, Sizes
    <3>2. Char(l, i - 1) = NameChar(i) /\ i - 1 \in 0 .. Length(l) - 1
      BY <1>l, <1>r, <2>1, <3>1
    <3> QED BY <3>2, CharFacts
  <2> QED BY <1>l, <2>2, <2>3, <2>4, Sizes
<1>2. ASSUME Len(l.name) = RightName, \A i \in 1 .. RightName : l.name[i]
      PROVE  IsRightName
  <2>1. ASSUME NEW i \in 1 .. RightName PROVE mem[i - 1] = NameChar(i)
    <3>1. i - 1 \in 0 .. Len(l.name) - 1 /\ i <= Len(l.name)
      BY <1>2, Sizes
    <3> QED BY <1>l, <1>2, <3>1, RightChars
  <2> QED BY <1>l, <1>2, <2>1 DEF IsRightName
<1> QED BY <1>1, <1>2

LEMMA PassJudged ==
  ASSUME NEW l \in Logins, InPasswd(mem, l), PassEnded(mem, l)
  PROVE  IsRightPass <=> Len(l.pass) = RightPass /\ \A i \in 1 .. RightPass : l.pass[i]
<1>l. /\ Len(l.name) \in Nat /\ Len(l.pass) \in Nat /\ 1 <= Len(l.pass)
      /\ \A i \in 0 .. Len(l.pass) - 1 : mem[Size + i] = Char(l, Len(l.name) + 1 + i)
      /\ mem[Size + Len(l.pass)] = Nul
  BY LoginFacts DEF InPasswd, PassEnded
<1>r. \A i \in 0 .. Len(l.pass) - 1 : Len(l.name) + 1 + i \in 0 .. Length(l) - 1
  BY Places
<1>c. \A i \in 1 .. RightPass : /\ Size + i - 1 = Size + (i - 1)
                                /\ Len(l.name) + 1 + (i - 1) = Len(l.name) + i
  BY <1>l, Sizes
<1>1. ASSUME IsRightPass
      PROVE  Len(l.pass) = RightPass /\ \A i \in 1 .. RightPass : l.pass[i]
  <2>1. mem[Size + RightPass] = Nul /\ \A i \in 1 .. RightPass : mem[Size + (i - 1)] = PassChar(i)
    BY <1>1, <1>c DEF IsRightPass
  <2>2. ~(Len(l.pass) < RightPass)
    <3> SUFFICES ASSUME Len(l.pass) < RightPass PROVE FALSE
      OBVIOUS
    <3>1. Len(l.pass) + 1 \in 1 .. RightPass /\ Len(l.pass) + 1 - 1 = Len(l.pass)
      BY <1>l, Sizes
    <3>2. mem[Size + Len(l.pass)] = PassChar(Len(l.pass) + 1)
      BY <2>1, <3>1
    <3>3. \A i \in 1 .. RightPass : PassChar(i) # Nul
      BY Sizes DEF PassChar, Nul
    <3> QED BY <1>l, <3>1, <3>2, <3>3
  <2>3. ~(Len(l.pass) > RightPass)
    <3> SUFFICES ASSUME Len(l.pass) > RightPass PROVE FALSE
      OBVIOUS
    <3>1. RightPass \in 0 .. Len(l.pass) - 1
      BY <1>l, Sizes
    <3>2. mem[Size + RightPass] # Nul
      BY <1>l, <1>r, <3>1, CharFacts
    <3> QED BY <2>1, <3>2
  <2>4. ASSUME NEW i \in 1 .. RightPass PROVE l.pass[i]
    <3>1. i - 1 \in 0 .. Len(l.pass) - 1
      BY <1>l, <2>2, Sizes
    <3>2. Char(l, Len(l.name) + i) = PassChar(i) /\ Len(l.name) + i \in 0 .. Length(l) - 1
      BY <1>l, <1>c, <1>r, <2>1, <3>1
    <3> QED BY <3>2, CharFacts
  <2> QED BY <1>l, <2>2, <2>3, <2>4, Sizes
<1>2. ASSUME Len(l.pass) = RightPass, \A i \in 1 .. RightPass : l.pass[i]
      PROVE  IsRightPass
  <2>1. ASSUME NEW i \in 1 .. RightPass PROVE mem[Size + i - 1] = PassChar(i)
    <3>1. i - 1 \in 0 .. Len(l.pass) - 1 /\ i <= Len(l.pass)
      BY <1>2, Sizes
    <3>2. mem[Size + (i - 1)] = Char(l, Len(l.name) + i)
      BY <1>l, <1>c, <3>1
    <3>3. Char(l, Len(l.name) + i) = PassChar(i)
      BY <1>2, <3>1, RightChars
    <3> QED BY <1>c, <3>2, <3>3
  <2> QED BY <1>l, <1>2, <2>1 DEF IsRightPass
<1> QED BY <1>1, <1>2
-----------------------------------------------------------------------------
(* The type invariant in parts.                                            *)
Pc == {"off", "accept", "cut", "name", "endName", "pass", "end", "testName", "testPass", "info",
       "poll", "slaveInfo", "start", "adrift", "stop", "ready", "absent", "send", "dead"}

ParseType ==
  /\ mem \in [Mem -> Nat] /\ n \in -1 .. 2 * Size - 1 /\ k \in [Thread -> Offset]
  /\ login \in [Thread -> Logins \cup {None}]
  /\ heard \in [Thread -> SUBSET Logins] /\ mixed \in [Thread -> BOOLEAN]

FlagType ==
  /\ Verify_master \in {0, 1} /\ Verify_slave \in {0, 1} /\ Start_send \in {0, 1}
  /\ slave_info \in 0 .. 2 /\ unsaid \in BOOLEAN

ClientType ==
  /\ mpc \in {"new", "verify", "peer", "ready", "sent", "failed"} /\ toMaster \in 0 .. 2
  /\ slave \in [Slaves -> {"new", "waiting", "listening", "closed"}] /\ peer \in Slaves
  /\ merged \in BOOLEAN

RelayType == relaying \in {"no", "yes", "deaf"}

LEMMA ServerTypeParts ==
  ServerTypeOK => /\ pc \in [Thread -> Pc] /\ ParseType /\ FlagType /\ ClientType /\ RelayType
BY DEF ServerTypeOK, Pc, ParseType, FlagType, ClientType, RelayType

LEMMA ServerTypeFromParts ==
  ASSUME pc' \in [Thread -> Pc], ParseType', FlagType', ClientType', RelayType'
  PROVE  ServerTypeOK'
BY DEF ServerTypeOK, Pc, ParseType, FlagType, ClientType, RelayType

(* There is one login thread of each kind.                                 *)
LEMMA TwoThreads ==
  /\ "master" \in Thread /\ "slave" \in Thread
  /\ \A t \in Thread : t = "master" \/ t = "slave"
BY DEF Thread

(* A step of a thread moves its pc and not the other's.                    *)
LEMMA Moves ==
  ASSUME ServerTypeOK, NEW t \in Thread, NEW to \in Pc, pc' = [pc EXCEPT ![t] = to]
  PROVE  /\ pc' \in [Thread -> Pc] /\ pc'[t] = to
         /\ \A u \in Thread : u # t => pc'[u] = pc[u]
BY ServerTypeParts

(* Where the buffers and the lengths are.                                  *)
LEMMA Layout ==
  ASSUME ServerTypeOK, NEW t \in Thread
  PROVE  /\ n \in Int /\ -1 <= n /\ n < 2 * Size
         /\ k[t] \in Nat /\ k[t] < 2 * Size
         /\ Buffer(t) \in Nat /\ Buffer(t) >= 2 * Size /\ Buffer(t) <= 4 * Size
         /\ mem \in [Mem -> Nat] /\ PassLen(t) = n - k[t] - 1
<1>1. n \in -1 .. 2 * Size - 1 /\ k[t] \in 0 .. 2 * Size - 1 /\ mem \in [Mem -> Nat]
  BY ServerTypeParts DEF ParseType, Offset
<1>2. Buffer(t) \in Nat /\ Buffer(t) >= 2 * Size /\ Buffer(t) <= 4 * Size
  BY Sizes DEF Buffer
<1> QED BY <1>1, <1>2, Sizes DEF PassLen

LEMMA InArrays ==
  ASSUME NEW l \in Logins, NEW t \in Thread
  PROVE  /\ \A i \in 0 .. Length(l) - 1 :
              i \in Offset /\ Buffer(t) + i \in Mem /\ Buffer(t) + i >= 2 * Size
         /\ \A i \in Offset : i < Length(l) => i \in 0 .. Length(l) - 1
         /\ \A i \in 0 .. Len(l.name) : i \in Mem /\ i < Size
         /\ \A i \in 0 .. Len(l.pass) : Size + i \in Mem /\ Size + i >= Size
<1>l. Length(l) \in Nat
  BY LoginFacts
<1>6. \A i \in Offset : i < Length(l) => i \in 0 .. Length(l) - 1
  BY <1>l, Sizes DEF Offset
<1>1. \A i \in 0 .. Length(l) - 1 : i \in Nat /\ i < 2 * Size
  BY Places
<1>2. \A i \in 0 .. Len(l.name) : i \in Nat /\ i < Size
  BY Places
<1>3. \A i \in 0 .. Len(l.pass) : i \in Nat /\ i < Size
  BY Places
<1>4. \A i \in Nat : i < 2 * Size =>
        i \in Offset /\ Buffer(t) + i \in Mem /\ Buffer(t) + i >= 2 * Size
  BY Sizes DEF Offset, Mem, Buffer
<1>5. \A i \in Nat : i < Size => i \in Mem /\ Size + i \in Mem /\ Size + i >= Size
  BY Sizes DEF Mem
<1> QED BY <1>1, <1>2, <1>3, <1>4, <1>5, <1>6

-----------------------------------------------------------------------------
(* A login parsed alone, step by step.                                     *)
LEMMA AloneCut ==
  ASSUME ServerTypeOK, NEW t \in Thread, NEW l \in Logins, Alone(t, l), CutBuff(t)
  PROVE  Alone(t, l)'
<1>l. Len(l.name) \in 0 .. Length(l) - 1 /\ Length(l) \in Offset /\ Length(l) \in Nat
  BY LoginFacts, Places
<1>o. \A i \in 0 .. Length(l) - 1 : i \in Nat /\ i < Length(l) /\ i \in Offset
  BY Places, InArrays
<1>m. \A i \in Offset : i \in Nat /\ Buffer(t) + i \in Mem
  BY Sizes DEF Offset, Mem, Buffer
<1>1. /\ pc[t] = "cut" /\ pc'[t] = "name" /\ UNCHANGED <<n, heard>>
      /\ n = Length(l) /\ l \in heard[t] /\ InBuffer(mem, t, l) /\ Commas(mem, t, heard[t])
  <2>1. Goes(t, "cut", "name") /\ UNCHANGED <<n, heard>>
    BY DEF CutBuff, parseRest
  <2>2. pc[t] = "cut" /\ pc'[t] = "name"
    BY <2>1, Moves DEF Goes, Pc
  <2> QED BY <2>1, <2>2 DEF Alone
<1>2. \A i \in Mem : mem'[i] = IF i = Buffer(t) + Length(l) THEN Nul ELSE mem[i]
  BY <1>1, Layout, PokeEffect DEF CutBuff
<1>3. ASSUME NEW i \in Offset
      PROVE  mem'[Buffer(t) + i] = IF i = Length(l) THEN Nul ELSE mem[Buffer(t) + i]
  <2>1. Buffer(t) + i = Buffer(t) + Length(l) <=> i = Length(l)
    BY <1>l, <1>m, Layout
  <2> QED BY <1>2, <1>m, <2>1
<1>4. ASSUME NEW i \in 0 .. Length(l) - 1 PROVE mem'[Buffer(t) + i] = Char(l, i)
  BY <1>1, <1>3, <1>o DEF InBuffer
<1>5. mem'[Buffer(t) + Length(l)] = Nul
  BY <1>l, <1>3
<1>6. mem'[Buffer(t) + Len(l.name)] = Comma
  BY <1>4, <1>l, CharFacts
<1>7. PICK c \in Offset : /\ mem'[Buffer(t) + c] = Comma
                          /\ \A i \in Offset : i > c => mem'[Buffer(t) + i] # Comma
                          /\ k' = [k EXCEPT ![t] = c]
  BY <1>6, <1>l, <1>o DEF CutBuff
<1>8. k'[t] = c /\ c \in Nat
  BY <1>7, <1>m, ServerTypeParts DEF ParseType
<1>9. \/ c = Len(l.name)
      \/ c > Length(l) /\ \E o \in heard[t] : Len(o.name) = c
  <2>1. CASE c < Length(l)
    <3>1. c \in 0 .. Length(l) - 1
      BY <1>l, <1>8, <2>1
    <3> QED BY <1>4, <1>7, <3>1, CharFacts
  <2>2. c # Length(l)
    BY <1>5, <1>7 DEF Nul, Comma
  <2>3. CASE c > Length(l)
    BY <1>1, <1>3, <1>7, <2>2, <2>3 DEF Commas
  <2> QED BY <1>l, <1>8, <2>1, <2>2, <2>3
<1> QED BY <1>1, <1>4, <1>8, <1>9 DEF Alone, InBuffer

LEMMA AloneName ==
  ASSUME ServerTypeOK, NEW t \in Thread, NEW l \in Logins, Alone(t, l), CopyName(t)
  PROVE  Alone(t, l)'
<1>1. /\ pc[t] = "name" /\ pc'[t] = "endName" /\ UNCHANGED <<n, k, heard>>
      /\ n = Length(l) /\ l \in heard[t] /\ InBuffer(mem, t, l)
      /\ \/ k[t] = Len(l.name)
         \/ k[t] > n /\ \E o \in heard[t] : Len(o.name) = k[t]
  <2>1. Goes(t, "name", "endName") /\ UNCHANGED <<n, k, heard>>
    BY DEF CopyName, parseRest
  <2>2. pc[t] = "name" /\ pc'[t] = "endName"
    BY <2>1, Moves DEF Goes, Pc
  <2> QED BY <2>1, <2>2 DEF Alone
<1>2. \A i \in Mem : mem'[i] = IF i \in 0 .. 0 + k[t] - 1 THEN mem[Buffer(t) + i - 0] ELSE mem[i]
  <2>1. Buffer(t) + k[t] <= 6 * Size
    BY Layout, Sizes
  <2> QED BY <2>1, Layout, CopyEffect DEF CopyName
<1>o. \A i \in 0 .. Length(l) - 1 : i \in Nat /\ Buffer(t) + i \in Mem /\ Buffer(t) + i >= 2 * Size
  BY Places, InArrays
<1>3. InBuffer(mem', t, l)
  <2>1. ASSUME NEW i \in 0 .. Length(l) - 1 PROVE mem'[Buffer(t) + i] = mem[Buffer(t) + i]
    <3>1. ~(Buffer(t) + i \in 0 .. 0 + k[t] - 1)
      BY <1>o, Layout, Sizes
    <3> QED BY <1>2, <1>o, <3>1
  <2> QED BY <1>1, <2>1 DEF InBuffer
<1>4. ASSUME k[t] = Len(l.name) PROVE InUname(mem', l)
  <2>1. ASSUME NEW i \in 0 .. Len(l.name) - 1 PROVE mem'[i] = Char(l, i)
    <3>1. i \in Mem /\ i \in 0 .. Length(l) - 1 /\ i \in Nat
      BY Places, InArrays
    <3>2. i \in 0 .. 0 + k[t] - 1 /\ Buffer(t) + i - 0 = Buffer(t) + i
      BY <1>4, <3>1, Layout
    <3> QED BY <1>1, <1>2, <3>1, <3>2 DEF InBuffer
  <2> QED BY <2>1 DEF InUname
<1> QED BY <1>1, <1>3, <1>4 DEF Alone

LEMMA AloneEndName ==
  ASSUME ServerTypeOK, NEW t \in Thread, NEW l \in Logins, Alone(t, l), EndName(t)
  PROVE  Alone(t, l)'
<1>1. /\ pc[t] = "endName" /\ pc'[t] = "pass" /\ UNCHANGED <<n, k, heard>>
      /\ n = Length(l) /\ l \in heard[t] /\ InBuffer(mem, t, l)
      /\ \/ k[t] = Len(l.name)
         \/ k[t] > n /\ \E o \in heard[t] : Len(o.name) = k[t]
      /\ k[t] = Len(l.name) => InUname(mem, l)
  <2>1. Goes(t, "endName", "pass") /\ UNCHANGED <<n, k, heard>>
    BY DEF EndName, parseRest
  <2>2. pc[t] = "endName" /\ pc'[t] = "pass"
    BY <2>1, Moves DEF Goes, Pc
  <2> QED BY <2>1, <2>2 DEF Alone
<1>2. \A i \in Mem : mem'[i] = IF i = k[t] THEN Nul ELSE mem[i]
  BY Layout, PokeEffect DEF EndName
<1>o. \A i \in 0 .. Length(l) - 1 : i \in Nat /\ Buffer(t) + i \in Mem /\ Buffer(t) + i >= 2 * Size
  BY Places, InArrays
<1>3. InBuffer(mem', t, l)
  <2>1. ASSUME NEW i \in 0 .. Length(l) - 1 PROVE mem'[Buffer(t) + i] = mem[Buffer(t) + i]
    <3>1. Buffer(t) + i # k[t]
      BY <1>o, Layout, Sizes
    <3> QED BY <1>2, <1>o, <3>1
  <2> QED BY <1>1, <2>1 DEF InBuffer
<1>4. ASSUME k[t] = Len(l.name) PROVE InUname(mem', l) /\ NameEnded(mem', l)
  <2>1. ASSUME NEW i \in 0 .. Len(l.name) - 1 PROVE i \in Mem /\ i # k[t]
    BY <1>4, Places, InArrays
  <2>2. k[t] \in Mem
    BY Layout, Sizes DEF Mem
  <2> QED BY <1>1, <1>2, <1>4, <2>1, <2>2 DEF InUname, NameEnded
<1> QED BY <1>1, <1>3, <1>4 DEF Alone

(* The length of what is copied, when there is no stale comma; otherwise   *)
(* it is negative.                                                         *)
LEMMA AlonePassLen ==
  ASSUME ServerTypeOK, NEW t \in Thread, NEW l \in Logins, Alone(t, l), pc[t] = "pass"
  PROVE  \/ k[t] = Len(l.name) /\ PassLen(t) = Len(l.pass)
         \/ PassLen(t) < 0 /\ \E o \in heard[t] : Len(o.name) > Length(l)
<1>1. /\ n = Length(l)
      /\ \/ k[t] = Len(l.name)
         \/ k[t] > n /\ \E o \in heard[t] : Len(o.name) = k[t]
  BY DEF Alone
<1>2. CASE k[t] = Len(l.name)
  <2>1. PassLen(t) = Length(l) - Len(l.name) - 1
    BY <1>1, <1>2, Layout
  <2> QED BY <1>2, <2>1, Places
<1>3. CASE k[t] > n /\ \E o \in heard[t] : Len(o.name) = k[t]
  BY <1>1, <1>3, Layout
<1> QED BY <1>1, <1>2, <1>3

LEMMA AlonePass ==
  ASSUME ServerTypeOK, NEW t \in Thread, NEW l \in Logins, Alone(t, l), CopyPass(t)
  PROVE  Alone(t, l)'
<1>l. /\ Len(l.name) \in Nat /\ Len(l.name) < Size /\ Len(l.pass) \in Nat /\ Len(l.pass) < Size
  BY LoginFacts
<1>1. /\ pc[t] = "pass" /\ pc'[t] = "end" /\ UNCHANGED <<n, k, heard>>
      /\ n = Length(l) /\ l \in heard[t] /\ InBuffer(mem, t, l)
      /\ k[t] = Len(l.name) => InUname(mem, l) /\ NameEnded(mem, l)
  <2>1. Goes(t, "pass", "end") /\ UNCHANGED <<n, k, heard>>
    BY DEF CopyPass, parseRest
  <2>2. pc[t] = "pass" /\ pc'[t] = "end"
    BY <2>1, Moves DEF Goes, Pc
  <2> QED BY <2>1, <2>2 DEF Alone
<1>2. k[t] = Len(l.name) /\ PassLen(t) = Len(l.pass)
  <2>1. PassLen(t) >= 0
    BY DEF CopyPass
  <2> QED BY <1>1, <2>1, AlonePassLen, Layout
<1> DEFINE from == Buffer(t) + Len(l.name) + 1
<1>f. from \in Nat /\ from = Buffer(t) + (Len(l.name) + 1)
  BY <1>l, Layout
<1>3. \A i \in Mem : mem'[i] = IF i \in Size .. Size + Len(l.pass) - 1
                               THEN mem[from + i - Size] ELSE mem[i]
  <2>1. Copy(Size, from, Len(l.pass))
    BY <1>2 DEF CopyPass
  <2>2. from + Len(l.pass) <= 6 * Size
    BY <1>l, Layout, Sizes
  <2> HIDE DEF from
  <2> QED BY <1>l, <1>f, <2>1, <2>2, Layout, Sizes, CopyEffect
<1>4. ASSUME NEW i \in 0 .. Len(l.name) PROVE mem'[i] = mem[i]
  <2>1. i \in Mem /\ ~(i \in Size .. Size + Len(l.pass) - 1)
    BY <1>l, Sizes DEF Mem
  <2> QED BY <1>3, <2>1
<1>5. ASSUME NEW i \in 0 .. Len(l.pass) - 1 PROVE mem'[Size + i] = Char(l, Len(l.name) + 1 + i)
  <2>1. /\ Size + i \in Mem /\ Size + i \in Size .. Size + Len(l.pass) - 1
        /\ from + (Size + i) - Size = Buffer(t) + (Len(l.name) + 1 + i)
    <3>1. Size + i \in Mem
      BY Places, InArrays
    <3>2. i \in Nat /\ i < Len(l.pass)
      BY <1>l
    <3> QED BY <1>l, <3>1, <3>2, Layout, Sizes
  <2>2. Len(l.name) + 1 + i \in 0 .. Length(l) - 1
    BY Places
  <2> HIDE DEF from
  <2>3. mem'[Size + i] = mem[from + (Size + i) - Size]
    BY <1>3, <2>1
  <2>4. mem'[Size + i] = mem[Buffer(t) + (Len(l.name) + 1 + i)]
    BY <2>1, <2>3
  <2> QED BY <1>1, <2>2, <2>4 DEF InBuffer
<1>6. InUname(mem', l) /\ NameEnded(mem', l)
  <2>1. Len(l.name) \in 0 .. Len(l.name) /\ \A i \in 0 .. Len(l.name) - 1 : i \in 0 .. Len(l.name)
    BY <1>l
  <2> QED BY <1>1, <1>2, <1>4, <2>1 DEF InUname, NameEnded
<1>7. InPasswd(mem', l)
  BY <1>5 DEF InPasswd
<1> HIDE DEF from
<1> QED BY <1>1, <1>2, <1>6, <1>7 DEF Alone

LEMMA AloneEnd ==
  ASSUME ServerTypeOK, NEW t \in Thread, NEW l \in Logins, Alone(t, l), EndPass(t)
  PROVE  Alone(t, l)'
<1>l. /\ Len(l.name) \in Nat /\ Len(l.name) < Size /\ Len(l.pass) \in Nat /\ Len(l.pass) < Size
  BY LoginFacts
<1>1. /\ pc[t] = "end" /\ pc'[t] = "testName" /\ UNCHANGED <<n, k, heard>>
      /\ n = Length(l) /\ l \in heard[t] /\ k[t] = Len(l.name)
      /\ InUname(mem, l) /\ NameEnded(mem, l) /\ InPasswd(mem, l)
  <2>1. Goes(t, "end", "testName") /\ UNCHANGED <<n, k, heard>>
    BY DEF EndPass, parseRest
  <2>2. pc[t] = "end" /\ pc'[t] = "testName"
    BY <2>1, Moves DEF Goes, Pc
  <2> QED BY <2>1, <2>2 DEF Alone
<1>2. PassLen(t) = Len(l.pass)
  <2>1. PassLen(t) = Length(l) - Len(l.name) - 1
    BY <1>1, Layout
  <2> QED BY <2>1, Places
<1>3. \A i \in Mem : mem'[i] = IF i = Size + Len(l.pass) THEN Nul ELSE mem[i]
  BY <1>2, Layout, PokeEffect DEF EndPass
<1>4. ASSUME NEW i \in 0 .. Len(l.name) PROVE mem'[i] = mem[i]
  <2>1. i \in Mem /\ i # Size + Len(l.pass)
    BY <1>l, Sizes DEF Mem
  <2> QED BY <1>3, <2>1
<1>5. ASSUME NEW i \in 0 .. Len(l.pass) - 1 PROVE mem'[Size + i] = mem[Size + i]
  <2>1. Size + i \in Mem /\ Size + i # Size + Len(l.pass)
    BY <1>l, Sizes DEF Mem
  <2> QED BY <1>3, <2>1
<1>6. InUname(mem', l) /\ NameEnded(mem', l)
  <2>1. Len(l.name) \in 0 .. Len(l.name) /\ \A i \in 0 .. Len(l.name) - 1 : i \in 0 .. Len(l.name)
    BY <1>l
  <2> QED BY <1>1, <1>4, <2>1 DEF InUname, NameEnded
<1>7. InPasswd(mem', l) /\ PassEnded(mem', l)
  <2>1. Size + Len(l.pass) \in Mem
    BY <1>l, Sizes DEF Mem
  <2> QED BY <1>1, <1>3, <1>5, <2>1 DEF InPasswd, PassEnded
<1> QED BY <1>1, <1>6, <1>7 DEF Alone

-----------------------------------------------------------------------------
(* Steps that touch neither what is parsed nor the two verdicts: all but   *)
(* the logins and their parsing.                                           *)
LEMMA QuietStep ==
  ASSUME TurnServerInv, UNCHANGED <<parseVars, Verify_master, Verify_slave>>,
         \A u \in Thread : pc'[u] = pc[u] \/ (pc[u] \notin Running /\ pc'[u] \notin Running),
         pc'["master"] \in {"off", "accept"} => pc["master"] \in {"off", "accept"},
         pc'["master"] = "adrift" => pc["master"] \in {"accept", "adrift"},
         pc'["master"] \in Told => pc["master"] \in Told \cup {"adrift"},
         pc'["slave"] \in Judged => pc["slave"] \in Judged,
         ServerTypeOK', AnswerInv', ListensOnlyToMaster'
  PROVE  TurnServerInv'
<1>1. UNCHANGED <<mem, n, k, login, heard, mixed, All>>
  BY DEF parseVars, All
<1>2. \A u \in Thread : /\ Parsing(u)' <=> Parsing(u)
                        /\ Parsing(u) => pc'[u] = pc[u]
                        /\ pc'[u] = "dead" <=> pc[u] = "dead"
  BY DEF Parsing, ParsePc, Running
<1>3. ASSUME NEW t \in Thread PROVE ParseAt(t)'
  <2>1. CASE ~Parsing(t)
    BY <1>2, <2>1 DEF ParseAt
  <2>2. CASE Parsing(t)
    <3>1. pc'[t] = pc[t] /\ ParseAt(t)
      BY <1>2, <2>2 DEF TurnServerInv
    <3>2. IsRightName' = IsRightName
      BY <1>1 DEF IsRightName
    <3>3. ASSUME NEW l, Alone(t, l) PROVE Alone(t, l)'
      BY <1>1, <3>1, <3>2, <3>3 DEF Alone
    <3>4. \A u \in Thread \ {t} : Parsing(u)' = Parsing(u)
      BY <1>2 DEF Parsing
    <3> QED BY <1>1, <3>1, <3>3, <3>4, <2>2 DEF ParseAt
  <2> QED BY <2>1, <2>2
<1>4. BuffInv'
  BY <1>1, TwoThreads DEF TurnServerInv, BuffInv
<1>5. VerdictIsRight'
  <2>1. pc["master"] = "adrift" => Verify_master = 0 /\ login["master"] = None
    BY DEF TurnServerInv, BuffInv
  <2>2. \A t \in Thread : pc'[t] = "dead" => pc[t] = "dead"
    BY <1>2
  <2> QED BY <1>1, <2>1, <2>2, TwoThreads DEF TurnServerInv, VerdictIsRight, Told, Judged, IsRight
<1>6. NothingIsInvented'
  BY <1>1 DEF TurnServerInv, NothingIsInvented
<1> QED BY <1>3, <1>4, <1>5, <1>6 DEF TurnServerInv

(* What the master's thread sends, and what both threads tell a slave.     *)
LEMMA AnswersKeep ==
  ASSUME TurnServerInv,
         \/ SendInfo \/ PollSlave \/ SendSlaveInfo \/ StartSend \/ LeaveAdrift
         \/ TellReady \/ TellAbsent \/ Answer
  PROVE  TurnServerInv'
<1>i. /\ ServerTypeOK /\ pc \in [Thread -> Pc] /\ ParseType /\ FlagType /\ ClientType
      /\ RelayType /\ AnswerInv /\ ListensOnlyToMaster
  BY ServerTypeParts DEF TurnServerInv
<1>p. UNCHANGED <<parseVars, Verify_master, Verify_slave, mpc, merged, peer, relaying>>
  BY DEF SendInfo, PollSlave, SendSlaveInfo, StartSend, LeaveAdrift, TellReady, TellAbsent, Answer,
     flagVars, clientVars
<1>q. ParseType'
  BY <1>i, <1>p DEF ParseType, parseVars
<1> USE DEF Pc, ParsePc, Running, Told, Judged
<1>1. CASE SendInfo
  <2>1. /\ Goes("master", "info", "poll") /\ toMaster' = toMaster + Verify_master
        /\ UNCHANGED <<Start_send, slave_info, unsaid, slave>>
    BY <1>1 DEF SendInfo, flagVars
  <2>2. /\ pc["master"] = "info" /\ pc'["master"] = "poll" /\ pc'["slave"] = pc["slave"]
        /\ pc' \in [Thread -> Pc]
    BY <1>i, <2>1, Moves, TwoThreads DEF Goes
  <2>3. AnswerInv' /\ toMaster' \in 0..2
    <3>1. Taken = 0 /\ toMaster = 0
      BY <1>i, <2>2 DEF AnswerInv, Sent, Taken, ClientType
    <3>2. Taken' + toMaster' <= Sent'
      BY <1>i, <1>p, <2>1, <2>2, <3>1 DEF Sent, Taken, FlagType
    <3> QED BY <1>i, <1>p, <2>1, <2>2, <3>1, <3>2 DEF AnswerInv, FlagType
  <2>4. ServerTypeOK'
    BY <1>i, <1>p, <1>q, <2>1, <2>2, <2>3, ServerTypeFromParts DEF FlagType, ClientType, RelayType
  <2>5. ListensOnlyToMaster'
    BY <1>i, <1>p, <2>1 DEF ListensOnlyToMaster
  <2> QED BY <1>p, <2>2, <2>3, <2>4, <2>5, QuietStep, TwoThreads
<1>2. CASE PollSlave
  <2>1. /\ Goes("master", "poll", "slaveInfo")
        /\ UNCHANGED <<Start_send, slave_info, unsaid, slave, toMaster>>
    BY <1>2 DEF PollSlave, flagVars, clientVars
  <2>2. /\ pc["master"] = "poll" /\ pc'["master"] = "slaveInfo" /\ pc'["slave"] = pc["slave"]
        /\ pc' \in [Thread -> Pc]
    BY <1>i, <2>1, Moves, TwoThreads DEF Goes
  <2>3. AnswerInv'
    BY <1>i, <1>p, <2>1, <2>2 DEF AnswerInv, Sent, Taken
  <2>4. ServerTypeOK'
    BY <1>i, <1>p, <1>q, <2>1, <2>2, ServerTypeFromParts DEF FlagType, ClientType, RelayType
  <2>5. ListensOnlyToMaster'
    BY <1>i, <1>p, <2>1 DEF ListensOnlyToMaster
  <2> QED BY <1>p, <2>2, <2>3, <2>4, <2>5, QuietStep, TwoThreads
<1>3. CASE SendSlaveInfo
  <2>1. /\ Goes("master", "slaveInfo", "start") /\ toMaster' = toMaster + Verify_slave
        /\ unsaid' \in BOOLEAN
        /\ UNCHANGED <<Start_send, slave_info, slave>>
    BY <1>3 DEF SendSlaveInfo
  <2>2. /\ pc["master"] = "slaveInfo" /\ pc'["master"] = "start" /\ pc'["slave"] = pc["slave"]
        /\ pc' \in [Thread -> Pc]
    BY <1>i, <2>1, Moves, TwoThreads DEF Goes
  <2>3. AnswerInv' /\ toMaster' \in 0..2
    <3>1. Taken + toMaster <= Verify_master /\ Taken \in 0..2 /\ Taken' = Taken
      BY <1>i, <1>p, <2>2 DEF AnswerInv, Sent, Taken
    <3>2. Sent' = Verify_master + 1
      BY <1>p, <2>2 DEF Sent
    <3>3. Taken' + toMaster' <= Sent' /\ toMaster' \in 0..2
      BY <1>i, <2>1, <3>1, <3>2 DEF FlagType, ClientType, RelayType
    <3> QED BY <1>i, <1>p, <2>1, <2>2, <3>3 DEF AnswerInv
  <2>4. ServerTypeOK'
    BY <1>i, <1>p, <1>q, <2>1, <2>2, <2>3, ServerTypeFromParts DEF FlagType, ClientType, RelayType
  <2>5. ListensOnlyToMaster'
    BY <1>i, <1>p, <2>1 DEF ListensOnlyToMaster
  <2> QED BY <1>p, <2>2, <2>3, <2>4, <2>5, QuietStep, TwoThreads
<1>4. CASE StartSend
  <2>1. /\ Goes("master", "start", "stop") /\ Start_send' = 1
        /\ UNCHANGED <<unsaid, slave_info, slave, toMaster>>
    BY <1>4 DEF StartSend, clientVars
  <2>2. /\ pc["master"] = "start" /\ pc'["master"] = "stop" /\ pc'["slave"] = pc["slave"]
        /\ pc' \in [Thread -> Pc]
    BY <1>i, <2>1, Moves, TwoThreads DEF Goes
  <2>3. AnswerInv'
    BY <1>i, <1>p, <2>1, <2>2 DEF AnswerInv, Sent, Taken
  <2>4. ServerTypeOK'
    BY <1>i, <1>p, <1>q, <2>1, <2>2, ServerTypeFromParts DEF FlagType, ClientType, RelayType
  <2>5. ListensOnlyToMaster'
    BY <1>i, <1>p, <2>1 DEF ListensOnlyToMaster
  <2> QED BY <1>p, <2>2, <2>3, <2>4, <2>5, QuietStep, TwoThreads
<1>5. CASE TellReady \/ TellAbsent
  <2>1. PICK from \in {"ready", "absent"}, to \in {"send", "absent"} :
          /\ Goes("slave", from, to)
          /\ slave_info' \in 0..2
          /\ to = "send" /\ slave_info' = 1 => Verify_master = 1
    <3>1. CASE TellReady /\ Verify_master = 1
      BY <3>1 DEF TellReady
    <3>2. CASE TellReady /\ Verify_master # 1
      BY <1>i, <3>2 DEF TellReady, FlagType
    <3>3. CASE TellAbsent
      BY <1>i, <3>3 DEF TellAbsent, FlagType
    <3> QED BY <1>5, <3>1, <3>2, <3>3
  <2>2. UNCHANGED <<Start_send, unsaid, slave, toMaster>>
    BY <1>5 DEF TellReady, TellAbsent, clientVars
  <2>3. /\ pc["slave"] = from /\ pc'["slave"] = to /\ pc'["master"] = pc["master"]
        /\ pc' \in [Thread -> Pc]
    BY <1>i, <2>1, Moves, TwoThreads DEF Goes
  <2>4. AnswerInv'
    BY <1>i, <1>p, <2>1, <2>2, <2>3 DEF AnswerInv, Sent, Taken
  <2>5. ServerTypeOK'
    BY <1>i, <1>p, <1>q, <2>1, <2>2, <2>3, ServerTypeFromParts DEF FlagType, ClientType, RelayType
  <2>6. ListensOnlyToMaster'
    BY <1>i, <1>p, <2>2 DEF ListensOnlyToMaster
  <2> QED BY <1>p, <2>3, <2>4, <2>5, <2>6, QuietStep, TwoThreads
<1>6. CASE Answer
  <2>1. /\ Goes("slave", "send", "accept")
        /\ slave' = [slave EXCEPT ![peer] =
                       IF Verify_slave = 0 \/ @ = "closed" THEN @
                       ELSE IF slave_info = 1 THEN "listening" ELSE "closed"]
        /\ UNCHANGED <<Start_send, slave_info, unsaid, toMaster>>
    BY <1>6 DEF Answer, flagVars
  <2>2. /\ pc["slave"] = "send" /\ pc'["slave"] = "accept" /\ pc'["master"] = pc["master"]
        /\ pc' \in [Thread -> Pc]
    BY <1>i, <2>1, Moves, TwoThreads DEF Goes
  <2>3. AnswerInv'
    BY <1>i, <1>p, <2>1, <2>2 DEF AnswerInv, Sent, Taken
  <2>4. ServerTypeOK'
    BY <1>i, <1>p, <1>q, <2>1, <2>2, ServerTypeFromParts DEF FlagType, ClientType, RelayType
  <2>5. ListensOnlyToMaster'
    BY <1>i, <1>p, <2>1, <2>2 DEF ListensOnlyToMaster, AnswerInv, ClientType
  <2> QED BY <1>p, <2>2, <2>3, <2>4, <2>5, QuietStep, TwoThreads
<1>7. CASE LeaveAdrift
  <2>1. /\ Goes("master", "adrift", "stop")
        /\ UNCHANGED <<Start_send, slave_info, unsaid, slave, toMaster>>
    BY <1>7 DEF LeaveAdrift, flagVars, clientVars
  <2>2. /\ pc["master"] = "adrift" /\ pc'["master"] = "stop" /\ pc'["slave"] = pc["slave"]
        /\ pc' \in [Thread -> Pc]
    BY <1>i, <2>1, Moves, TwoThreads DEF Goes
  <2>3. AnswerInv'
    <3>1. Taken + toMaster <= 0 /\ Taken' = Taken /\ toMaster' = toMaster
      BY <1>i, <1>p, <2>1, <2>2 DEF AnswerInv, Sent, Taken
    <3>2. Taken' + toMaster' <= Sent'
      BY <1>i, <1>p, <2>2, <3>1 DEF Sent, Taken, FlagType, ClientType
    <3> QED BY <1>i, <1>p, <2>1, <2>2, <3>2 DEF AnswerInv
  <2>4. ServerTypeOK'
    BY <1>i, <1>p, <1>q, <2>1, <2>2, ServerTypeFromParts DEF FlagType, ClientType, RelayType
  <2>5. ListensOnlyToMaster'
    BY <1>i, <1>p, <2>1 DEF ListensOnlyToMaster
  <2> QED BY <1>p, <2>2, <2>3, <2>4, <2>5, QuietStep, TwoThreads
<1> QED BY <1>1, <1>2, <1>3, <1>4, <1>5, <1>6, <1>7

(* The master takes no more than it has been sent.                         *)
LEMMA TakenOfSent ==
  ASSUME NEW a \in Nat, NEW a2 \in Nat, NEW b \in Nat, NEW b2 \in Nat, NEW sent \in Nat,
         a + b <= sent, a2 + b2 <= a + b
  PROVE  a2 + b2 <= sent
OBVIOUS

(* The programs that have logged in, or failed to, main, and a thread that *)
(* begins to listen.                                                       *)
LEMMA ProgramsKeep ==
  ASSUME TurnServerInv,
         \/ \E t \in Thread : Listen(t) \/ AcceptFails(t)
         \/ StartRecvData \/ MasterFails \/ MasterProgram
         \/ \E s \in Slaves : SlaveFails(s) \/ SlaveCutOff(s)
  PROVE  TurnServerInv'
<1>i. /\ ServerTypeOK /\ pc \in [Thread -> Pc] /\ ParseType /\ FlagType /\ ClientType
      /\ RelayType /\ AnswerInv /\ ListensOnlyToMaster
  BY ServerTypeParts DEF TurnServerInv
<1>p. UNCHANGED <<parseVars, flagVars, peer>>
  BY DEF Listen, AcceptFails, StartRecvData, MasterFails, MasterProgram, MasterVerify,
     MasterPeer, Transmit, MasterCutOff, SlaveFails, SlaveCutOff, clientVars
<1>q. ParseType' /\ FlagType'
  BY <1>i, <1>p DEF ParseType, parseVars, FlagType, flagVars
<1> USE DEF Pc, ParsePc, Running, Told, Judged
<1>1. ASSUME NEW t \in Thread, Listen(t) \/ AcceptFails(t) PROVE TurnServerInv'
  <2>1. PICK from \in {"off", "accept"}, to \in {"accept", "adrift", "stop"} :
          /\ Goes(t, from, to)
          /\ to = "accept" <=> from = "off"
          /\ to = "adrift" => from = "accept"
          /\ to = "stop" => t # "master"
    <3>1. CASE Listen(t)
      BY <3>1 DEF Listen
    <3>2. CASE AcceptFails(t)
      BY <3>2 DEF AcceptFails
    <3> QED BY <1>1, <3>1, <3>2
  <2>r. UNCHANGED <<mpc, toMaster, merged, slave, peer, relaying>>
    BY <1>1 DEF Listen, AcceptFails, clientVars
  <2>2. /\ pc[t] = from /\ pc'[t] = to /\ \A u \in Thread : u # t => pc'[u] = pc[u]
        /\ pc' \in [Thread -> Pc]
    BY <1>i, <2>1, Moves DEF Goes
  <2>3. AnswerInv'
    <3>1. Taken' = Taken /\ Sent' = Sent
      BY <1>p, <2>1, <2>2, <2>r, TwoThreads DEF Taken, Sent, flagVars
    <3>2. Verify_master' = 1 => pc'["master"] \in Told
      BY <1>i, <1>p, <2>1, <2>2, TwoThreads DEF AnswerInv, flagVars
    <3>3. pc'["slave"] = "send" /\ slave_info' = 1 => Verify_master' = 1
      BY <1>i, <1>p, <2>1, <2>2, TwoThreads DEF AnswerInv, flagVars
    <3> QED BY <1>i, <2>r, <3>1, <3>2, <3>3 DEF AnswerInv
  <2>4. ServerTypeOK'
    BY <1>i, <1>q, <2>r, <2>2, ServerTypeFromParts DEF ClientType, RelayType
  <2>5. ListensOnlyToMaster'
    BY <1>i, <1>p, <2>r DEF ListensOnlyToMaster, flagVars
  <2> QED BY <1>p, <2>1, <2>2, <2>3, <2>4, <2>5, QuietStep, TwoThreads DEF flagVars
<1>2. CASE \/ StartRecvData \/ MasterFails \/ MasterProgram
           \/ \E s \in Slaves : SlaveFails(s) \/ SlaveCutOff(s)
  <2>1. UNCHANGED pc /\ RelayType'
    BY <1>2, <1>i DEF StartRecvData, MasterFails, MasterProgram, MasterVerify, MasterPeer,
       Transmit, MasterCutOff, SlaveFails, SlaveCutOff, RelayType
  <2>2. \A s \in Slaves : slave'[s] = "listening" => slave[s] = "listening"
    BY <1>2, <1>i DEF StartRecvData, MasterFails, MasterProgram, MasterVerify, MasterPeer,
       Transmit, MasterCutOff, SlaveFails, SlaveCutOff, ClientType, clientVars
  <2>3. /\ Taken' + toMaster' <= Taken + toMaster
        /\ ClientType'
    <3>t. toMaster \in 0..2 /\ slave \in [Slaves -> {"new", "waiting", "listening", "closed"}]
      BY <1>i DEF ClientType
    <3>1. CASE StartRecvData
      BY <1>i, <3>1 DEF StartRecvData, ClientType, clientVars, Taken
    <3>2. CASE MasterFails
      <4>1. Taken' = Taken /\ toMaster' = toMaster
        BY <3>2 DEF MasterFails, Taken
      <4> QED BY <1>i, <3>2, <3>t, <4>1 DEF MasterFails, ClientType, Taken
    <3>3. ASSUME NEW s \in Slaves, SlaveFails(s) \/ SlaveCutOff(s)
          PROVE  Taken' + toMaster' <= Taken + toMaster /\ ClientType'
      <4>1. Taken' = Taken /\ toMaster' = toMaster
        BY <3>3 DEF SlaveFails, SlaveCutOff, Taken
      <4>2. ClientType'
        BY <1>i, <3>3 DEF SlaveFails, SlaveCutOff, ClientType
      <4> QED BY <3>t, <4>1, <4>2 DEF Taken
    <3>4. CASE MasterVerify
      <4>1. Taken = 0 /\ Taken' = 1 /\ toMaster' = 0 /\ 1 <= toMaster
        BY <3>4, <3>t DEF MasterVerify, Taken
      <4>2. ClientType'
        BY <1>i, <3>4 DEF MasterVerify, ClientType
      <4> QED BY <3>t, <4>1, <4>2
    <3>5. CASE MasterPeer
      <4>1. Taken = 1 /\ Taken' = 2 /\ toMaster' = 0 /\ 1 <= toMaster
        BY <3>5, <3>t DEF MasterPeer, Taken
      <4>2. ClientType'
        BY <1>i, <3>5 DEF MasterPeer, ClientType
      <4> QED BY <3>t, <4>1, <4>2
    <3>6. CASE Transmit
      <4>1. Taken' = Taken /\ toMaster' = toMaster
        BY <3>6 DEF Transmit, Taken
      <4> QED BY <1>i, <3>6, <3>t, <4>1 DEF Transmit, ClientType, Taken
    <3>7. CASE MasterCutOff
      <4>1. Taken' <= Taken /\ Taken' = 0 /\ toMaster' = toMaster
        BY <3>7 DEF MasterCutOff, Taken
      <4> QED BY <1>i, <3>7, <3>t, <4>1 DEF MasterCutOff, ClientType, Taken
    <3> QED BY <1>2, <3>1, <3>2, <3>3, <3>4, <3>5, <3>6, <3>7 DEF MasterProgram
  <2>4. AnswerInv'
    <3>1. /\ Sent' = Sent /\ Sent \in Nat
          /\ Taken \in Nat /\ Taken' \in Nat /\ toMaster \in Nat /\ toMaster' \in Nat
      BY <1>i, <1>p, <2>1, <2>3 DEF Sent, Taken, flagVars, FlagType, ClientType
    <3>2. Taken + toMaster <= Sent /\ Taken' + toMaster' <= Taken + toMaster
      BY <1>i, <2>3 DEF AnswerInv
    <3>3. Taken' + toMaster' <= Sent'
      BY <3>1, <3>2, TakenOfSent
    <3> QED BY <1>i, <1>p, <2>1, <3>3 DEF AnswerInv, flagVars
  <2>5. ServerTypeOK'
    BY <1>i, <1>q, <2>1, <2>3, ServerTypeFromParts
  <2>6. ListensOnlyToMaster'
    BY <1>i, <1>p, <2>2 DEF ListensOnlyToMaster, flagVars
  <2> QED BY <1>p, <2>1, <2>4, <2>5, <2>6, QuietStep DEF flagVars
<1> QED BY <1>1, <1>2

-----------------------------------------------------------------------------
(* What is written to the memory, and to the master's buffer, by a thread  *)
(* that parses.                                                            *)
Tame ==
  /\ mem' \in [Mem -> Nat]
  /\ \A i \in Mem : mem'[i] = Nul \/ \E j \in Mem : mem'[i] = mem[j]
  /\ \A i \in Offset : mem'[4 * Size + i] = Nul \/ mem'[4 * Size + i] = mem[4 * Size + i]
Clear == \A i \in Offset : mem'[2 * Size + i] = Nul \/ mem'[2 * Size + i] = mem[2 * Size + i]

LEMMA PokeIsTame ==
  ASSUME ServerTypeOK, NEW at, Poke(at)
  PROVE  Tame /\ Clear
<1>1. \A i \in Offset : 4 * Size + i \in Mem /\ 2 * Size + i \in Mem
  BY Sizes DEF Offset, Mem
<1>2. mem' \in [Mem -> Nat] /\ \A i \in Mem : mem'[i] = Nul \/ mem'[i] = mem[i]
  BY ServerTypeParts, PokeEffect DEF ParseType
<1> QED BY <1>1, <1>2 DEF Tame, Clear

(* A copy that ends before the slave's buffer, or before the master's.     *)
LEMMA CopyIsTame ==
  ASSUME ServerTypeOK, NEW to \in Nat, NEW from \in Nat, NEW len \in Nat,
         from + len <= 6 * Size, Copy(to, from, len), to + len <= 4 * Size
  PROVE  Tame /\ (to + len <= 2 * Size => Clear)
<1>1. \A i \in Offset : 4 * Size + i \in Mem /\ 2 * Size + i \in Mem
  BY Sizes DEF Offset, Mem
<1>2. \A i \in Offset : /\ 4 * Size + i \notin to .. to + len - 1
                        /\ to + len <= 2 * Size => 2 * Size + i \notin to .. to + len - 1
  BY Sizes DEF Offset
<1>3. /\ mem' \in [Mem -> Nat]
      /\ \A i \in Mem : mem'[i] = IF i \in to .. to + len - 1 THEN mem[from + i - to] ELSE mem[i]
      /\ \A i \in Mem : \E j \in Mem : mem'[i] = mem[j]
  BY ServerTypeParts, CopyEffect DEF ParseType
<1>4. \A i \in Offset : /\ mem'[4 * Size + i] = mem[4 * Size + i]
                        /\ to + len <= 2 * Size => mem'[2 * Size + i] = mem[2 * Size + i]
  BY <1>1, <1>2, <1>3
<1> QED BY <1>3, <1>4 DEF Tame, Clear

LEMMA BuffStep ==
  ASSUME TurnServerInv, NEW t \in Thread, NEW to \in Running, pc' = [pc EXCEPT ![t] = to],
         UNCHANGED <<login, heard, mixed, Verify_master>>,
         Tame, ~mixed[t] => Clear
  PROVE  BuffInv'
<1>1. /\ pc'[t] = to /\ \A u \in Thread : u # t => pc'[u] = pc[u]
      /\ to \notin {"off", "accept", "adrift"}
  BY Moves DEF TurnServerInv, Running, ParsePc, Pc
<1>2. All' = All
  BY DEF All
<1>3. From(mem', All)
  BY FromMoved DEF TurnServerInv, BuffInv, Tame
<1>4. Commas(mem', "slave", heard["slave"])
  <2>1. Buffer("slave") = 4 * Size
    BY DEF Buffer
  <2> QED BY <2>1 DEF TurnServerInv, BuffInv, Tame, Commas, Nul, Comma
<1>5. ASSUME pc'["master"] \in {"off", "accept", "adrift"}
      PROVE  /\ pc["master"] = pc'["master"]
             /\ pc["master"] \in {"off", "accept"} => \A i \in Offset : mem'[Buffer("master") + i] = Nul
  <2>1. t # "master" /\ pc["master"] = pc'["master"]
    BY <1>1, <1>5, TwoThreads
  <2>2. ~mixed[t]
    BY <1>5, <2>1, TwoThreads DEF TurnServerInv, BuffInv
  <2>3. Buffer("master") = 2 * Size
    BY DEF Buffer
  <2> QED BY <2>1, <2>2, <2>3 DEF TurnServerInv, BuffInv, Clear
<1>6. pc'["master"] \in {"off", "accept", "adrift"} =>
        ~mixed["slave"] /\ login["master"] = None /\ Verify_master = 0
  BY <1>5 DEF TurnServerInv, BuffInv
<1> QED BY <1>2, <1>3, <1>4, <1>5, <1>6 DEF BuffInv

(* A thread that is not moved, while nothing it depends on is.             *)
LEMMA ParseStays ==
  ASSUME TurnServerInv, NEW t \in Thread, UNCHANGED <<mem, n, k, login, heard, mixed>>,
         \A u \in Thread : Parsing(u)' => Parsing(u) /\ pc'[u] = pc[u]
  PROVE  ParseAt(t)'
<1>1. CASE ~Parsing(t)'
  BY <1>1 DEF ParseAt
<1>2. CASE Parsing(t)'
  <2>1. pc'[t] = pc[t] /\ ParseAt(t) /\ Parsing(t)
    BY <1>2 DEF TurnServerInv
  <2>2. IsRightName' = IsRightName /\ All' = All
    BY DEF IsRightName, All
  <2>3. ASSUME NEW l, Alone(t, l) PROVE Alone(t, l)'
    BY <2>1, <2>2, <2>3 DEF Alone
  <2> QED BY <2>1, <2>2, <2>3 DEF ParseAt
<1> QED BY <1>1, <1>2

(* A thread goes on parsing.                                               *)
LEMMA ParsingStep ==
  ASSUME TurnServerInv, NEW t \in Thread, NEW from \in ParsePc, NEW to \in ParsePc,
         Goes(t, from, to),
         UNCHANGED <<n, login, heard, mixed, flagVars, clientVars, relaying>>,
         ParseType', Tame, ~mixed[t] => Clear,
         to = "testPass" => NameSent(All),
         NEW l, l = login[t], ~mixed[t] /\ l = None => to \in {"name", "endName", "pass"},
         ~mixed[t] /\ l # None => Alone(t, l)'
  PROVE  TurnServerInv'
<1>i. /\ ServerTypeOK /\ pc \in [Thread -> Pc] /\ FlagType /\ ClientType
      /\ RelayType /\ AnswerInv /\ ListensOnlyToMaster
  BY ServerTypeParts DEF TurnServerInv
<1>u. /\ UNCHANGED <<Verify_master, Verify_slave, Start_send, slave_info, unsaid>>
      /\ UNCHANGED <<mpc, toMaster, merged, slave, peer, All>>
  BY DEF flagVars, clientVars, All
<1> USE DEF Pc, ParsePc, Running, Told, Judged
<1>1. /\ pc[t] = from /\ pc'[t] = to /\ \A u \in Thread : u # t => pc'[u] = pc[u]
      /\ pc' \in [Thread -> Pc] /\ pc' = [pc EXCEPT ![t] = to]
  BY <1>i, Moves DEF Goes
<1>2. \A u \in Thread : Parsing(u)' <=> Parsing(u)
  BY <1>1 DEF Parsing
<1>3. ASSUME NEW u \in Thread, u # t PROVE ParseAt(u)'
  <2>1. Parsing(u) => mixed[u]
    BY <1>1, <1>3 DEF TurnServerInv, ParseAt, Parsing
  <2> QED BY <1>1, <1>2, <1>3, <1>u, <2>1 DEF TurnServerInv, ParseAt
<1>7. ParseAt(t)'
  <2>1. ParseAt(t) /\ Parsing(t)
    BY <1>1 DEF TurnServerInv, Parsing
  <2>2. ~mixed[t] => \A u \in Thread \ {t} : ~Parsing(u)'
    BY <1>2, <2>1 DEF ParseAt
  <2>3. ~mixed[t] /\ login'[t] # None => Alone(t, login[t])'
    <3>1. login'[t] = l /\ login[t] = l
      OBVIOUS
    <3> QED BY <3>1 DEF Alone
  <2>4. ~mixed[t] /\ login'[t] = None => n' \in {-1, 0}
    BY <2>1 DEF ParseAt
  <2> QED BY <1>1, <1>u, <2>2, <2>3, <2>4 DEF ParseAt
<1>4. ServerTypeOK'
  BY <1>i, <1>u, <1>1, ServerTypeFromParts DEF FlagType, ClientType, RelayType
<1>5. AnswerInv'
  <2>1. Sent' = Sent /\ Taken' = Taken
    BY <1>u, <1>1, TwoThreads DEF Sent, Taken
  <2>2. Verify_master' = 1 => pc'["master"] \in Told
    BY <1>i, <1>u, <1>1, TwoThreads DEF AnswerInv
  <2>3. pc'["slave"] = "send" /\ slave_info' = 1 => Verify_master' = 1
    BY <1>i, <1>u, <1>1, TwoThreads DEF AnswerInv
  <2> QED BY <1>i, <1>u, <2>1, <2>2, <2>3 DEF AnswerInv
<1>6. VerdictIsRight' /\ NothingIsInvented' /\ ListensOnlyToMaster'
  <2>1. \A u \in Thread : pc'[u] = "dead" => pc[u] = "dead"
    BY <1>1
  <2> QED BY <1>i, <1>u, <1>1, <2>1, TwoThreads
    DEF TurnServerInv, VerdictIsRight, NothingIsInvented, ListensOnlyToMaster
<1>8. BuffInv'
  BY <1>u, <1>1, BuffStep
<1> QED BY <1>3, <1>4, <1>5, <1>6, <1>7, <1>8 DEF TurnServerInv

(* A thread kills the server.                                              *)
LEMMA DiesStep ==
  ASSUME TurnServerInv, NEW t \in Thread, Dies(t)
  PROVE  TurnServerInv'
<1>i. /\ ServerTypeOK /\ pc \in [Thread -> Pc] /\ ParseType /\ FlagType /\ ClientType
      /\ RelayType /\ AnswerInv /\ ListensOnlyToMaster
  BY ServerTypeParts DEF TurnServerInv
<1>u. /\ UNCHANGED <<mem, n, k, login, heard, mixed, All, relaying>>
      /\ UNCHANGED <<Verify_master, Verify_slave, Start_send, slave_info, unsaid>>
      /\ UNCHANGED <<mpc, toMaster, merged, slave, peer>>
  BY DEF Dies, parseVars, flagVars, clientVars, All
<1> USE DEF Pc, ParsePc, Running, Told, Judged
<1>1. /\ pc[t] = "pass" /\ pc'[t] = "dead" /\ \A u \in Thread : u # t => pc'[u] = pc[u]
      /\ pc' \in [Thread -> Pc] /\ PassLen(t) < 0
  BY <1>i, Moves DEF Dies, Goes
<1>2. ASSUME NEW u \in Thread PROVE ParseAt(u)'
  <2>1. \A w \in Thread : Parsing(w)' => Parsing(w) /\ pc'[w] = pc[w]
    BY <1>1 DEF Parsing
  <2> QED BY <1>u, <2>1, ParseStays
<1>3. BuffInv'
  BY <1>u, <1>1, TwoThreads DEF TurnServerInv, BuffInv
<1>4. ServerTypeOK'
  BY <1>i, <1>u, <1>1, ServerTypeFromParts DEF ParseType, FlagType, ClientType, RelayType
<1>5. AnswerInv'
  <2>1. Sent' = Sent /\ Taken' = Taken
    BY <1>u, <1>1, TwoThreads DEF Sent, Taken
  <2>2. Verify_master' = 1 => pc'["master"] \in Told
    BY <1>i, <1>u, <1>1, TwoThreads DEF AnswerInv
  <2>3. pc'["slave"] = "send" /\ slave_info' = 1 => Verify_master' = 1
    BY <1>i, <1>u, <1>1, TwoThreads DEF AnswerInv
  <2> QED BY <1>i, <1>u, <2>1, <2>2, <2>3 DEF AnswerInv
<1>6. mixed[t] \/ login[t] = None \/ \E o \in heard[t] : Len(o.name) > Length(login[t])
  <2> SUFFICES ASSUME ~mixed[t], login[t] # None
               PROVE  \E o \in heard[t] : Len(o.name) > Length(login[t])
    OBVIOUS
  <2>1. Alone(t, login[t]) /\ login[t] \in Logins
    BY <1>i, <1>1 DEF TurnServerInv, ParseAt, Parsing, ParseType
  <2>2. Len(login[t].pass) \in Nat
    BY <2>1, LoginFacts
  <2>3. PassLen(t) # Len(login[t].pass)
    BY <1>1, <2>2
  <2> QED BY <1>i, <1>1, <2>1, <2>3, AlonePassLen
<1>7. VerdictIsRight'
  BY <1>u, <1>1, <1>6, TwoThreads DEF TurnServerInv, VerdictIsRight
<1>8. NothingIsInvented' /\ ListensOnlyToMaster'
  BY <1>i, <1>u DEF TurnServerInv, NothingIsInvented, ListensOnlyToMaster
<1> QED BY <1>2, <1>3, <1>4, <1>5, <1>7, <1>8 DEF TurnServerInv

(* A thread comes to a verdict.                                            *)
LEMMA VerdictStep ==
  ASSUME TurnServerInv, NEW t \in Thread, NEW v \in {0, 1},
         pc[t] \in {"testName", "testPass"}, Verdict(t, v),
         UNCHANGED <<parseVars, clientVars, relaying>>,
         ~mixed[t] => (v = 1 <=> IsRight(login[t])),
         v = 1 => NameSent(All) /\ PassSent(All)
  PROVE  TurnServerInv'
<1>i. /\ ServerTypeOK /\ pc \in [Thread -> Pc] /\ ParseType /\ FlagType /\ ClientType
      /\ RelayType /\ AnswerInv /\ ListensOnlyToMaster
  BY ServerTypeParts DEF TurnServerInv
<1>u. /\ UNCHANGED <<mem, n, k, login, heard, mixed, All, relaying>>
      /\ UNCHANGED <<Start_send, slave_info, unsaid>>
      /\ UNCHANGED <<mpc, toMaster, merged, slave, peer>>
  BY DEF parseVars, clientVars, Verdict, All
<1> USE DEF Pc, ParsePc, Running, Told, Judged
<1>v. IF t = "master" THEN Verify_master' = v /\ UNCHANGED Verify_slave
                      ELSE Verify_slave' = v /\ UNCHANGED Verify_master
  BY DEF Verdict
<1>1. /\ pc'[t] = (IF t = "master" THEN "info" ELSE "ready")
      /\ \A u \in Thread : u # t => pc'[u] = pc[u]
      /\ pc' \in [Thread -> Pc]
  BY <1>i DEF Verdict
<1>2. ASSUME NEW u \in Thread PROVE ParseAt(u)'
  <2>1. \A w \in Thread : Parsing(w)' => Parsing(w) /\ pc'[w] = pc[w]
    BY <1>1 DEF Parsing
  <2> QED BY <1>u, <2>1, ParseStays
<1>3. BuffInv'
  BY <1>u, <1>v, <1>1, TwoThreads DEF TurnServerInv, BuffInv
<1>d. \A u \in Thread : pc'[u] = "dead" => pc[u] = "dead"
  BY <1>1
<1>4. NothingIsInvented'
  <2>1. Verify_master' = 1 \/ Verify_slave' = 1 => Verify_master = 1 \/ Verify_slave = 1 \/ v = 1
    BY <1>v
  <2> QED BY <1>u, <2>1 DEF TurnServerInv, NothingIsInvented, NameSent, PassSent, All
<1>5. ServerTypeOK'
  <2>1. FlagType'
    BY <1>i, <1>u, <1>v DEF FlagType
  <2> QED BY <1>i, <1>u, <1>1, <2>1, ServerTypeFromParts DEF ParseType, ClientType, RelayType
<1>6. CASE t = "master"
  <2>1. /\ Verify_master' = v /\ Verify_slave' = Verify_slave
        /\ pc'["master"] = "info" /\ pc'["slave"] = pc["slave"]
        /\ pc["master"] \in {"testName", "testPass"}
    BY <1>v, <1>1, <1>6, TwoThreads
  <2>2. Verify_master # 1
    BY <1>i, <2>1 DEF AnswerInv
  <2>3. AnswerInv' /\ ListensOnlyToMaster'
    <3>1. Sent' = Sent /\ Taken' = Taken
      BY <1>u, <2>1 DEF Sent, Taken
    <3>2. ~(pc'["slave"] = "send" /\ slave_info' = 1)
      BY <1>i, <1>u, <2>1, <2>2 DEF AnswerInv
    <3>3. ~\E s \in Slaves : slave'[s] = "listening"
      BY <1>i, <1>u, <2>2 DEF ListensOnlyToMaster
    <3> QED BY <1>i, <1>u, <2>1, <3>1, <3>2, <3>3 DEF AnswerInv, ListensOnlyToMaster
  <2>4. VerdictIsRight'
    BY <1>u, <1>d, <1>6, <2>1 DEF TurnServerInv, VerdictIsRight
  <2> QED BY <1>2, <1>3, <1>4, <1>5, <2>3, <2>4 DEF TurnServerInv
<1>7. CASE t = "slave"
  <2>1. /\ Verify_slave' = v /\ Verify_master' = Verify_master
        /\ pc'["slave"] = "ready" /\ pc'["master"] = pc["master"]
    BY <1>v, <1>1, <1>7, TwoThreads
  <2>2. AnswerInv' /\ ListensOnlyToMaster'
    <3>1. Sent' = Sent /\ Taken' = Taken
      BY <1>u, <2>1 DEF Sent, Taken
    <3> QED BY <1>i, <1>u, <2>1, <3>1 DEF AnswerInv, ListensOnlyToMaster
  <2>3. VerdictIsRight'
    BY <1>u, <1>d, <1>7, <2>1 DEF TurnServerInv, VerdictIsRight
  <2> QED BY <1>2, <1>3, <1>4, <1>5, <2>2, <2>3 DEF TurnServerInv
<1> QED BY <1>6, <1>7, TwoThreads

(* The type of what a parsing step leaves.                                 *)
LEMMA ParseTypeKept ==
  ASSUME ServerTypeOK, Tame, UNCHANGED <<n, login, heard, mixed>>, k' \in [Thread -> Offset]
  PROVE  ParseType'
BY ServerTypeParts DEF ParseType, Tame

(* The login a thread parses alone, if there is one.                       *)
LEMMA PartAlone ==
  ASSUME TurnServerInv, NEW t \in Thread, Parsing(t), ~mixed[t]
  PROVE  /\ login[t] # None => login[t] \in Logins /\ Alone(t, login[t])
         /\ login[t] = None => n \in {-1, 0} /\ pc[t] \in {"cut", "name", "endName", "pass"}
BY ServerTypeParts DEF TurnServerInv, ParseAt, ParseType

(* Every step of the parsing keeps the invariant.                          *)
LEMMA CutKeeps ==
  ASSUME TurnServerInv, NEW t \in Thread, CutBuff(t)
  PROVE  TurnServerInv'
<1>i. ServerTypeOK /\ ParseType
  BY ServerTypeParts DEF TurnServerInv
<1>1. /\ Goes(t, "cut", "name") /\ Poke(Buffer(t) + n)
      /\ UNCHANGED <<n, login, heard, mixed, flagVars, clientVars, relaying>>
  BY DEF CutBuff, parseRest
<1>2. k' \in [Thread -> Offset]
  BY <1>i DEF CutBuff, ParseType
<1>3. Tame /\ Clear /\ ParseType'
  BY <1>i, <1>1, <1>2, PokeIsTame, ParseTypeKept
<1>4. PICK a : a = login[t]
  OBVIOUS
<1>5. ASSUME ~mixed[t], a # None PROVE Alone(t, a)'
  BY <1>i, <1>1, <1>4, <1>5, PartAlone, AloneCut DEF Parsing, Goes
<1>6. "cut" \in ParsePc /\ "name" \in ParsePc /\ "name" # "testPass"
  BY DEF ParsePc
<1> QED BY <1>1, <1>3, <1>4, <1>5, <1>6, ParsingStep

LEMMA NameKeeps ==
  ASSUME TurnServerInv, NEW t \in Thread, CopyName(t)
  PROVE  TurnServerInv'
<1>i. ServerTypeOK /\ ParseType
  BY ServerTypeParts DEF TurnServerInv
<1>1. /\ Goes(t, "name", "endName") /\ Copy(0, Buffer(t), k[t])
      /\ UNCHANGED <<n, k, login, heard, mixed, flagVars, clientVars, relaying>>
  BY DEF CopyName, parseRest
<1>2. /\ Buffer(t) \in Nat /\ k[t] \in Nat /\ Buffer(t) + k[t] <= 6 * Size
      /\ 0 + k[t] <= 4 * Size /\ 0 + k[t] <= 2 * Size
  BY <1>i, Layout, Sizes
<1>3. Tame /\ Clear
  BY <1>i, <1>1, <1>2, CopyIsTame
<1>t. ParseType'
  BY <1>i, <1>1, <1>3, ParseTypeKept DEF ParseType
<1>4. PICK a : a = login[t]
  OBVIOUS
<1>5. ASSUME ~mixed[t], a # None PROVE Alone(t, a)'
  BY <1>i, <1>1, <1>4, <1>5, PartAlone, AloneName DEF Parsing, Goes
<1>6. "name" \in ParsePc /\ "endName" \in ParsePc /\ "endName" # "testPass"
  BY DEF ParsePc
<1> QED BY <1>1, <1>3, <1>t, <1>4, <1>5, <1>6, ParsingStep

LEMMA EndNameKeeps ==
  ASSUME TurnServerInv, NEW t \in Thread, EndName(t)
  PROVE  TurnServerInv'
<1>i. ServerTypeOK /\ ParseType
  BY ServerTypeParts DEF TurnServerInv
<1>1. /\ Goes(t, "endName", "pass") /\ Poke(k[t])
      /\ UNCHANGED <<n, k, login, heard, mixed, flagVars, clientVars, relaying>>
  BY DEF EndName, parseRest
<1>3. Tame /\ Clear
  BY <1>i, <1>1, PokeIsTame
<1>t. ParseType'
  BY <1>i, <1>1, <1>3, ParseTypeKept DEF ParseType
<1>4. PICK a : a = login[t]
  OBVIOUS
<1>5. ASSUME ~mixed[t], a # None PROVE Alone(t, a)'
  BY <1>i, <1>1, <1>4, <1>5, PartAlone, AloneEndName DEF Parsing, Goes
<1>6. "endName" \in ParsePc /\ "pass" \in ParsePc /\ "pass" # "testPass"
  BY DEF ParsePc
<1> QED BY <1>1, <1>3, <1>t, <1>4, <1>5, <1>6, ParsingStep

(* The copy is longer than Passwd only if something was mixed.             *)
LEMMA PassKeeps ==
  ASSUME TurnServerInv, NEW t \in Thread, CopyPass(t)
  PROVE  TurnServerInv'
<1>i. ServerTypeOK /\ ParseType
  BY ServerTypeParts DEF TurnServerInv
<1>1. /\ Goes(t, "pass", "end") /\ Copy(Size, Buffer(t) + k[t] + 1, PassLen(t))
      /\ PassLen(t) >= 0
      /\ UNCHANGED <<n, k, login, heard, mixed, flagVars, clientVars, relaying>>
  BY DEF CopyPass, parseRest
<1>n. /\ n \in Int /\ n < 2 * Size /\ k[t] \in Nat /\ Size \in Nat
      /\ PassLen(t) = n - k[t] - 1 /\ Buffer(t) \in Nat /\ Buffer(t) <= 4 * Size
  BY <1>i, Layout, Sizes
<1>2. /\ PassLen(t) \in Nat /\ Buffer(t) + k[t] + 1 \in Nat /\ PassLen(t) < 2 * Size
      /\ Buffer(t) + k[t] + 1 + PassLen(t) <= 6 * Size /\ Size + PassLen(t) <= 4 * Size
  BY <1>1, <1>n
<1>3. Tame /\ (Size + PassLen(t) <= 2 * Size => Clear)
  BY <1>i, <1>n, <1>1, <1>2, CopyIsTame
<1>t. ParseType'
  BY <1>i, <1>1, <1>3, ParseTypeKept DEF ParseType
<1>4. PICK a : a = login[t]
  OBVIOUS
<1>p. pc[t] = "pass" /\ Parsing(t)
  BY <1>1 DEF Parsing, Goes
<1>5. ASSUME ~mixed[t], a # None PROVE Alone(t, a)' /\ Clear
  <2>1. a \in Logins /\ Alone(t, a)
    BY <1>4, <1>5, <1>p, PartAlone
  <2>2. PassLen(t) = Len(a.pass) /\ Len(a.pass) < Size
    <3>1. ~(PassLen(t) < 0)
      BY <1>2
    <3>2. PassLen(t) = Len(a.pass)
      BY <1>i, <1>p, <2>1, <3>1, AlonePassLen
    <3> QED BY <2>1, <3>2, LoginFacts
  <2>3. Size + PassLen(t) <= 2 * Size
    BY <1>n, <1>2, <2>2
  <2> QED BY <1>i, <1>3, <2>1, <2>3, AlonePass
<1>6. ASSUME ~mixed[t], a = None PROVE FALSE
  <2>1. n \in {-1, 0}
    BY <1>4, <1>6, <1>p, PartAlone
  <2>2. n - k[t] - 1 >= 0
    BY <1>1, <1>n
  <2> QED BY <1>n, <2>1, <2>2
<1>7. "pass" \in ParsePc /\ "end" \in ParsePc /\ "end" # "testPass"
  BY DEF ParsePc
<1>8. ~mixed[t] => Clear
  BY <1>5, <1>6
<1> QED BY <1>1, <1>3, <1>t, <1>4, <1>5, <1>6, <1>7, <1>8, ParsingStep

LEMMA EndPassKeeps ==
  ASSUME TurnServerInv, NEW t \in Thread, EndPass(t)
  PROVE  TurnServerInv'
<1>i. ServerTypeOK /\ ParseType
  BY ServerTypeParts DEF TurnServerInv
<1>1. /\ Goes(t, "end", "testName") /\ Poke(Size + PassLen(t))
      /\ UNCHANGED <<n, k, login, heard, mixed, flagVars, clientVars, relaying>>
  BY DEF EndPass, parseRest
<1>3. Tame /\ Clear
  BY <1>i, <1>1, PokeIsTame
<1>t. ParseType'
  BY <1>i, <1>1, <1>3, ParseTypeKept DEF ParseType
<1>4. PICK a : a = login[t]
  OBVIOUS
<1>p. pc[t] = "end" /\ Parsing(t)
  BY <1>1 DEF Parsing, Goes
<1>5. ASSUME ~mixed[t], a # None PROVE Alone(t, a)'
  BY <1>i, <1>4, <1>5, <1>p, PartAlone, AloneEnd
<1>6. ASSUME ~mixed[t], a = None PROVE FALSE
  BY <1>4, <1>6, <1>p, PartAlone
<1>7. "end" \in ParsePc /\ "testName" \in ParsePc /\ "testName" # "testPass"
  BY DEF ParsePc
<1> QED BY <1>1, <1>3, <1>t, <1>4, <1>5, <1>6, <1>7, ParsingStep

LEMMA TestNameKeeps ==
  ASSUME TurnServerInv, NEW t \in Thread, TestName(t)
  PROVE  TurnServerInv'
<1>i. ServerTypeOK /\ ParseType /\ From(mem, All)
  BY ServerTypeParts DEF TurnServerInv, BuffInv
<1>1. pc[t] = "testName" /\ Parsing(t) /\ UNCHANGED <<parseVars, clientVars, relaying>>
  BY DEF TestName, Goes, Parsing
<1>2. PICK a : a = login[t]
  OBVIOUS
<1>3. ASSUME ~mixed[t] PROVE a \in Logins /\ Alone(t, a)
  BY <1>1, <1>2, <1>3, PartAlone
<1>4. ASSUME ~mixed[t], ~IsRightName PROVE ~IsRight(a)
  <2>1. InUname(mem, a) /\ NameEnded(mem, a) /\ a \in Logins
    BY <1>1, <1>3, <1>4 DEF Alone
  <2> QED BY <1>4, <2>1, NameJudged DEF IsRight
<1>5. CASE ~IsRightName
  <2>1. Verdict(t, 0)
    BY <1>5 DEF TestName
  <2> QED BY <1>1, <1>2, <1>4, <1>5, <2>1, VerdictStep
<1>6. CASE IsRightName
  <2>1. Goes(t, "testName", "testPass") /\ UNCHANGED flagVars
    BY <1>6 DEF TestName
  <2>2. UNCHANGED <<mem, n, k, login, heard, mixed>>
    BY <1>1 DEF parseVars
  <2>3. NameSent(All)
    BY <1>i, <1>6, RightIsSent
  <2>4. IsRightName'
    BY <1>6, <2>2 DEF IsRightName
  <2>5. ASSUME ~mixed[t] PROVE Alone(t, a)'
    <3>1. pc'[t] = "testPass"
      BY <1>i, <2>1, Moves DEF Goes, Pc
    <3> QED BY <1>1, <1>3, <2>2, <2>4, <2>5, <3>1 DEF Alone
  <2>6. Tame /\ Clear
    BY <1>i, <2>2 DEF Tame, Clear, ParseType
  <2>7. ParseType'
    BY <1>i, <2>2 DEF ParseType
  <2>8. "testName" \in ParsePc /\ "testPass" \in ParsePc
    BY DEF ParsePc
  <2>9. ~mixed[t] => a # None
    BY <1>3, LoginFacts
  <2> QED BY <1>1, <1>2, <2>1, <2>2, <2>3, <2>5, <2>6, <2>7, <2>8, <2>9, ParsingStep
<1> QED BY <1>5, <1>6

LEMMA TestPassKeeps ==
  ASSUME TurnServerInv, NEW t \in Thread, TestPass(t)
  PROVE  TurnServerInv'
<1>i. ServerTypeOK /\ ParseType /\ From(mem, All)
  BY ServerTypeParts DEF TurnServerInv, BuffInv
<1>1. /\ pc[t] = "testPass" /\ Parsing(t) /\ UNCHANGED <<parseVars, clientVars, relaying>>
      /\ Verdict(t, IF IsRightPass THEN 1 ELSE 0)
  BY DEF TestPass, Parsing
<1>2. PICK a : a = login[t]
  OBVIOUS
<1>3. ASSUME ~mixed[t] PROVE IsRightPass <=> IsRight(a)
  <2>1. /\ a \in Logins /\ IsRightName /\ InUname(mem, a) /\ NameEnded(mem, a)
        /\ InPasswd(mem, a) /\ PassEnded(mem, a)
    BY <1>1, <1>2, <1>3, PartAlone DEF Alone
  <2>2. a # None
    BY <2>1, LoginFacts
  <2> QED BY <2>1, <2>2, NameJudged, PassJudged DEF IsRight
<1>4. IsRightPass => NameSent(All) /\ PassSent(All)
  BY <1>i, <1>1, RightIsSent DEF TurnServerInv, ParseAt
<1>5. CASE IsRightPass
  <2>1. Verdict(t, 1)
    BY <1>1, <1>5
  <2> QED BY <1>1, <1>2, <1>3, <1>4, <1>5, <2>1, VerdictStep
<1>6. CASE ~IsRightPass
  <2>1. Verdict(t, 0)
    BY <1>1, <1>6
  <2> QED BY <1>1, <1>2, <1>3, <1>6, <2>1, VerdictStep
<1> QED BY <1>5, <1>6

LEMMA ParseKeeps ==
  ASSUME TurnServerInv, NEW t \in Thread, Parse(t)
  PROVE  TurnServerInv'
BY CutKeeps, NameKeeps, EndNameKeeps, PassKeeps, DiesStep, EndPassKeeps, TestNameKeeps,
   TestPassKeeps DEF Parse

-----------------------------------------------------------------------------
(* A login comes in, or nothing, into the memory the other thread may be   *)
(* parsing in.                                                             *)
LEMMA LoginKeeps ==
  ASSUME TurnServerInv, NEW t \in Thread, NEW l \in Logins \cup {None}, Recv(t, l),
         UNCHANGED <<toMaster, merged>>,
         ClientType', Taken' = Taken,
         \A s \in Slaves : slave'[s] = "listening" => slave[s] = "listening"
  PROVE  TurnServerInv'
<1>i. /\ ServerTypeOK /\ pc \in [Thread -> Pc] /\ ParseType /\ FlagType /\ ClientType
      /\ RelayType /\ BuffInv /\ AnswerInv /\ ListensOnlyToMaster
  BY ServerTypeParts DEF TurnServerInv
<1>u. /\ UNCHANGED <<k, relaying>>
      /\ UNCHANGED <<Verify_master, Verify_slave, Start_send, slave_info, unsaid>>
      /\ login' = [login EXCEPT ![t] = l]
      /\ mixed' = [u \in Thread |-> IF u = t THEN \E o \in Thread \ {t} : Parsing(o)
                                    ELSE mixed[u] \/ Parsing(u)]
  BY DEF Recv, flagVars
<1>r. \/ /\ l = None /\ n' \in {-1, 0} /\ UNCHANGED <<mem, heard>>
      \/ /\ l # None /\ l \in Logins /\ n' = Length(l)
         /\ mem' = [i \in Mem |-> IF i \in Buffer(t) .. Buffer(t) + Length(l) - 1
                                  THEN Char(l, i - Buffer(t)) ELSE mem[i]]
         /\ heard' = [heard EXCEPT ![t] = @ \cup {l}]
  BY DEF Recv
<1> USE DEF Pc, ParsePc, Running, Told, Judged
<1>1. /\ pc[t] = "accept" /\ pc'[t] = "cut" /\ \A u \in Thread : u # t => pc'[u] = pc[u]
      /\ pc' \in [Thread -> Pc]
  <2>1. Goes(t, "accept", "cut")
    BY DEF Recv
  <2> QED BY <1>i, <2>1, Moves DEF Goes
<1>2. /\ login'[t] = l /\ \A u \in Thread : u # t => login'[u] = login[u]
      /\ mixed'[t] = (\E o \in Thread \ {t} : Parsing(o))
      /\ \A u \in Thread : u # t => mixed'[u] = (mixed[u] \/ Parsing(u))
  BY <1>i, <1>u DEF ParseType
(* What is heard only grows.                                               *)
<1>h. /\ heard' \in [Thread -> SUBSET Logins] /\ \A u \in Thread : heard[u] \subseteq heard'[u]
      /\ \A u \in Thread : u # t => heard'[u] = heard[u]
      /\ l # None => l \in heard'[t]
      /\ All \subseteq All' /\ heard'[t] \subseteq All'
  <2>1. heard \in [Thread -> SUBSET Logins]
    BY <1>i DEF ParseType
  <2>2. /\ heard' \in [Thread -> SUBSET Logins] /\ \A u \in Thread : heard[u] \subseteq heard'[u]
        /\ \A u \in Thread : u # t => heard'[u] = heard[u]
        /\ l # None => l \in heard'[t]
    BY <1>r, <2>1
  <2> QED BY <2>2, TwoThreads DEF All
(* What is written is in the thread's own buffer.                          *)
<1>w. ASSUME l # None
      PROVE  /\ mem' \in [Mem -> Nat] /\ n' \in -1 .. 2 * Size - 1
             /\ \A i \in Mem : mem'[i] = mem[i] \/ \E c \in 0 .. Length(l) - 1 : mem'[i] = Char(l, c)
             /\ \A i \in Offset : mem'[Buffer(t) + i] = IF i < Length(l) THEN Char(l, i)
                                                        ELSE mem[Buffer(t) + i]
             /\ \A u \in Thread : u # t =>
                  \A i \in Offset : mem'[Buffer(u) + i] = mem[Buffer(u) + i]
  <2>l. Length(l) \in Nat /\ Length(l) \in 0 .. 2 * Size - 1 /\ n' = Length(l) /\ l \in Logins
    BY <1>r, <1>w, LoginFacts DEF Offset
  <2>b. Buffer(t) \in Nat /\ mem \in [Mem -> Nat]
    BY <1>i, Layout
  <2>1. \A i \in Mem : mem'[i] = IF i \in Buffer(t) .. Buffer(t) + Length(l) - 1
                                 THEN Char(l, i - Buffer(t)) ELSE mem[i]
    BY <1>r, <1>w
  <2>2. ASSUME NEW i \in Mem, i \in Buffer(t) .. Buffer(t) + Length(l) - 1
        PROVE  i - Buffer(t) \in 0 .. Length(l) - 1
    BY <2>l, <2>b, <2>2 DEF Mem
  <2>3. \A i \in Mem : mem'[i] = mem[i] \/ \E c \in 0 .. Length(l) - 1 : mem'[i] = Char(l, c)
    BY <2>1, <2>2
  <2>4. \A i \in Mem : mem'[i] \in Nat
    BY <2>3, <2>b, <2>l, CharFacts
  <2>5. mem' \in [Mem -> Nat]
    <3>1. mem' = [i \in Mem |-> mem'[i]]
      BY <1>r, <1>w
    <3> QED BY <2>4, <3>1
  <2>6. ASSUME NEW i \in Offset
        PROVE  mem'[Buffer(t) + i] = IF i < Length(l) THEN Char(l, i) ELSE mem[Buffer(t) + i]
    <3>1. i \in Nat /\ i < 2 * Size
      BY Sizes DEF Offset
    <3>2. Buffer(t) + i \in Mem /\ Buffer(t) + i - Buffer(t) = i
      BY <1>i, <3>1, Layout, Sizes DEF Mem
    <3>3. Buffer(t) + i \in Buffer(t) .. Buffer(t) + Length(l) - 1 <=> i < Length(l)
      BY <2>l, <2>b, <3>1
    <3> DEFINE at == Buffer(t) + i
    <3>4. at \in Mem /\ at - Buffer(t) = i
      BY <2>b, <3>1, <3>2
    <3>5. at \in Buffer(t) .. Buffer(t) + Length(l) - 1 <=> i < Length(l)
      BY <3>3
    <3>6. mem'[at] = IF i < Length(l) THEN Char(l, i) ELSE mem[at]
      <4> HIDE DEF at
      <4> QED BY <2>1, <3>4, <3>5
    <3> QED BY <3>6
  <2>7. ASSUME NEW u \in Thread, u # t, NEW i \in Offset
        PROVE  mem'[Buffer(u) + i] = mem[Buffer(u) + i]
    <3>1. i \in Nat /\ i < 2 * Size
      BY Sizes DEF Offset
    <3>2. Buffer(u) + i \in Mem
      BY <1>i, <3>1, Layout, Sizes DEF Mem
    <3>3. Buffer(u) = Buffer(t) + 2 * Size \/ Buffer(t) = Buffer(u) + 2 * Size
      BY <2>7, TwoThreads, Sizes DEF Buffer
    <3>4. ~(Buffer(u) + i \in Buffer(t) .. Buffer(t) + Length(l) - 1)
      <4>1. Buffer(u) \in Nat
        BY <1>i, Layout
      <4> QED BY <2>l, <2>b, <3>1, <3>3, <4>1, Sizes
    <3> QED BY <2>1, <3>2, <3>4
  <2>8. n' \in -1 .. 2 * Size - 1
    BY <2>l, Sizes
  <2> QED BY <2>3, <2>5, <2>6, <2>7, <2>8
<1>3. ParseType'
  <2>1. mixed' \in [Thread -> BOOLEAN]
    <3>1. \A u \in Thread : mixed'[u] \in BOOLEAN
      BY <1>i, <1>2 DEF ParseType, Parsing
    <3> QED BY <1>u, <3>1
  <2>2. mem' \in [Mem -> Nat] /\ n' \in -1 .. 2 * Size - 1
    <3>1. CASE l = None
      <4>1. n' \in {-1, 0} /\ mem' = mem
        BY <1>r, <3>1
      <4> QED BY <1>i, <4>1, Sizes DEF ParseType
    <3> QED BY <1>w, <3>1
  <2>3. login' \in [Thread -> Logins \cup {None}]
    BY <1>i, <1>u DEF ParseType
  <2> QED BY <1>i, <1>u, <1>h, <2>1, <2>2, <2>3 DEF ParseType
<1>4. ServerTypeOK'
  BY <1>i, <1>u, <1>1, <1>3, ServerTypeFromParts DEF FlagType, RelayType
<1>5. BuffInv'
  <2>1. From(mem', All')
    <3>1. From(mem, All')
      BY <1>i, <1>h, FromGrows DEF BuffInv
    <3>2. CASE l = None
      BY <1>r, <3>1, <3>2
    <3>3. CASE l # None
      <4>1. l \in Logins /\ l \in All'
        BY <1>r, <1>h, <3>3
      <4> QED BY <1>w, <3>1, <3>3, <4>1, FromHeard
    <3> QED BY <3>2, <3>3
  <2>2. Commas(mem', "slave", heard'["slave"])
    <3>1. Commas(mem, "slave", heard["slave"]) /\ heard["slave"] \subseteq heard'["slave"]
      BY <1>i, <1>h, TwoThreads DEF BuffInv
    <3>2. CASE l = None
      BY <1>r, <3>1, <3>2 DEF Commas
    <3>3. CASE l # None /\ t # "slave"
      BY <1>w, <3>1, <3>3, TwoThreads DEF Commas
    <3>4. CASE l # None /\ t = "slave"
      <4>1. ASSUME NEW i \in Offset, mem'[Buffer("slave") + i] = Comma
            PROVE  \E o \in heard'["slave"] : Len(o.name) = i
        <5>1. CASE i < Length(l)
          <6>1. i \in 0 .. Length(l) - 1 /\ l \in Logins
            BY <1>r, <3>4, <5>1, InArrays
          <6> QED BY <1>w, <1>h, <3>4, <4>1, <5>1, <6>1, CharFacts
        <5>2. CASE ~(i < Length(l))
          BY <1>w, <3>1, <3>4, <4>1, <5>2 DEF Commas
        <5> QED BY <5>1, <5>2
      <4> QED BY <4>1 DEF Commas
    <3> QED BY <3>2, <3>3, <3>4
  <2>3. ASSUME pc'["master"] \in {"off", "accept", "adrift"}
        PROVE  /\ pc["master"] = pc'["master"] /\ t = "slave"
               /\ mixed'["slave"] = FALSE /\ login'["master"] = login["master"]
    <3>1. t = "slave" /\ pc["master"] = pc'["master"]
      BY <1>1, <2>3, TwoThreads
    <3>2. \A o \in Thread \ {t} : ~Parsing(o)
      BY <2>3, <3>1, TwoThreads DEF Parsing
    <3> QED BY <1>2, <3>1, <3>2, TwoThreads
  <2>4. pc'["master"] \in {"off", "accept"} => \A i \in Offset : mem'[Buffer("master") + i] = Nul
    <3> SUFFICES ASSUME pc'["master"] \in {"off", "accept"}, NEW i \in Offset
                 PROVE  mem'[Buffer("master") + i] = Nul
      OBVIOUS
    <3>1. mem[Buffer("master") + i] = Nul /\ t = "slave"
      BY <1>i, <2>3 DEF BuffInv
    <3>2. CASE l = None
      BY <1>r, <3>1, <3>2
    <3>3. CASE l # None
      BY <1>w, <3>1, <3>3, TwoThreads
    <3> QED BY <3>2, <3>3
  <2> QED BY <1>i, <1>u, <2>1, <2>2, <2>3, <2>4 DEF BuffInv
<1>6. ParseAt(t)'
  <2>1. ~mixed'[t] => \A u \in Thread \ {t} : ~Parsing(u)'
    BY <1>1, <1>2 DEF Parsing
  <2>2. l = None => n' \in {-1, 0}
    BY <1>r
  <2>3. ASSUME l # None PROVE Alone(t, l)'
    <3>1. l \in Logins /\ l \in heard'[t] /\ n' = Length(l)
      BY <1>r, <1>h, <2>3
    <3>2. InBuffer(mem', t, l)
      <4>1. \A i \in 0 .. Length(l) - 1 : i \in Offset /\ i < Length(l)
        BY <3>1, InArrays, Places
      <4> QED BY <1>w, <2>3, <4>1 DEF InBuffer
    <3>3. Commas(mem', t, heard'[t])
      <4>1. CASE t = "slave"
        BY <1>5, <4>1 DEF BuffInv
      <4>2. CASE t = "master"
        <5>1. \A i \in Offset : mem[Buffer(t) + i] = Nul
          BY <1>i, <1>1, <4>2 DEF BuffInv
        <5>2. ASSUME NEW i \in Offset, mem'[Buffer(t) + i] = Comma
              PROVE  Len(l.name) = i
          <6>1. i < Length(l) /\ Char(l, i) = Comma
            BY <1>w, <2>3, <5>1, <5>2 DEF Nul, Comma
          <6>2. i \in 0 .. Length(l) - 1
            BY <3>1, <6>1, InArrays
          <6> QED BY <3>1, <6>1, <6>2, CharFacts
        <5> QED BY <3>1, <5>2 DEF Commas
      <4> QED BY <4>1, <4>2, TwoThreads
    <3> QED BY <1>1, <3>1, <3>2, <3>3 DEF Alone
  <2>4. login'[t] = l
    BY <1>2
  <2>5. login'[t] # None => Alone(t, login[t])'
    BY <2>3, <2>4 DEF Alone
  <2> QED BY <1>1, <2>1, <2>2, <2>4, <2>5 DEF ParseAt
<1>7. ASSUME NEW u \in Thread, u # t PROVE ParseAt(u)'
  <2>1. Parsing(u)' <=> Parsing(u)
    BY <1>1, <1>7 DEF Parsing
  <2>2. Parsing(u) => mixed'[u]
    BY <1>2, <1>7
  <2>3. Parsing(u) /\ pc[u] = "testPass" => NameSent(All)
    BY DEF TurnServerInv, ParseAt
  <2>4. NameSent(All) => NameSent(All')
    BY <1>h DEF NameSent
  <2> QED BY <1>1, <1>7, <2>1, <2>2, <2>3, <2>4 DEF ParseAt
<1>8. VerdictIsRight'
  <2>1. ASSUME NEW u \in Thread, pc'[u] \notin ParsePc
        PROVE  u # t /\ pc[u] = pc'[u] /\ mixed'[u] = mixed[u] /\ login'[u] = login[u]
    <3>1. u # t /\ pc[u] = pc'[u] /\ ~Parsing(u)
      BY <1>1, <2>1 DEF Parsing
    <3> QED BY <1>i, <1>2, <3>1 DEF ParseType
  <2>2. ASSUME NEW u \in Thread, pc'[u] = "dead"
        PROVE  mixed'[u] \/ login'[u] = None \/ \E o \in heard'[u] : Len(o.name) > Length(login'[u])
    <3>1. pc[u] = "dead" /\ mixed'[u] = mixed[u] /\ login'[u] = login[u]
      BY <2>1, <2>2
    <3>2. mixed[u] \/ login[u] = None \/ \E o \in heard[u] : Len(o.name) > Length(login[u])
      BY <3>1 DEF TurnServerInv, VerdictIsRight
    <3> QED BY <1>h, <3>1, <3>2
  <2>3. \A v : IsRight(v)' = IsRight(v)
    BY DEF IsRight
  <2> QED BY <1>u, <2>1, <2>2, TwoThreads DEF TurnServerInv, VerdictIsRight, IsRight
<1>9. NothingIsInvented' /\ ListensOnlyToMaster'
  <2>1. NothingIsInvented'
    BY <1>u, <1>h DEF TurnServerInv, NothingIsInvented, All
  <2> QED BY <1>i, <1>u, <2>1 DEF ListensOnlyToMaster
<1>10. AnswerInv'
  <2>1. Sent' = Sent
    BY <1>u, <1>1, TwoThreads DEF Sent
  <2>2. Verify_master' = 1 => pc'["master"] \in Told
    BY <1>i, <1>u, <1>1, TwoThreads DEF AnswerInv
  <2>3. pc'["slave"] = "send" /\ slave_info' = 1 => Verify_master' = 1
    BY <1>i, <1>u, <1>1, TwoThreads DEF AnswerInv
  <2> QED BY <1>i, <2>1, <2>2, <2>3 DEF AnswerInv
<1> QED BY <1>4, <1>5, <1>6, <1>7, <1>8, <1>9, <1>10 DEF TurnServerInv

-----------------------------------------------------------------------------
LEMMA InitTurnServerInv == ServerInit => TurnServerInv
<1> SUFFICES ASSUME ServerInit PROVE TurnServerInv
  OBVIOUS
<1>1. /\ pc = [t \in Thread |-> "off"] /\ mem = [i \in Mem |-> Nul] /\ n = 0
      /\ k = [t \in Thread |-> 0] /\ login = [t \in Thread |-> None]
      /\ Verify_master = 0 /\ Verify_slave = 0 /\ Start_send = 0 /\ slave_info \in 0 .. 2
      /\ relaying = "no" /\ mpc = "new" /\ toMaster = 0
      /\ slave = [s \in Slaves |-> "new"] /\ peer \in Slaves
      /\ heard = [t \in Thread |-> {}] /\ mixed = [t \in Thread |-> FALSE]
      /\ merged = FALSE /\ unsaid = FALSE
  BY DEF ServerInit
<1>3. ServerTypeOK
  <2>1. pc \in [Thread -> Pc] /\ FlagType /\ RelayType
    <3>1. pc \in [Thread -> Pc]
      BY <1>1 DEF Pc
    <3>2. unsaid \in BOOLEAN
      BY <1>1
    <3> QED BY <1>1, <3>1, <3>2 DEF FlagType, RelayType
  <2>2. ClientType
    <3>1. slave \in [Slaves -> {"new", "waiting", "listening", "closed"}]
      BY <1>1
    <3>2. merged \in BOOLEAN
      BY <1>1
    <3> QED BY <1>1, <3>1, <3>2 DEF ClientType
  <2>3. ParseType
    <3>1. mem \in [Mem -> Nat] /\ n \in -1 .. 2 * Size - 1
      BY <1>1, Sizes DEF Nul
    <3>2. k \in [Thread -> Offset]
      BY <1>1, Sizes DEF Offset
    <3>3. /\ login \in [Thread -> Logins \cup {None}] /\ heard \in [Thread -> SUBSET Logins]
          /\ mixed \in [Thread -> BOOLEAN]
      BY <1>1
    <3> QED BY <3>1, <3>2, <3>3 DEF ParseType
  <2> QED BY <2>1, <2>2, <2>3 DEF ServerTypeOK, Pc, ParseType, FlagType, ClientType, RelayType
<1>4. \A t \in Thread : ParseAt(t)
  BY <1>1 DEF ParseAt, Parsing
<1>5. BuffInv
  <2>1. \A i \in Mem : mem[i] = Nul
    BY <1>1
  <2>2. From(mem, All)
    BY <2>1, Sizes DEF From, NameChar, PassChar, Nul
  <2>3. \A t \in Thread : \A i \in Offset : Buffer(t) + i \in Mem
    BY Sizes DEF Offset, Mem, Buffer
  <2>4. \A t \in Thread : \A i \in Offset : mem[Buffer(t) + i] = Nul
    BY <2>1, <2>3
  <2>5. Commas(mem, "slave", heard["slave"])
    BY <2>4, TwoThreads DEF Commas, Nul, Comma
  <2> QED BY <1>1, <2>2, <2>4, <2>5, TwoThreads DEF BuffInv
<1>6. VerdictIsRight /\ NothingIsInvented /\ AnswerInv /\ ListensOnlyToMaster
  BY <1>1, TwoThreads DEF VerdictIsRight, NothingIsInvented, AnswerInv, ListensOnlyToMaster,
     Sent, Taken
<1> QED BY <1>3, <1>4, <1>5, <1>6 DEF TurnServerInv

LEMMA NextTurnServerInv == TurnServerInv /\ [ServerNext]_tsVars => TurnServerInv'
<1> SUFFICES ASSUME TurnServerInv, [ServerNext]_tsVars PROVE TurnServerInv'
  OBVIOUS
<1>i. ServerTypeOK /\ ClientType
  BY ServerTypeParts DEF TurnServerInv
<1>1. CASE \E t \in Thread : Parse(t)
  BY <1>1, ParseKeeps
<1>2. CASE \/ SendInfo \/ PollSlave \/ SendSlaveInfo \/ StartSend \/ LeaveAdrift
           \/ TellReady \/ TellAbsent \/ Answer
  BY <1>2, AnswersKeep
<1>3. CASE \/ \E t \in Thread : Listen(t) \/ AcceptFails(t)
           \/ StartRecvData \/ MasterFails \/ MasterProgram
           \/ \E s \in Slaves : SlaveFails(s) \/ SlaveCutOff(s)
  BY <1>3, ProgramsKeep
<1>4. ASSUME NEW l \in Logins \cup {None}, MasterLogin(l) PROVE TurnServerInv'
  <2>1. Recv("master", l) /\ UNCHANGED <<toMaster, merged, slave>> /\ ClientType'
    BY <1>i, <1>4 DEF MasterLogin, ClientType
  <2>2. Taken' = Taken
    BY <1>4 DEF MasterLogin, Taken
  <2> QED BY <2>1, <2>2, LoginKeeps, TwoThreads
<1>5. ASSUME NEW l \in Logins \cup {None}, NEW s \in Slaves, SlaveLogin(s, l) PROVE TurnServerInv'
  <2>1. /\ Recv("slave", l) /\ UNCHANGED <<toMaster, merged, mpc>> /\ ClientType'
        /\ \A r \in Slaves : slave'[r] = "listening" => slave[r] = "listening"
    BY <1>i, <1>5 DEF SlaveLogin, ClientType
  <2>2. Taken' = Taken
    BY <2>1 DEF Taken
  <2> QED BY <2>1, <2>2, LoginKeeps, TwoThreads
<1>6. CASE UNCHANGED tsVars
  <2>1. /\ UNCHANGED <<pc, parseVars, flagVars, clientVars, relaying>>
        /\ UNCHANGED <<Verify_master, Verify_slave, Start_send, slave_info, unsaid>>
        /\ UNCHANGED <<mpc, toMaster, merged, slave, peer>>
        /\ UNCHANGED <<mem, n, k, login, heard, mixed>>
    BY <1>6 DEF tsVars, parseVars, flagVars, clientVars
  <2>2. ServerTypeOK'
    BY <1>i, <2>1 DEF ServerTypeOK
  <2>3. AnswerInv' /\ ListensOnlyToMaster'
    BY <2>1 DEF TurnServerInv, AnswerInv, ListensOnlyToMaster, Sent, Taken
  <2>4. /\ pc'["master"] = "adrift" => pc["master"] \in {"accept", "adrift"}
        /\ pc'["master"] \in Told => pc["master"] \in Told \cup {"adrift"}
    BY <2>1
  <2> QED BY <2>1, <2>2, <2>3, <2>4, QuietStep
<1> QED BY <1>1, <1>2, <1>3, <1>4, <1>5, <1>6, TwoThreads
  DEF ServerNext, Server, MasterThread, SlaveThread

-----------------------------------------------------------------------------
(* The invariant holds throughout: whatever two logins are being parsed,   *)
(* and whoever answers whom meanwhile.                                     *)
THEOREM TurnServerInvariance == ServerSpec => []TurnServerInv
BY InitTurnServerInv, NextTurnServerInv, PTL DEF ServerSpec

(* The shared length and the memory keep to what the arrays hold: what a   *)
(* thread writes at the other's n included, which may run over Passwd.     *)
THEOREM ServerTypeCorrect == ServerSpec => []ServerTypeOK
<1>1. TurnServerInv => ServerTypeOK
  BY DEF TurnServerInv
<1> QED BY <1>1, TurnServerInvariance, PTL

(* A login of any length that is parsed alone gets the verdict it deserves *)
(* or kills the server, which it does only if the comma of a longer name   *)
(* has stayed in the buffer behind it, or if nothing was sent.             *)
THEOREM AloneIsJudgedRightly == ServerSpec => []VerdictIsRight
<1>1. TurnServerInv => VerdictIsRight
  BY DEF TurnServerInv
<1> QED BY <1>1, TurnServerInvariance, PTL

(* Logins mixed in one memory, of names and passwords of any lengths, let  *)
(* nobody in unless every right character was sent at its place.           *)
THEOREM VerdictsAreNotInvented == ServerSpec => []NothingIsInvented
<1>1. TurnServerInv => NothingIsInvented
  BY DEF TurnServerInv
<1> QED BY <1>1, TurnServerInvariance, PTL

(* The master program transmits only when its login was accepted and a     *)
(* slave's was, though the two bytes it waits for are alike.               *)
THEOREM NoTransmissionUnverified == ServerSpec => []TransmitsOnlyIfVerified
<1>1. TurnServerInv => TransmitsOnlyIfVerified
  <2> SUFFICES ASSUME TurnServerInv, mpc \in {"ready", "sent"}
               PROVE  Verify_master = 1 /\ pc["master"] \in {"start", "stop"}
    BY DEF TransmitsOnlyIfVerified
  <2>1. Verify_master \in {0, 1} /\ toMaster \in 0 .. 2
    BY ServerTypeParts DEF TurnServerInv, FlagType, ClientType
  <2>2. Taken = 2 /\ Taken + toMaster <= Sent
    BY DEF TurnServerInv, AnswerInv, Taken
  <2> QED BY <2>1, <2>2 DEF Sent
<1> QED BY <1>1, TurnServerInvariance, PTL

(* A slave program that waits for data was told so with the master logged  *)
(* in: the second byte of wait_for_slave's answer is never taken for it.   *)
THEOREM SlavesListenToMaster == ServerSpec => []ListensOnlyToMaster
<1>1. TurnServerInv => ListensOnlyToMaster
  BY DEF TurnServerInv
<1> QED BY <1>1, TurnServerInvariance, PTL
=============================================================================
