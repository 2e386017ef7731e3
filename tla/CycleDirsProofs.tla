--------------------------- MODULE CycleDirsProofs ---------------------------
(***************************************************************************)
(* Proofs about CycleDirs, for any number of threads, processes and slots, *)
(* and any cycle length that is a whole number of the format's units.      *)
(***************************************************************************)
EXTENDS CycleDirs, NumberLemmas, TLAPS

-----------------------------------------------------------------------------
(* A cycle begins at a whole number of units, m. *)
LEMMA CycleInUnits ==
    ASSUME NEW c \in Nat
    PROVE  \E m \in Nat : c * CycleLength = m * (1000 * Unit) /\ Seconds(c) = m * Unit
<1>1. Unit \in Nat \ {0}
  BY CycleDirsAssumption DEF Unit, Day, Hour, Minute
<1>2. PICK k \in Nat : CycleLength = k * (1000 * Unit)
  BY <1>1, WholeUnits, CycleDirsAssumption
<1>. DEFINE m == c * k
<1>3. m \in Nat /\ m * Unit \in Nat
  BY <1>1
<1>4. c * CycleLength = m * (1000 * Unit)
  BY <1>1, <1>2
<1>5. c * CycleLength = (m * Unit) * 1000
  BY <1>1, <1>3, <1>4
<1>6. Seconds(c) = m * Unit
  BY <1>3, <1>5, QuotientOfProduct DEF Seconds
<1>. QED  BY <1>3, <1>4, <1>6

(* The days of all cycles are among those the clock can hold. *)
LEMMA CycleInClock ==
    ASSUME NEW c \in Cycles
    PROVE  InClock(Seconds(c) \div 86400)
<1>1. /\ c \in Nat /\ LastCycle \in Nat /\ CycleLength \in Nat /\ c <= LastCycle
      /\ Seconds(LastCycle) \div 86400 <= 106750
  BY SMT, CycleDirsAssumption DEF Cycles, InClock, Day
<1>2. PICK a \in Nat, b \in Nat :
        a = c * CycleLength /\ b = LastCycle * CycleLength
  BY <1>1
<1>3. a <= b
  BY <1>1, <1>2, ProductGrows
<1>4. /\ (a \div 1000) \div 86400 \in Nat
      /\ (a \div 1000) \div 86400 <= (b \div 1000) \div 86400
  BY <1>3
<1>. QED  BY SMT, <1>1, <1>2, <1>4 DEF Seconds, InClock

(* The name of a cycle leads back to it. *)
THEOREM NameLeadsBack ==
    ASSUME NEW c \in Cycles
    PROVE  Readable(DateFromCycle(c)) /\ CycleFromDate(DateFromCycle(c)) = c
<1>. DEFINE name == DateFromCycle(c)
            x == name.numbers
            s == Seconds(c)
<1>0. c \in Nat
  BY CycleDirsAssumption DEF Cycles
<1>1. PICK m \in Nat : c * CycleLength = m * (1000 * Unit) /\ s = m * Unit
  BY <1>0, CycleInUnits
<1>2. Readable(name) /\ EpochSeconds(x) = s /\ x[1] = s \div 86400
  <2>1. CASE Format = 1
    <3>1. Unit = 86400
      BY <2>1 DEF Unit, Day
    <3>2. x = <<s \div 86400>>
      BY <2>1 DEF DateFromCycle, Formatted, DayName, Day
    <3>3. (s \div 86400) * 86400 = s
      BY <1>1, <3>1
    <3>. QED  BY <2>1, <3>2, <3>3 DEF Readable, EpochSeconds, DaySeconds, Day
  <2>2. CASE Format = 2
    <3>1. Unit = 3600
      BY <2>2 DEF Unit, Hour
    <3>2. x = <<s \div 86400, (s % 86400) \div 3600>>
      BY <2>2 DEF DateFromCycle, Formatted, HourName, Day, Hour
    <3>3. /\ (s \div 86400) * 86400 + ((s % 86400) \div 3600) * 3600 = s
          /\ (s % 86400) \div 3600 \in 0..24
      BY <1>1, <3>1
    <3>. QED
      BY <2>2, <3>2, <3>3
         DEF Readable, IsHour, EpochSeconds, HourSeconds, DaySeconds, Day, Hour
  <2>3. CASE Format = 3
    <3>1. Unit = 60
      BY <2>3 DEF Unit, Minute
    <3>2. x = <<s \div 86400, (s % 86400) \div 3600, (s % 3600) \div 60>>
      BY <2>3 DEF DateFromCycle, Formatted, MinuteName, Day, Hour, Minute
    <3>3. /\ (s \div 86400) * 86400 + ((s % 86400) \div 3600) * 3600
               + ((s % 3600) \div 60) * 60 = s
          /\ (s % 86400) \div 3600 \in 0..24
          /\ (s % 3600) \div 60 \in 0..60
      BY <1>1, <3>1
    <3>. QED
      BY <2>3, <3>2, <3>3
         DEF Readable, IsHour, IsMinute, EpochSeconds, MinuteSeconds, HourSeconds,
             DaySeconds, Day, Hour, Minute
  <2>. QED  BY <2>1, <2>2, <2>3, CycleDirsAssumption
<1>3. Unit \in Nat \ {0}
  BY CycleDirsAssumption DEF Unit, Day, Hour, Minute
<1>4. s \in Nat /\ s * 1000 = c * CycleLength
  BY <1>1, <1>3
<1>5. CycleFromDate(name) = (s * 1000) \div CycleLength
  <2>1. InClock(x[1])
    BY <1>2, CycleInClock
  <2>. QED  BY <1>2, <1>4, <2>1 DEF CycleFromDate, Quotient
<1>6. (c * CycleLength) \div CycleLength = c
  BY <1>0, QuotientOfProduct, CycleDirsAssumption
<1>. QED  BY <1>2, <1>4, <1>5, <1>6
-----------------------------------------------------------------------------
(* Type correctness. *)

LEMMA NodeType ==
    ASSUME NEW c \in Cycles
    PROVE  c \in Nat /\ DateFromCycle(c) \in Names /\ Node(c) \in Nodes
<1>1. c \in Nat
  BY CycleDirsAssumption DEF Cycles
<1>2. PICK m \in Nat : Seconds(c) = m * Unit
  BY <1>1, CycleInUnits
<1>3. Seconds(c) \in Nat
  BY <1>2, CycleDirsAssumption DEF Unit, Day, Hour, Minute
<1>4. /\ DayName(c) \in Seq(Int)
      /\ HourName(c) \in Seq(Int)
      /\ MinuteName(c) \in Seq(Int)
  BY <1>3 DEF DayName, HourName, MinuteName, Day, Hour, Minute
<1>5. DateFromCycle(c) \in Names
  <2>. USE DEF DateFromCycle, Formatted, Names
  <2>1. CASE Format = 1  BY <1>4, <2>1
  <2>2. CASE Format = 2  BY <1>4, <2>2
  <2>3. CASE Format = 3  BY <1>4, <2>3
  <2>. QED  BY <2>1, <2>2, <2>3, CycleDirsAssumption
<1>. QED  BY <1>1, <1>5 DEF Node, Nodes

(* What the names stand for: nodes hold the name of their cycle, and       *)
(* directories have names of cycles unless they are strays.                *)
KnownNodes == {Node(c) : c \in Cycles} \cup {NoNode}
Known == {DateFromCycle(c) : c \in Cycles} \cup Strays
Foreign == {CycleFromDate(n) : n \in Strays}

DirsInv ==
    /\ now \in Cycles
    /\ dirs \subseteq Known
    /\ files \subseteq Known \X Cycles
    /\ cache \in [Procs -> [0..(Slots - 1) -> KnownNodes]]
    /\ pc \in [Threads -> Places]
    /\ cycle \in [Threads -> Cycles]
    /\ append \in [Threads -> BOOLEAN]
    /\ node \in [Threads -> KnownNodes]
    /\ seen \in [Threads -> SUBSET dirs]
    /\ found \in [Threads -> Cycles \cup {-1} \cup Foreign]
    /\ \A t \in Threads :
         pc[t] \in {"store", "dir", "file"} => node[t] = Node(cycle[t])
    /\ \A t \in Threads : pc[t] = "file" => Name(t) \in dirs
    /\ \A f \in files : f[1] = DateFromCycle(f[2]) /\ f[1] \in dirs

LEMMA FirstIsCycle == FirstCycle \in Cycles
BY CycleDirsAssumption DEF Cycles

LEMMA OverInv ==
    ASSUME DirsInv, NEW T, Over(T)
    PROVE  /\ pc' \in [Threads -> Places]
           /\ cycle' \in [Threads -> Cycles]
           /\ append' \in [Threads -> BOOLEAN]
           /\ node' \in [Threads -> KnownNodes]
           /\ found' \in [Threads -> Cycles \cup {-1} \cup Foreign]
           /\ dirs \subseteq dirs' => seen' \in [Threads -> SUBSET dirs']
           /\ \A t \in Threads :
                pc'[t] \in {"store", "dir", "file"} => node'[t] = Node(cycle'[t])
           /\ \A t \in Threads : pc'[t] = "file" => pc[t] = "file" /\ node'[t] = node[t]
BY FirstIsCycle DEF DirsInv, Over, Places, KnownNodes

\* The slots of the cache, as many as CACHE_SIZE leaves.
LEMMA SlotInRange == \A c \in Cycles : SlotOf(c) \in 0..(Slots - 1)
BY CycleDirsAssumption DEF Cycles, SlotOf

(* No name reads as a cycle beyond this, either way: the clock's days, in  *)
(* milliseconds.                                                           *)
Widest == 10000000 * 1000000 + LastCycle

\* Division towards zero does not lead further from it.
LEMMA QuotientBound ==
    ASSUME NEW w \in Nat, NEW a \in Int, - w <= a, a <= w, NEW b \in Nat \ {0}
    PROVE  Quotient(a, b) \in Int /\ - w <= Quotient(a, b) /\ Quotient(a, b) <= w
<1>1. CASE a < 0
  <2>1. PICK n \in Nat : n = - a
    BY <1>1
  <2>2. PICK q \in Nat : q = n \div b /\ q <= n
    BY QuotientNat
  <2>3. Quotient(a, b) = - q
    BY <1>1, <2>1, <2>2 DEF Quotient
  <2>. QED  BY <1>1, <2>1, <2>2, <2>3
<1>2. CASE ~ (a < 0)
  <2>1. a \in Nat
    BY <1>2
  <2>2. PICK q \in Nat : q = a \div b /\ q <= a
    BY <2>1, QuotientNat
  <2>3. Quotient(a, b) = q
    BY <1>2, <2>2 DEF Quotient
  <2>. QED  BY <1>2, <2>2, <2>3
<1>. QED  BY <1>1, <1>2

\* What a stray reads as, whatever is in its name.
LEMMA StrayReads ==
    ASSUME NEW n \in Strays
    PROVE  /\ CycleFromDate(n) \in Int
           /\ - Widest <= CycleFromDate(n) /\ CycleFromDate(n) <= Widest
<1>. DEFINE x == n.numbers
<1>0. LastCycle \in Nat /\ CycleLength \in Nat \ {0} /\ Widest \in Nat
  BY SMT, CycleDirsAssumption DEF Widest
<1>1. CASE ~ Readable(n)
  BY SMT, <1>0, <1>1 DEF CycleFromDate, Widest
<1>2. CASE Readable(n) /\ ~ InClock(x[1])
  <2>1. Overflowed[n] \in Int /\ IsInt32(Overflowed[n])
    BY StraysAssumption
  <2>2. CycleFromDate(n) = Overflowed[n]
    BY <1>2 DEF CycleFromDate
  <2>. QED  BY SMT, <1>0, <2>1, <2>2 DEF Widest, IsInt32
<1>3. CASE Readable(n) /\ InClock(x[1])
  <2>1. x \in Seq(Int) /\ Len(x) = Format /\ \A i \in 2..Len(x) : TwoCharacters(x[i])
    BY <1>3, StraysAssumption DEF Readable, Names
  <2>2. PICK d \in Int : d = x[1] /\ -106751 <= d /\ d <= 106750
    <3>1. 1 \in 1..Len(x)
      BY <2>1, CycleDirsAssumption
    <3>2. x[1] \in Int
      BY <2>1, <3>1
    <3>. QED  BY SMT, <1>3, <3>2 DEF InClock
  <2>3. ASSUME NEW i \in 2..Format  PROVE x[i] \in Int /\ -9 <= x[i] /\ x[i] <= 99
    <3>1. i \in 1..Len(x) /\ i \in 2..Len(x)
      BY <2>1, CycleDirsAssumption
    <3>. QED  BY <2>1, <3>1 DEF TwoCharacters
  <2>4. PICK e \in Int : e = EpochSeconds(x) /\ -10000000000 <= e /\ e <= 10000000000
    <3>1. CASE Format = 1
      <4>1. EpochSeconds(x) = d * 86400
        BY <2>2, <3>1 DEF EpochSeconds, DaySeconds, Day
      <4>. QED  BY SMT, <2>2, <4>1
    <3>2. CASE Format = 2
      <4>1. EpochSeconds(x) = d * 86400 + x[2] * 3600
        BY <2>2, <3>2 DEF EpochSeconds, HourSeconds, DaySeconds, Day, Hour
      <4>2. 2 \in 2..Format
        BY <3>2
      <4>3. PICK h \in Int : h = x[2] /\ -9 <= h /\ h <= 99
        BY <2>3, <4>2
      <4>. QED  BY SMT, <2>2, <4>1, <4>3
    <3>3. CASE Format = 3
      <4>1. EpochSeconds(x) = d * 86400 + x[2] * 3600 + x[3] * 60
        BY <2>2, <3>3
           DEF EpochSeconds, MinuteSeconds, HourSeconds, DaySeconds, Day, Hour, Minute
      <4>2. 2 \in 2..Format /\ 3 \in 2..Format
        BY <3>3
      <4>3. PICK h \in Int : h = x[2] /\ -9 <= h /\ h <= 99
        BY <2>3, <4>2
      <4>4. PICK m \in Int : m = x[3] /\ -9 <= m /\ m <= 99
        BY <2>3, <4>2
      <4>. QED  BY SMT, <2>2, <4>1, <4>3, <4>4
    <3>. QED  BY <3>1, <3>2, <3>3, CycleDirsAssumption
  <2>5. PICK a \in Int : a = e * 1000 /\ - Widest <= a /\ a <= Widest
    BY SMT, <1>0, <2>4 DEF Widest
  <2>6. CycleFromDate(n) = Quotient(a, CycleLength)
    BY <1>3, <2>4, <2>5 DEF CycleFromDate
  <2>. QED  BY <1>0, <2>5, <2>6, QuotientBound
<1>. QED  BY <1>1, <1>2, <1>3

\* What the entries of a listing are.
LEMMA KnownName ==
    ASSUME NEW n \in Known
    PROVE  /\ CycleFromDate(n) \in Int
           /\ - Widest <= CycleFromDate(n) /\ CycleFromDate(n) <= Widest
           /\ CycleFromDate(n) \in Cycles \cup Foreign
           /\ CycleFromDate(n) # -1 => Readable(n)
           /\ n \notin Strays =>
                CycleFromDate(n) \in Cycles /\ n = DateFromCycle(CycleFromDate(n))
<1>0. CycleFromDate(n) # -1 => Readable(n)
  BY DEF CycleFromDate
<1>1. CASE n \in Strays
  BY <1>0, <1>1, StrayReads DEF Foreign
<1>2. CASE n \notin Strays
  <2>1. PICK c \in Cycles : n = DateFromCycle(c)
    BY <1>2 DEF Known
  <2>2. CycleFromDate(n) = c
    BY <2>1, NameLeadsBack
  <2>3. c \in Int /\ - Widest <= c /\ c <= Widest
    BY SMT, CycleDirsAssumption DEF Cycles, Widest
  <2>. QED  BY <1>0, <1>2, <2>1, <2>2, <2>3
<1>. QED  BY <1>1, <1>2

LEMMA FirstOfProperties ==
    ASSUME NEW S \in SUBSET Known, S # {}
    PROVE  /\ FirstOf(S) \in {CycleFromDate(n) : n \in S}
           /\ \A n \in S : FirstOf(S) <= CycleFromDate(n)
<1>. DEFINE C == {CycleFromDate(n) : n \in S}
<1>0. Widest \in Nat
  BY SMT, CycleDirsAssumption DEF Widest
<1>1. (\A c \in C : c \in Int /\ - Widest <= c) /\ C # {}
  BY KnownName
<1>2. PICK c \in C : \A d \in C : c <= d
  BY <1>0, <1>1, LeastOf
<1>3. \E c1 \in C : \A n \in S : c1 <= CycleFromDate(n)
  BY <1>2
<1>4. FirstOf(S) = CHOOSE c1 \in C : \A n \in S : c1 <= CycleFromDate(n)
  BY DEF FirstOf
<1>. QED  BY <1>3, <1>4

LEMMA LastOfProperties ==
    ASSUME NEW S \in SUBSET Known
    PROVE  /\ LastOf(S) \in {CycleFromDate(n) : n \in S} \cup {-1}
           /\ \A n \in S : CycleFromDate(n) <= LastOf(S)
           /\ -1 <= LastOf(S)
<1>. DEFINE C == {CycleFromDate(n) : n \in S} \cup {-1}
<1>0. Widest \in Nat
  BY SMT, CycleDirsAssumption DEF Widest
<1>1. (\A c \in C : c \in Int /\ c <= Widest) /\ C # {}
  BY <1>0, KnownName
<1>2. \E c \in C : \A d \in C : d <= c
  <2>1. Widest \in Nat
    BY <1>0
  <2>. HIDE DEF C
  <2>. QED  BY <1>1, <2>1, GreatestOf
<1>3. LastOf(S) = CHOOSE c \in C : \A d \in C : d <= c
  BY DEF LastOf
<1>4. LastOf(S) \in C /\ \A d \in C : d <= LastOf(S)
  BY <1>2, <1>3
<1>. QED  BY <1>4

LEMMA DirsInvInductive == DirsInv /\ [Next]_vars => DirsInv'
<1>. SUFFICES ASSUME DirsInv, [Next]_vars  PROVE DirsInv'
  OBVIOUS
<1>. USE DEF DirsInv
<1>1. ASSUME NEW t \in Threads, NEW c \in Cycles, NEW w \in BOOLEAN, Open(t, c, w)
      PROVE  DirsInv'
  BY <1>1 DEF Open, Goto, From, Places, Name
<1>2. ASSUME NEW t \in Threads, Load(t)  PROVE DirsInv'
  <2>. DEFINE n == cache[ProcOf[t]][SlotOf(cycle[t])]
  <2>1. n \in KnownNodes
    BY SlotInRange, CycleDirsAssumption
  <2>2. CASE IsNodeOf(n, cycle[t])
    <3>1. n = Node(cycle[t])
      BY <2>1, <2>2 DEF IsNodeOf, KnownNodes, Node
    <3>. QED  BY <1>2, <2>1, <2>2, <3>1 DEF Load, Goto, From, Places, Name
  <2>3. CASE ~ IsNodeOf(n, cycle[t])
    BY <1>2, <2>3 DEF Load, Goto, From, Places, Name
  <2>. QED  BY <2>2, <2>3
<1>3. ASSUME NEW t \in Threads, MakeNode(t)  PROVE DirsInv'
  <2>1. Node(cycle[t]) \in KnownNodes
    BY DEF KnownNodes
  <2>. QED  BY <1>3, <2>1 DEF MakeNode, Goto, From, Places, Name
<1>4. ASSUME NEW t \in Threads, Store(t)  PROVE DirsInv'
  <2>1. cache' \in [Procs -> [0..(Slots - 1) -> KnownNodes]]
    BY <1>4, SlotInRange, CycleDirsAssumption DEF Store
  <2>. QED  BY <1>4, <2>1 DEF Store, Goto, From, Places, Name
<1>5. ASSUME NEW t \in Threads, NoFile(t)  PROVE DirsInv'
  BY <1>5, OverInv DEF NoFile, Name
<1>6. ASSUME NEW t \in Threads, MakeDir(t)  PROVE DirsInv'
  <2>1. Name(t) = DateFromCycle(cycle[t])
    BY <1>6 DEF MakeDir, From, Name, Node
  <2>2. dirs' \subseteq Known
    BY <1>6, <2>1 DEF MakeDir, Known
  <2>. QED  BY <1>6, <2>2 DEF MakeDir, Goto, From, Places, Name
<1>7. ASSUME NEW t \in Threads, MakeFile(t)  PROVE DirsInv'
  <2>1. Name(t) = DateFromCycle(cycle[t]) /\ Name(t) \in dirs
    BY <1>7 DEF MakeFile, From, Name, Node
  <2>2. files' \subseteq Known \X Cycles
    BY <1>7, <2>1 DEF MakeFile, Known
  <2>3. \A f \in files' : f[1] = DateFromCycle(f[2]) /\ f[1] \in dirs'
    BY <1>7, <2>1 DEF MakeFile
  <2>. QED  BY <1>7, <2>2, <2>3, OverInv DEF MakeFile, Name
<1>8. ASSUME NEW t \in Threads, NEW place \in {"first", "last"}, List(t, place)
      PROVE  DirsInv'
  BY <1>8 DEF List, Goto, From, Places, Name
<1>9. ASSUME NEW t \in Threads, EndOfList(t)  PROVE DirsInv'
  <2>1. PICK S \in Listed(t) :
          \/ /\ Goto(t, "found_first")
             /\ found' = [found EXCEPT ![t] = FirstOf(S)]
          \/ /\ Goto(t, "found_last")
             /\ found' = [found EXCEPT ![t] = LastOf(S)]
    BY <1>9 DEF EndOfList
  <2>2. S \in SUBSET Known
    BY DEF Listed
  <2>3. LastOf(S) \in Cycles \cup {-1} \cup Foreign
    BY <2>2, LastOfProperties, KnownName
  <2>4. FirstOf(S) \in Cycles \cup {-1} \cup Foreign
    <3>1. CASE S = {}
      BY <3>1 DEF FirstOf
    <3>2. CASE S # {}
      BY <2>2, <3>2, FirstOfProperties, KnownName
    <3>. QED  BY <3>1, <3>2
  <2>5. found' \in [Threads -> Cycles \cup {-1} \cup Foreign]
    BY <2>1, <2>3, <2>4
  <2>6. /\ pc' \in [Threads -> Places]
        /\ \A u \in Threads : pc'[u] \in {"store", "dir", "file"} => pc'[u] = pc[u]
    BY <2>1 DEF Goto, Places
  <2>. QED  BY <1>9, <2>5, <2>6 DEF EndOfList, Name
<1>10. ASSUME NEW t \in Threads, Return(t)  PROVE DirsInv'
  BY <1>10, OverInv DEF Return, Name
<1>11. ASSUME NEW p \in Procs, Crash(p)  PROVE DirsInv'
  <2>1. cache' \in [Procs -> [0..(Slots - 1) -> KnownNodes]]
    BY <1>11 DEF Crash, KnownNodes
  <2>. QED  BY <1>11, <2>1, OverInv DEF Crash, Name
<1>12. ASSUME Tick  PROVE DirsInv'
  BY <1>12, CycleDirsAssumption DEF Tick, Cycles, Name
<1>13. ASSUME Stray  PROVE DirsInv'
  BY <1>13 DEF Stray, Known, Name
<1>14. ASSUME UNCHANGED vars  PROVE DirsInv'
  BY <1>14 DEF vars, Name
<1>. QED
  BY <1>1, <1>2, <1>3, <1>4, <1>5, <1>6, <1>7, <1>8, <1>9, <1>10, <1>11, <1>12,
     <1>13, <1>14
     DEF Next, ThreadStep

LEMMA DirsInvInit == Init => DirsInv
BY FirstIsCycle DEF Init, DirsInv, Places, KnownNodes, Known

LEMMA DirsInvType == DirsInv => DirsTypeOK
<1>. SUFFICES ASSUME DirsInv  PROVE DirsTypeOK
  OBVIOUS
<1>1. KnownNodes \subseteq Nodes \cup {NoNode}
  BY NodeType DEF KnownNodes
<1>2. Known \subseteq Names
  BY NodeType, StraysAssumption DEF Known
<1>. QED  BY <1>1, <1>2 DEF DirsInv, DirsTypeOK, Foreign

-----------------------------------------------------------------------------
(* Every variable keeps its type, whatever the number of threads, cycles   *)
(* and slots of the formatter's cache.                                     *)
THEOREM DirsTypeCorrect == Spec => []DirsTypeOK
BY DirsInvInit, DirsInvInductive, DirsInvType, PTL DEF Spec

(* A file is always in the directory of its own cycle, and the directory's *)
(* name leads back to this cycle, though threads overwrite each other's    *)
(* nodes in the cache: a node carries the cycle it belongs to.             *)
THEOREM OwnDirectoryCorrect == Spec => []OwnDirectory
<1>1. DirsInv => OwnDirectory
  BY NodeType, NameLeadsBack DEF DirsInv, OwnDirectory
<1>. QED  BY <1>1, DirsInvInit, DirsInvInductive, PTL DEF Spec

-----------------------------------------------------------------------------
(* The listings.  The directories only become more, so that what holds of  *)
(* the result when the listing ends holds for as long as it is used.       *)

LEMMA FirstOfFinds ==
    ASSUME NEW S \in SUBSET Known, NEW D, S \subseteq D, D \cap Strays = {},
           NEW early \in SUBSET S
    PROVE  IF FirstOf(S) = -1 THEN early = {}
           ELSE /\ FirstOf(S) \in CyclesIn(D)
                /\ \A c \in CyclesIn(early) : FirstOf(S) <= c
<1>1. CASE S = {}
  BY <1>1 DEF FirstOf
<1>2. CASE S # {}
  <2>1. PICK n \in S : FirstOf(S) = CycleFromDate(n)
    BY <1>2, FirstOfProperties
  <2>2. FirstOf(S) \in Cycles /\ n = DateFromCycle(FirstOf(S))
    BY <2>1, KnownName
  <2>3. FirstOf(S) # -1
    BY <2>2, CycleDirsAssumption DEF Cycles
  <2>4. FirstOf(S) \in CyclesIn(D)
    BY <2>2 DEF CyclesIn
  <2>5. ASSUME NEW c \in CyclesIn(early)  PROVE FirstOf(S) <= c
    <3>1. DateFromCycle(c) \in S /\ c \in Cycles
      BY DEF CyclesIn
    <3>2. CycleFromDate(DateFromCycle(c)) = c
      BY <3>1, NodeType, NameLeadsBack
    <3>. QED  BY <1>2, <3>1, <3>2, FirstOfProperties
  <2>. QED  BY <2>3, <2>4, <2>5
<1>. QED  BY <1>1, <1>2

\* What find_last_cycle may give with the directories D.
LastIn(c, D) ==
    \/ c = -1 \/ c \in CyclesIn(D)
    \/ c >= 0 /\ \E n \in D \cap Strays : Readable(n) /\ CycleFromDate(n) = c

LEMMA LastOfFinds ==
    ASSUME NEW S \in SUBSET Known, NEW D, S \subseteq D, NEW early \in SUBSET S
    PROVE  /\ \A c \in CyclesIn(early) : c <= LastOf(S)
           /\ LastIn(LastOf(S), D)
<1>1. ASSUME LastOf(S) # -1
      PROVE  \/ LastOf(S) \in CyclesIn(D)
             \/ /\ LastOf(S) >= 0
                /\ \E n \in D \cap Strays : Readable(n) /\ CycleFromDate(n) = LastOf(S)
  <2>1. PICK n \in S : LastOf(S) = CycleFromDate(n)
    BY <1>1, LastOfProperties
  <2>2. LastOf(S) >= 0
    <3>1. LastOf(S) \in Int /\ -1 <= LastOf(S)
      BY <2>1, LastOfProperties, KnownName
    <3>. QED  BY <1>1, <3>1
  <2>3. Readable(n) /\ (n \notin Strays => LastOf(S) \in Cycles /\ n = DateFromCycle(LastOf(S)))
    BY <1>1, <2>1, KnownName
  <2>. QED  BY <2>1, <2>2, <2>3 DEF CyclesIn
<1>2. ASSUME NEW c \in CyclesIn(early)  PROVE c <= LastOf(S)
  <2>1. DateFromCycle(c) \in S /\ c \in Cycles
    BY DEF CyclesIn
  <2>2. CycleFromDate(DateFromCycle(c)) = c
    BY <2>1, NodeType, NameLeadsBack
  <2>. QED  BY <2>1, <2>2, LastOfProperties
<1>. QED  BY <1>1, <1>2 DEF LastIn

\* A step that ends no listing leaves both properties alone.
LEMMA ListingsKept ==
    ASSUME dirs \subseteq dirs',
           \A t \in Threads : pc'[t] \in {"found_first", "found_last"} =>
               pc'[t] = pc[t] /\ found'[t] = found[t] /\ seen'[t] = seen[t]
    PROVE  /\ FirstCycleFound => FirstCycleFound'
           /\ LastCycleFound => LastCycleFound'
<1>1. ASSUME NEW c, c \in CyclesIn(dirs)  PROVE c \in CyclesIn(dirs')
  BY <1>1 DEF CyclesIn
<1>2. FirstCycleFound => FirstCycleFound'
  <2>. SUFFICES ASSUME FirstCycleFound, NEW t \in Threads,
                       pc'[t] = "found_first", dirs' \cap Strays = {}
                PROVE  IF found'[t] = -1 THEN seen'[t] = {}
                       ELSE /\ found'[t] \in CyclesIn(dirs')
                            /\ \A c \in CyclesIn(seen'[t]) : found'[t] <= c
    BY DEF FirstCycleFound, CyclesIn
  <2>1. pc[t] = "found_first" /\ dirs \cap Strays = {}
    OBVIOUS
  <2>. QED  BY <1>1, <2>1 DEF FirstCycleFound
<1>3. LastCycleFound => LastCycleFound'
  <2>. SUFFICES ASSUME LastCycleFound, NEW t \in Threads, pc'[t] = "found_last"
                PROVE  /\ \A c \in CyclesIn(seen'[t]) : c <= found'[t]
                       /\ LastIn(found'[t], dirs')
    BY DEF LastCycleFound, CyclesIn, LastIn, Readable, CycleFromDate
  <2>1. LastIn(found[t], dirs) /\ \A c \in CyclesIn(seen[t]) : c <= found[t]
    BY DEF LastCycleFound, LastIn
  <2>. QED  BY <1>1, <2>1 DEF LastIn
<1>. QED  BY <1>2, <1>3

ListingsFound == FirstCycleFound /\ LastCycleFound

LEMMA ListingsFoundInductive ==
    DirsInv /\ ListingsFound /\ [Next]_vars => ListingsFound'
<1>. SUFFICES ASSUME DirsInv, ListingsFound, [Next]_vars  PROVE ListingsFound'
  OBVIOUS
<1>1. ASSUME NEW t \in Threads, EndOfList(t)  PROVE ListingsFound'
  <2>1. PICK S \in Listed(t) :
          \/ /\ pc' = [pc EXCEPT ![t] = "found_first"]
             /\ found' = [found EXCEPT ![t] = FirstOf(S)]
          \/ /\ pc' = [pc EXCEPT ![t] = "found_last"]
             /\ found' = [found EXCEPT ![t] = LastOf(S)]
    BY <1>1 DEF EndOfList, Goto
  <2>2. S \in SUBSET Known /\ S \subseteq dirs /\ seen[t] \in SUBSET S
    BY DEF Listed, DirsInv
  <2>3. dirs' = dirs /\ seen' = seen
    BY <1>1 DEF EndOfList
  <2>4. FirstCycleFound'
    <3>. SUFFICES ASSUME NEW u \in Threads,
                         pc'[u] = "found_first", dirs \cap Strays = {}
                  PROVE  IF found'[u] = -1 THEN seen[u] = {}
                         ELSE /\ found'[u] \in CyclesIn(dirs)
                              /\ \A c \in CyclesIn(seen[u]) : found'[u] <= c
      BY <2>3 DEF FirstCycleFound, CyclesIn
    <3>1. CASE u = t
      <4>1. found'[t] = FirstOf(S)
        BY <2>1, <3>1 DEF DirsInv
      <4>. QED  BY <2>2, <3>1, <4>1, FirstOfFinds
    <3>2. CASE u # t
      BY <2>1, <3>2 DEF ListingsFound, FirstCycleFound, DirsInv
    <3>. QED  BY <3>1, <3>2
  <2>5. LastCycleFound'
    <3>. SUFFICES ASSUME NEW u \in Threads, pc'[u] = "found_last"
                  PROVE  /\ \A c \in CyclesIn(seen[u]) : c <= found'[u]
                         /\ LastIn(found'[u], dirs)
      BY <2>3 DEF LastCycleFound, CyclesIn, LastIn
    <3>1. CASE u = t
      <4>1. found'[t] = LastOf(S)
        BY <2>1, <3>1 DEF DirsInv
      <4>. QED  BY <2>2, <3>1, <4>1, LastOfFinds
    <3>2. CASE u # t
      BY <2>1, <3>2 DEF ListingsFound, LastCycleFound, DirsInv, LastIn
    <3>. QED  BY <3>1, <3>2
  <2>. QED  BY <2>4, <2>5 DEF ListingsFound
<1>2. ASSUME \A t \in Threads : ~ EndOfList(t)  PROVE ListingsFound'
  <2>1. dirs \subseteq dirs'
    BY <1>2 DEF Next, ThreadStep, vars, Open, Load, MakeNode, Store, NoFile, MakeDir,
                MakeFile, List, Return, Crash, Tick, Stray
  <2>. DEFINE Kept == \A u \in Threads : pc'[u] \in {"found_first", "found_last"} =>
                        pc'[u] = pc[u] /\ found'[u] = found[u] /\ seen'[u] = seen[u]
  <2>2. Kept
    <3>1. ASSUME NEW t \in Threads, NEW c \in Cycles, NEW w \in BOOLEAN, Open(t, c, w)
          PROVE  Kept
      BY <3>1 DEF DirsInv, Open, Goto
    <3>2. ASSUME NEW t \in Threads, Load(t) \/ MakeNode(t) \/ Store(t) \/ MakeDir(t)
          PROVE  Kept
      BY <3>2 DEF DirsInv, Load, MakeNode, Store, MakeDir, Goto
    <3>3. ASSUME NEW T, Over(T)  PROVE Kept
      BY <3>3 DEF DirsInv, Over
    <3>4. ASSUME NEW t \in Threads, NEW place \in {"first", "last"}, List(t, place)
          PROVE  Kept
      BY <3>4 DEF DirsInv, List, Goto
    <3>5. ASSUME Tick \/ Stray \/ UNCHANGED vars  PROVE Kept
      BY <3>5 DEF Tick, Stray, vars
    <3>. QED
      BY <1>2, <3>1, <3>2, <3>3, <3>4, <3>5
         DEF Next, ThreadStep, NoFile, MakeFile, Return, Crash
  <2>. QED  BY <2>1, <2>2, ListingsKept DEF ListingsFound
<1>. QED  BY <1>1, <1>2

LEMMA ListingsFoundInit == Init => ListingsFound
BY DEF Init, ListingsFound, FirstCycleFound, LastCycleFound

(* find_first_cycle finds a cycle that has a directory, and the first of   *)
(* those that had one when it was called, if nobody else makes directories *)
(* in the chronicle.                                                       *)
THEOREM FirstCycleFoundCorrect == Spec => []FirstCycleFound
<1>1. ListingsFound => FirstCycleFound
  BY DEF ListingsFound
<1>. QED
  BY <1>1, DirsInvInit, DirsInvInductive, ListingsFoundInit, ListingsFoundInductive,
     PTL DEF Spec

(* find_last_cycle never gives a cycle before the last that had a          *)
(* directory when it was called.  What it gives has a directory, unless    *)
(* somebody else's directory there reads as a later cycle; nothing is      *)
(* assumed of these but that they have the characters of a name.           *)
THEOREM LastCycleFoundCorrect == Spec => []LastCycleFound
<1>1. ListingsFound => LastCycleFound
  BY DEF ListingsFound
<1>. QED
  BY <1>1, DirsInvInit, DirsInvInductive, ListingsFoundInit, ListingsFoundInductive,
     PTL DEF Spec
=============================================================================
