------------------------ MODULE VanillaIndexRefines ------------------------
(***************************************************************************)
(* Proof that the index files implement the logs of ChronicleLog, for any  *)
(* number of appenders and processes and any size of the files: every step *)
(* of VanillaIndex is a step of the abstract log or leaves it alone, and   *)
(* the one that appends is the successful compare-and-swap.                *)
(***************************************************************************)
EXTENDS VanillaIndexProofs, FiniteSetTheorems, SequenceTheorems

\* The slots of a cycle that hold an entry, and where a slot is in a cycle.
Occupied(c) == {x \in Files \X Slots : slots[c][x[1]][x[2]] # NoEntry}
Place(f, s) == f * SlotsPerFile + s

\* The first n slots of a cycle.
Prefix(n) == {x \in Files \X Slots : Place(x[1], x[2]) < n}

EntryAt(c, i) == slots[c][(i - 1) \div SlotsPerFile][(i - 1) % SlotsPerFile]

LEMMA LogIs ==
    \A c : /\ LogOf(c) = [i \in 1..Cardinality(Occupied(c)) |-> EntryAt(c, i)]
          /\ LogOf(c)' = [i \in 1..Cardinality(Occupied(c)') |-> EntryAt(c, i)']
BY DEF LogOf, Occupied, EntryAt

-----------------------------------------------------------------------------
(* Places count the slots of a cycle: file by file, slot by slot.          *)
LEMMA PlaceBounds ==
    ASSUME NEW f \in Files, NEW s \in Slots
    PROVE  /\ Place(f, s) \in Nat
           /\ Place(f, s) < MaxIndexFiles * SlotsPerFile
           /\ Place(f, s) \div SlotsPerFile = f
           /\ Place(f, s) % SlotsPerFile = s
<1>. DEFINE S == SlotsPerFile
<1>1. /\ S \in Nat \ {0} /\ MaxIndexFiles \in Nat
      /\ f \in Nat /\ s \in 0..(S - 1) /\ f + 1 <= MaxIndexFiles
  BY BoundsAssumption DEF Files, Slots
<1>2. f * S \in Nat /\ (f + 1) * S = f * S + S /\ (f + 1) * S <= MaxIndexFiles * S
  BY <1>1, ProductGrows, Z3
<1>3. Place(f, s) \div S = f /\ Place(f, s) % S = s
  BY <1>1, DivUnique DEF Place
<1>. QED  BY <1>1, <1>2, <1>3 DEF Place

\* The slot at a place.
LEMMA PlaceOf ==
    ASSUME NEW n \in Nat, n < MaxIndexFiles * SlotsPerFile
    PROVE  /\ n \div SlotsPerFile \in Files
           /\ n % SlotsPerFile \in Slots
           /\ Place(n \div SlotsPerFile, n % SlotsPerFile) = n
<1>. DEFINE S == SlotsPerFile
            d == n \div S
            m == n % S
<1>1. S \in Nat \ {0} /\ MaxIndexFiles \in Nat
  BY BoundsAssumption
<1>2. n = d * S + m /\ m \in 0..(S - 1) /\ d \in Int /\ d * S \in Int
  BY <1>1, DivMod
<1>3. d \in Nat
  BY <1>1, Z3
<1>. HIDE DEF d, m
<1>4. d < MaxIndexFiles
  <2>1. MaxIndexFiles <= d => MaxIndexFiles * S <= d * S
    BY <1>1, <1>2, ProductGrows
  <2>. QED  BY <1>1, <1>2, <1>3, <2>1
<1>5. d \in Files /\ m \in Slots /\ Place(d, m) = n
  BY <1>1, <1>2, <1>3, <1>4 DEF Files, Slots, Place
<1>. QED  BY <1>5 DEF d, m

(* Place order is the order of FilledBelow.                                *)
LEMMA PlaceOrder ==
    ASSUME NEW f \in Files, NEW s \in Slots, NEW f1 \in Files, NEW s1 \in Slots
    PROVE  Place(f1, s1) < Place(f, s) <=> f1 < f \/ (f1 = f /\ s1 < s)
<1>. DEFINE S == SlotsPerFile
<1>1. /\ S \in Nat \ {0} /\ f \in Nat /\ f1 \in Nat
      /\ s \in 0..(S - 1) /\ s1 \in 0..(S - 1)
  BY BoundsAssumption DEF Files, Slots
<1>2. /\ f * S \in Nat /\ f1 * S \in Nat
      /\ (f + 1) * S = f * S + S /\ (f1 + 1) * S = f1 * S + S
  BY <1>1, Z3
<1>3. /\ f + 1 <= f1 => (f + 1) * S <= f1 * S
      /\ f1 + 1 <= f => (f1 + 1) * S <= f * S
  BY <1>1, ProductGrows
<1>4. CASE f1 = f
  BY <1>1, <1>2, <1>4 DEF Place
<1>5. CASE f1 < f
  BY <1>1, <1>2, <1>3, <1>5 DEF Place
<1>6. CASE f < f1
  BY <1>1, <1>2, <1>3, <1>6 DEF Place
<1>. QED  BY <1>1, <1>4, <1>5, <1>6

(* The first n slots of a cycle are n slots.                               *)
LEMMA PrefixCount ==
    ASSUME NEW n \in 0..(MaxIndexFiles * SlotsPerFile)
    PROVE  Cardinality(Prefix(n)) = n
<1>. DEFINE S == SlotsPerFile
            g == [i \in 1..n |-> <<(i - 1) \div S, (i - 1) % S>>]
<1>0. MaxIndexFiles * S \in Nat /\ n \in Nat
  BY BoundsAssumption, Z3
<1>1. ASSUME NEW i \in 1..n
      PROVE  /\ g[i] \in Files \X Slots
             /\ Place(g[i][1], g[i][2]) = i - 1
  <2>1. i - 1 \in Nat /\ i - 1 < MaxIndexFiles * S
    BY <1>0
  <2>. QED  BY <2>1, PlaceOf
<1>. HIDE DEF S
<1>2. g \in [1..n -> Prefix(n)]
  BY <1>0, <1>1 DEF Prefix
<1>3. \A i, j \in 1..n : g[i] = g[j] => i = j
  <2>. SUFFICES ASSUME NEW i \in 1..n, NEW j \in 1..n, g[i] = g[j]
                PROVE  i = j
    OBVIOUS
  <2>1. i - 1 = j - 1
    <3>. HIDE DEF g
    <3>. QED  BY <1>1
  <2>. QED  BY <1>0, <2>1
<1>4. \A x \in Prefix(n) : \E i \in 1..n : g[i] = x
  <2>. SUFFICES ASSUME NEW x \in Prefix(n)  PROVE \E i \in 1..n : g[i] = x
    OBVIOUS
  <2>1. /\ x[1] \in Files /\ x[2] \in Slots /\ x = <<x[1], x[2]>>
        /\ Place(x[1], x[2]) < n
    BY DEF Prefix
  <2>. DEFINE i == Place(x[1], x[2]) + 1
  <2>2. /\ Place(x[1], x[2]) \in Nat
        /\ Place(x[1], x[2]) \div S = x[1] /\ Place(x[1], x[2]) % S = x[2]
    BY <2>1, PlaceBounds DEF S
  <2>3. i \in 1..n /\ i - 1 = Place(x[1], x[2])
    BY <1>0, <2>1, <2>2
  <2>4. g[i] = x
    BY <2>1, <2>2, <2>3
  <2>. QED  BY <2>3, <2>4
<1>5. g \in Bijection(1..n, Prefix(n))
  <2>. HIDE DEF g
  <2>. QED  BY <1>2, <1>3, <1>4 DEF Bijection, Injection, IsInjective, Surjection
<1>6. ExistsBijection(1..n, Prefix(n))
  BY <1>5 DEF ExistsBijection
<1>7. IsFiniteSet(1..n) /\ Cardinality(1..n) = n
  BY <1>0, FS_Interval
<1>. QED  BY <1>6, <1>7, FS_Bijection

-----------------------------------------------------------------------------
LEMMA AppendIs ==
    ASSUME NEW T, NEW log \in Seq(T), NEW e \in T, NEW n \in Nat, Len(log) = n
    PROVE  Append(log, e) = [i \in 1..(n + 1) |-> IF i \in 1..n THEN log[i] ELSE e]
<1>1. /\ Append(log, e) \in Seq(T) /\ Len(Append(log, e)) = n + 1
      /\ \A i \in 1..n : Append(log, e)[i] = log[i]
      /\ Append(log, e)[n + 1] = e
  BY AppendProperties
<1>2. Append(log, e) \in [1..(n + 1) -> T]
  BY <1>1, LenProperties
<1>3. ASSUME NEW i \in 1..(n + 1)
      PROVE  Append(log, e)[i] = IF i \in 1..n THEN log[i] ELSE e
  <2>1. i \in 1..n \/ i = n + 1
    OBVIOUS
  <2>2. n + 1 \notin 1..n
    OBVIOUS
  <2>. QED  BY <1>1, <2>1, <2>2
<1>. QED  BY <1>2, <1>3

(* A step that leaves the entries alone leaves the logs alone.             *)
LEMMA LogsKept ==
    ASSUME UNCHANGED slots
    PROVE  UNCHANGED [c \in Cycles |-> LogOf(c)]
BY DEF LogOf

(* The CAS of an excerpt appends it to the log of its cycle, and to no     *)
(* other: all that is in front of the slot is filled (Sweep), nothing      *)
(* behind it is (NoGaps), so the slot is the end of the log.               *)
THEOREM CasAppends ==
    ASSUME TypeInv, SweepInv, NEW a \in Appenders, CasSucceeds(a),
           NEW c \in Cycles, cyc[a] = c
    PROVE  LogOf(c)' = Append(LogOf(c), Ticket(a))
<1>. DEFINE S == SlotsPerFile
<1>1. PICK f \in Files, s \in Slots :
        /\ slots[c][f][s] = NoEntry /\ slots'[c][f][s] = Ticket(a) /\ Ticket(a) # NoEntry
        /\ \A f1 \in Files, s1 \in Slots :
             <<f1, s1>> # <<f, s>> => slots'[c][f1][s1] = slots[c][f1][s1]
        /\ FilledBelow(slots, c, f, s)
  <2>1. FilledBelow(slots, c, regions[cur[a]].file, pos[a])
    BY DEF SweepInv, Sweep, CasSucceeds
  <2>. QED  BY <2>1, CasEffect
<1>2. PICK n \in Nat : n = Place(f, s)
  BY PlaceBounds
<1>3. n < MaxIndexFiles * S /\ n \div S = f /\ n % S = s
  BY <1>2, PlaceBounds
<1>4. ASSUME NEW f1 \in Files, NEW s1 \in Slots
      PROVE  /\ slots[c][f1][s1] # NoEntry <=> Place(f1, s1) < n
             /\ slots'[c][f1][s1] # NoEntry <=> Place(f1, s1) < n + 1
             /\ <<f1, s1>> = <<f, s>> <=> Place(f1, s1) = n
  <2>0. Place(f1, s1) \in Nat
    BY PlaceBounds
  <2>1. Place(f1, s1) < n => slots[c][f1][s1] # NoEntry
    BY <1>1, <1>2, PlaceOrder DEF FilledBelow
  <2>2. <<f1, s1>> = <<f, s>> <=> Place(f1, s1) = n
    BY <1>2, <1>3, PlaceBounds
  <2>3. slots[c][f1][s1] # NoEntry => ~ (n < Place(f1, s1))
    BY <1>1, <1>2, PlaceOrder DEF SweepInv, NoGaps, FilledBelow
  <2>4. slots[c][f1][s1] # NoEntry => <<f1, s1>> # <<f, s>>
    BY <1>1
  <2>5. slots[c][f1][s1] # NoEntry <=> Place(f1, s1) < n
    BY <2>0, <2>1, <2>2, <2>3, <2>4
  <2>6. slots'[c][f1][s1] # NoEntry <=> Place(f1, s1) < n + 1
    BY <1>1, <2>0, <2>2, <2>5
  <2>. QED  BY <2>2, <2>5, <2>6
<1>5. Occupied(c) = Prefix(n)
  BY <1>4 DEF Occupied, Prefix
<1>6. Occupied(c)' = Prefix(n + 1)
  BY <1>4 DEF Occupied, Prefix
<1>7. Cardinality(Occupied(c)) = n /\ Cardinality(Occupied(c)') = n + 1
  <2>1. MaxIndexFiles * S \in Nat
    BY BoundsAssumption, Z3
  <2>2. n \in 0..(MaxIndexFiles * S) /\ n + 1 \in 0..(MaxIndexFiles * S)
    BY <1>3, <2>1
  <2>. QED  BY <1>5, <1>6, <2>2, PrefixCount
<1>8. /\ LogOf(c) = [i \in 1..n |-> EntryAt(c, i)]
      /\ LogOf(c)' = [i \in 1..(n + 1) |-> EntryAt(c, i)']
  BY <1>7, LogIs
<1>9. ASSUME NEW i \in 1..n
      PROVE  EntryAt(c, i) \in Tickets /\ EntryAt(c, i)' = EntryAt(c, i)
  <2>1. i - 1 \in Nat /\ i - 1 < n /\ i - 1 < MaxIndexFiles * S
    <3>1. MaxIndexFiles * S \in Nat
      BY BoundsAssumption, Z3
    <3>. QED  BY <1>3, <3>1
  <2>2. PICK f1 \in Files, s1 \in Slots :
          f1 = (i - 1) \div S /\ s1 = (i - 1) % S /\ Place(f1, s1) = i - 1
    BY <2>1, PlaceOf
  <2>3. slots[c][f1][s1] # NoEntry /\ slots'[c][f1][s1] = slots[c][f1][s1]
    BY <1>1, <1>4, <2>1, <2>2
  <2>4. slots[c][f1][s1] \in Tickets
    BY <2>3 DEF TypeInv, TypeOK
  <2>. QED  BY <2>2, <2>3, <2>4 DEF EntryAt
<1>10. EntryAt(c, n + 1)' = Ticket(a) /\ Ticket(a) \in Tickets
  <2>1. EntryAt(c, n + 1)' = slots'[c][f][s]
    BY <1>3 DEF EntryAt
  <2>2. slots'[c][f][s] \in Tickets
    BY <1>1, LocalTypeInv DEF TypeInv, TypeOK
  <2>. QED  BY <1>1, <2>1, <2>2
<1>11. LogOf(c) \in Seq(Tickets) /\ Len(LogOf(c)) = n
  BY <1>8, <1>9
<1>. QED
  <2>1. Append(LogOf(c), Ticket(a)) = [i \in 1..(n + 1) |->
            IF i \in 1..n THEN LogOf(c)[i] ELSE Ticket(a)]
    BY <1>10, <1>11, AppendIs
  <2>2. \A i \in 1..(n + 1) :
          EntryAt(c, i)' = IF i \in 1..n THEN LogOf(c)[i] ELSE Ticket(a)
    BY <1>8, <1>9, <1>10
  <2>. QED  BY <1>8, <2>1, <2>2

-----------------------------------------------------------------------------
(* What the threads' labels mean to the abstract log.                      *)
Meaning(label) ==
    IF label = "idle" THEN "none" ELSE IF label \in Recording THEN "logged" ELSE "open"

LEMMA StateIs ==
    /\ TypeInv => \A a \in Appenders : StateOf(a) = Meaning(pc[a])
    /\ TypeInv' => \A a \in Appenders : StateOf(a)' = Meaning(pc'[a])
<1>1. ASSUME NEW label \in Labels
      PROVE  Meaning(label) =
               CASE label = "idle" -> "none"
                 [] label \in {"open"} \cup Claiming -> "open"
                 [] label \in Recording -> "logged"
  BY DEF Meaning, Labels, Claiming, Recording
<1>. QED  BY <1>1 DEF StateOf, TypeInv, TypeOK

LEMMA InitImplements == Init => Log!Init
<1>. SUFFICES ASSUME Init  PROVE Log!Init
  OBVIOUS
<1>1. ASSUME NEW c \in Cycles  PROVE LogOf(c) = <<>>
  <2>1. Occupied(c) = {}
    BY <1>1 DEF Occupied, Init
  <2>2. Cardinality(Occupied(c)) = 0
    BY <2>1, FS_EmptySet
  <2>3. LogOf(c) = [i \in 1..0 |-> EntryAt(c, i)]
    BY <2>2, LogIs
  <2>. QED  BY <2>3
<1>2. [c \in Cycles |-> LogOf(c)] = [c \in 0..MaxCycle |-> <<>>]
  BY <1>1 DEF Cycles
<1>3. [a \in Appenders |-> StateOf(a)] = [a \in Appenders |-> "none"]
  BY InitTypeInv, StateIs DEF Init, Meaning
<1>. QED  BY <1>2, <1>3 DEF Init, Log!Init

LEMMA StartImplements ==
    ASSUME TypeInv, TypeInv', NEW a \in Appenders, StartExcerpt(a)
    PROVE  Log!Start(a)
<1>1. UNCHANGED [c \in Cycles |-> LogOf(c)]
  BY LogsKept DEF StartExcerpt, disk
<1>2. StateOf(a) \in {"none", "open"}
  BY StateIs DEF Meaning, StartExcerpt, Recording
<1>3. cyc' = [cyc EXCEPT ![a] = now]
  BY DEF StartExcerpt, NewCycle, TypeInv, TypeOK
<1>4. [b \in Appenders |-> StateOf(b)]'
         = [[b \in Appenders |-> StateOf(b)] EXCEPT ![a] = "open"]
  BY StateIs DEF StartExcerpt, Goto, TypeInv, TypeOK, Meaning, Recording
<1>. QED  BY <1>1, <1>2, <1>3, <1>4 DEF StartExcerpt, Log!Start

LEMMA CasImplements ==
    ASSUME TypeInv, TypeInv', SweepInv, NEW a \in Appenders, CasSucceeds(a)
    PROVE  Log!Publish(a)
<1>. DEFINE L == [d \in Cycles |-> LogOf(d)]
<1>1. PICK c \in Cycles : c = cyc[a]
  BY CasEffect
<1>2. LogOf(c)' = Append(LogOf(c), Ticket(a))
  BY <1>1, CasAppends
<1>3. ASSUME NEW d \in Cycles, d # c  PROVE LogOf(d)' = LogOf(d)
  <2>1. slots' = [slots EXCEPT ![c][regions[cur[a]].file][pos[a]] = Ticket(a)]
    BY <1>1, CasEffect DEF CasSucceeds
  <2>2. slots'[d] = slots[d]
    BY <1>3, <2>1
  <2>. QED  BY <2>2 DEF LogOf
<1>4. L' = [L EXCEPT ![c] = Append(@, Ticket(a))]
  BY <1>2, <1>3
<1>5. [b \in Appenders |-> StateOf(b)]'
         = [[b \in Appenders |-> StateOf(b)] EXCEPT ![a] = "logged"]
  BY StateIs DEF CasSucceeds, Goto, TypeInv, TypeOK, Meaning, Recording
<1>6. StateOf(a) = "open"
  BY StateIs DEF Meaning, CasSucceeds, Recording
<1>7. UNCHANGED <<now, cyc, seq>>
  BY DEF CasSucceeds, registers
<1>. QED  BY <1>1, <1>4, <1>5, <1>6, <1>7 DEF Log!Publish, Ticket

(* The steps of a thread that neither open, publish nor end an excerpt.    *)
LEMMA SilentImplements ==
    ASSUME TypeInv, TypeInv', NEW a \in Appenders,
           \/ BeginFinish(a) \/ IndexFor(a) \/ AppendThrows(a) \/ LoadPosition(a)
           \/ CasFails(a) \/ RegionFull(a) \/ StorePosition(a)
    PROVE  UNCHANGED Log!vars
<1>1. /\ UNCHANGED <<slots, now, cyc, seq>>
      /\ \E label \in Labels : pc' = [pc EXCEPT ![a] = label]
                                /\ Meaning(label) = Meaning(pc[a])
  <2>1. CASE BeginFinish(a)
    BY <2>1 DEF BeginFinish, MayFinish, Goto, disk, Labels, Meaning, Recording
  <2>2. CASE IndexFor(a)
    BY <2>2 DEF IndexFor, Goto, Labels, Meaning, Recording
  <2>3. CASE AppendThrows(a) \/ LoadPosition(a)
    BY <2>3 DEF AppendThrows, LoadPosition, Goto, disk, Labels, Meaning, Recording
  <2>4. CASE CasFails(a)
    <3>1. pc' = [pc EXCEPT ![a] = pc[a]]
      BY <2>4 DEF CasFails, TypeInv, TypeOK
    <3>. QED  BY <2>4, <3>1 DEF CasFails, disk, Labels
  <2>5. CASE RegionFull(a) \/ StorePosition(a)
    BY <2>5 DEF RegionFull, StorePosition, Goto, disk, Labels, Meaning, Recording
  <2>. QED  BY <2>1, <2>2, <2>3, <2>4, <2>5
<1>2. UNCHANGED [c \in Cycles |-> LogOf(c)]
  BY <1>1, LogsKept
<1>3. \A b \in Appenders : Meaning(pc'[b]) = Meaning(pc[b])
  BY <1>1 DEF TypeInv, TypeOK
<1>4. UNCHANGED [b \in Appenders |-> StateOf(b)]
  BY <1>3, StateIs
<1>. QED  BY <1>1, <1>2, <1>4 DEF Log!vars

(* finish() returns when the chronicle's last written index covers it.     *)
LEMMA RecordImplements ==
    ASSUME TypeInv, TypeInv', NEW a \in Appenders, LoadLwi(a) \/ CasLwi(a)
    PROVE  Log!Return(a) \/ UNCHANGED Log!vars
<1>1. /\ UNCHANGED <<slots, now, cyc, seq>> /\ pc[a] \in Recording
      /\ \E label \in {"idle"} \cup Recording : pc' = [pc EXCEPT ![a] = label]
  BY DEF LoadLwi, CasLwi, Goto, disk, Recording
<1>2. UNCHANGED [c \in Cycles |-> LogOf(c)]
  BY <1>1, LogsKept
<1>3. StateOf(a) = "logged"
  BY <1>1, StateIs DEF Meaning, Recording
<1>4. CASE pc' = [pc EXCEPT ![a] = "idle"]
  <2>1. [b \in Appenders |-> StateOf(b)]'
           = [[b \in Appenders |-> StateOf(b)] EXCEPT ![a] = "none"]
    BY <1>4, StateIs DEF TypeInv, TypeOK, Meaning
  <2>. QED  BY <1>1, <1>2, <1>3, <2>1 DEF Log!Return
<1>5. CASE \E label \in Recording : pc' = [pc EXCEPT ![a] = label]
  <2>1. UNCHANGED [b \in Appenders |-> StateOf(b)]
    <3>1. \A b \in Appenders : Meaning(pc'[b]) = Meaning(pc[b])
      BY <1>1, <1>5 DEF TypeInv, TypeOK, Meaning, Recording
    <3>. QED  BY <3>1, StateIs
  <2>. QED  BY <1>1, <1>2, <2>1 DEF Log!vars
<1>. QED  BY <1>1, <1>4, <1>5

LEMMA RestartImplements ==
    ASSUME TypeInv, TypeInv', NEW A \in SUBSET Appenders, Fresh(A), UNCHANGED <<now, disk, seq>>
    PROVE  Log!Restart(A)
<1>1. UNCHANGED [c \in Cycles |-> LogOf(c)]
  BY LogsKept DEF disk
<1>2. [b \in Appenders |-> StateOf(b)]'
         = [b \in Appenders |-> IF b \in A THEN "none"
                                ELSE [d \in Appenders |-> StateOf(d)][b]]
  <2>1. \A b \in Appenders : StateOf(b)' = IF b \in A THEN "none" ELSE StateOf(b)
    BY StateIs DEF Fresh, Meaning
  <2>. QED  BY <2>1
<1>. QED  BY <1>1, <1>2 DEF Fresh, Log!Restart

LEMMA NextImplements ==
    TypeInv /\ TypeInv' /\ SweepInv /\ [Next]_vars => [Log!Next]_(Log!vars)
<1>. SUFFICES ASSUME TypeInv, TypeInv', SweepInv, [Next]_vars
              PROVE  Log!Next \/ UNCHANGED Log!vars
  OBVIOUS
<1>1. CASE UNCHANGED vars
  <2>1. UNCHANGED [c \in Cycles |-> LogOf(c)]
    BY <1>1, LogsKept DEF vars, disk
  <2>2. UNCHANGED [b \in Appenders |-> StateOf(b)]
    BY <1>1 DEF vars, StateOf
  <2>. QED  BY <1>1, <2>1, <2>2 DEF vars, registers, Log!vars
<1>2. ASSUME NEW a \in Appenders, StartExcerpt(a)  PROVE Log!Next
  BY <1>2, StartImplements DEF Log!Next
<1>3. ASSUME NEW a \in Appenders, CasSucceeds(a)  PROVE Log!Next
  BY <1>3, CasImplements DEF Log!Next
<1>4. ASSUME NEW a \in Appenders, LoadLwi(a) \/ CasLwi(a)
      PROVE  Log!Next \/ UNCHANGED Log!vars
  BY <1>4, RecordImplements DEF Log!Next
<1>5. ASSUME NEW a \in Appenders,
             \/ BeginFinish(a) \/ IndexFor(a) \/ AppendThrows(a) \/ LoadPosition(a)
             \/ CasFails(a) \/ RegionFull(a) \/ StorePosition(a)
      PROVE  UNCHANGED Log!vars
  BY <1>5, SilentImplements
<1>6. ASSUME NEW a \in Appenders, CreateAppender(a)  PROVE Log!Next
  BY <1>6, RestartImplements DEF CreateAppender, disk, Log!Next
<1>7. ASSUME NEW p \in Procs, Crash(p)  PROVE Log!Next
  <2>. DEFINE A == {a \in Appenders : ProcOf[a] = p}
  <2>1. A \in SUBSET Appenders /\ Fresh(A) /\ UNCHANGED <<now, disk, seq>>
    BY <1>7 DEF Crash, disk
  <2>. HIDE DEF A
  <2>. QED  BY <2>1, RestartImplements DEF Log!Next
<1>8. ASSUME NEW p \in Procs, Evict(p)  PROVE UNCHANGED Log!vars
  <2>1. UNCHANGED [c \in Cycles |-> LogOf(c)]
    BY <1>8, LogsKept DEF Evict, disk
  <2>2. UNCHANGED [b \in Appenders |-> StateOf(b)]
    BY <1>8 DEF Evict, StateOf
  <2>. QED  BY <1>8, <2>1, <2>2 DEF Evict, registers, Log!vars
<1>9. CASE Tick
  <2>1. UNCHANGED [c \in Cycles |-> LogOf(c)]
    BY <1>9, LogsKept DEF Tick, disk
  <2>2. UNCHANGED [b \in Appenders |-> StateOf(b)]
    BY <1>9 DEF Tick, StateOf
  <2>. QED  BY <1>9, <2>1, <2>2 DEF Tick, registers, Log!Tick, Log!Next
<1>. QED
  BY <1>1, <1>2, <1>3, <1>4, <1>5, <1>6, <1>7, <1>8, <1>9 DEF Next, FinishStep

(* Racing appenders of any number of processes implement the abstract      *)
(* logs, whatever hints they go by and wherever they crash.                *)
THEOREM ImplementsLogCorrect == Spec => ImplementsLog
<1>1. TypeInv /\ TypeInv' /\ SweepInv /\ [Next]_vars => [Log!Next]_(Log!vars)
  BY NextImplements
<1>. QED
  BY <1>1, InitImplements, TypeInvariant, SweepInvariant, PTL
     DEF Spec, ImplementsLog, Log!Spec
=============================================================================
