------------------------ MODULE ExcerptTailerProofs ------------------------
(***************************************************************************)
(* Proofs about ExcerptTailer, for any number of writers, cycles and       *)
(* files, and any sizes.  A tailer that only goes forward (OnlyForward:    *)
(* next_index() and to_start()) reads what was published, in order.  The   *)
(* run TailerJumps shows that the first fails with index() and to_end().   *)
(***************************************************************************)
EXTENDS ExcerptTailer, NumberLemmas, FiniteSetTheorems, FunctionTheorems, SequenceTheorems, TLAPS

(* The owner of the tailer reads on, or from the start again.              *)
OnlyForward == Calls \subseteq {"next_index", "to_start"}

-----------------------------------------------------------------------------
(* Indices.                                                                *)

\* The sizes, as the lemmas need them.
LEMMA Sizes ==
    /\ FirstCycle \in Nat /\ FirstCycle > 0
    /\ MaxIndexFiles \in Nat /\ MaxIndexFiles > 0
    /\ SlotsPerFile \in Nat \ {0} /\ SlotsPerFile > 0
    /\ ExcerptsPerFile \in Nat \ {0}
    /\ MaxCycle \in Nat /\ MaxExcerpts \in Nat
    /\ MaxIndexFiles * SlotsPerFile \in Nat /\ SlotsPerFile <= MaxIndexFiles * SlotsPerFile
    /\ EntriesPerCycle \in Nat \ {0} /\ MaxIndexFiles * SlotsPerFile <= EntriesPerCycle
    /\ \E k \in Nat : EntriesPerCycle = k * SlotsPerFile
<1>1. /\ FirstCycle \in Nat \ {0} /\ MaxIndexFiles \in Nat \ {0} /\ SlotsPerFile \in Nat \ {0}
      /\ ExcerptsPerFile \in Nat \ {0} /\ MaxCycle \in Nat /\ MaxExcerpts \in Nat
      /\ EntriesPerCycle \in Nat /\ EntriesPerCycle >= MaxIndexFiles * SlotsPerFile
      /\ EntriesPerCycle % SlotsPerFile = 0
  BY TailerAssumption
<1>2. MaxIndexFiles * SlotsPerFile \in Nat /\ 1 * SlotsPerFile <= MaxIndexFiles * SlotsPerFile
  <2>1. 1 <= MaxIndexFiles
    BY <1>1
  <2> QED
    BY <1>1, <2>1, ProductGrows, Z3
<1>3. \E k \in Nat : EntriesPerCycle = k * SlotsPerFile
  BY <1>1, WholeUnits
<1> QED
  BY <1>1, <1>2, <1>3

(* An index leads back to its cycle and its number, and file and slot to   *)
(* the number.                                                             *)
LEMMA IndexParts ==
    ASSUME NEW c \in Nat, NEW n \in 0..(EntriesPerCycle - 1)
    PROVE  /\ IndexOf(c, n) \in Nat /\ IndexOf(c, n) > 0
           /\ CycleOf(IndexOf(c, n)) = c
           /\ NumberOf(IndexOf(c, n)) = n
           /\ FileOf(IndexOf(c, n)) * SlotsPerFile + SlotOf(IndexOf(c, n)) = n
           /\ FileOf(IndexOf(c, n)) \in Nat
           /\ SlotOf(IndexOf(c, n)) \in 0..(SlotsPerFile - 1)
<1> DEFINE E == EntriesPerCycle
           S == SlotsPerFile
           q == c + FirstCycle
           i == q * E + n
<1>1. /\ E \in Nat \ {0} /\ S \in Nat \ {0} /\ q \in Nat /\ q > 0 /\ n \in 0..(E - 1)
      /\ FirstCycle \in Nat
  BY Sizes
<1>2. IndexOf(c, n) = i
  BY DEF IndexOf
<1>3. q * E \in Nat /\ q * E > 0
  <2>1. 1 * E <= q * E
    <3>1. 1 <= q
      BY <1>1
    <3> HIDE DEF q
    <3> QED
      BY <3>1, <1>1, ProductGrows
  <2> QED
    BY <2>1, <1>1
<1>4. i \in Nat /\ i > 0
  BY <1>1, <1>3
<1>5. i \div E = q /\ i % E = n
  <2> HIDE DEF q
  <2> QED
    BY <1>1, DivUnique
<1>6. CycleOf(i) = c /\ NumberOf(i) = n
  <2>1. CycleOf(i) = i \div E - FirstCycle
    BY DEF CycleOf
  <2>2. q - FirstCycle = c
    BY <1>1
  <2> HIDE DEF i, q
  <2> QED
    BY <2>1, <2>2, <1>5 DEF NumberOf
<1>7. PICK f \in Int, s \in 0..(S - 1) : n = f * S + s /\ f = n \div S /\ s = n % S
  BY <1>1, DivMod
<1>8. f \in Nat
  <2> SUFFICES ASSUME f <= -1
               PROVE  FALSE
    BY <1>7
  <2>1. f * S <= (-1) * S
    BY <1>1, ProductGrows
  <2>2. (-1) * S = - S /\ f * S \in Int
    BY <1>1
  <2> QED
    BY <2>1, <2>2, <1>1, <1>7
<1>9. i % S = s
  <2>1. PICK k \in Nat : E = k * S
    BY Sizes
  <2>2. q * (k * S) = (q * k) * S /\ q * k \in Nat /\ (q * k) * S + f * S = (q * k + f) * S
    <3> HIDE DEF q
    <3> QED
      BY <1>1, <1>8, <2>1, Z3
  <2>3. i = (q * k + f) * S + s
    <3>1. i = q * (k * S) + (f * S + s)
      BY <1>7, <2>1
    <3>2. (q * k) * S \in Nat /\ f * S \in Nat
      <4> HIDE DEF q
      <4> QED
        BY <2>1, <2>2, <1>1, <1>8
    <3> HIDE DEF i, q
    <3> QED
      BY <3>1, <3>2, <2>2, <1>1, <1>7
  <2>4. q * k + f \in Nat
    <3> HIDE DEF q
    <3> QED
      BY <2>2, <1>8
  <2>5. ((q * k + f) * S + s) % S = s
    BY <2>4, <1>1, DivUnique
  <2> HIDE DEF i, q
  <2> QED
    BY <2>3, <2>5
<1>10. FileOf(i) = f /\ SlotOf(i) = s
  <2> HIDE DEF i
  <2> QED
    BY <1>6, <1>7, <1>9 DEF FileOf, SlotOf
<1> QED
  <2> HIDE DEF i
  <2> QED
    BY <1>2, <1>4, <1>6, <1>7, <1>8, <1>10

\* What next_index() can look up: an index of some cycle, not of what is
\* in front of the first.
IsIndex(i) == \E c \in Nat, n \in 0..(EntriesPerCycle - 1) : i = IndexOf(c, n)

LEMMA IsIndexFacts ==
    ASSUME NEW i, IsIndex(i)
    PROVE  /\ i \in Nat /\ i > 0
           /\ CycleOf(i) \in Nat /\ NumberOf(i) \in 0..(EntriesPerCycle - 1)
           /\ FileOf(i) \in Nat /\ SlotOf(i) \in 0..(SlotsPerFile - 1)
           /\ FileOf(i) * SlotsPerFile + SlotOf(i) = NumberOf(i)
           /\ i = IndexOf(CycleOf(i), NumberOf(i))
BY IndexParts DEF IsIndex

(* The start of a cycle, and the index behind an index.                    *)
LEMMA NextIndex ==
    /\ \A c \in Nat : /\ IsIndex(IndexOf(c, 0)) /\ StartOf(c) + 1 = IndexOf(c, 0)
                      /\ StartOf(c) \in Nat
    /\ \A i : IsIndex(i) =>
         /\ IsIndex(i + 1) /\ IsIndex(NextCycleStart(i))
         /\ CycleOf(NextCycleStart(i)) = CycleOf(i) + 1 /\ NumberOf(NextCycleStart(i)) = 0
         /\ \/ CycleOf(i + 1) = CycleOf(i) /\ NumberOf(i + 1) = NumberOf(i) + 1
            \/ CycleOf(i + 1) = CycleOf(i) + 1 /\ NumberOf(i + 1) = 0
<1>1. EntriesPerCycle \in Nat \ {0} /\ 0 \in 0..(EntriesPerCycle - 1) /\ FirstCycle \in Nat
  BY Sizes
<1>2. ASSUME NEW c \in Nat
      PROVE  /\ IsIndex(IndexOf(c, 0)) /\ StartOf(c) + 1 = IndexOf(c, 0) /\ StartOf(c) \in Nat
  <2>1. IsIndex(IndexOf(c, 0)) /\ IndexOf(c, 0) \in Nat /\ IndexOf(c, 0) > 0
    BY <1>1, IndexParts DEF IsIndex
  <2>2. StartOf(c) = IndexOf(c, 0) - 1
    BY DEF StartOf
  <2> QED
    BY <2>1, <2>2
<1>3. ASSUME NEW i, IsIndex(i)
      PROVE  /\ IsIndex(i + 1) /\ IsIndex(NextCycleStart(i))
             /\ CycleOf(NextCycleStart(i)) = CycleOf(i) + 1 /\ NumberOf(NextCycleStart(i)) = 0
             /\ \/ CycleOf(i + 1) = CycleOf(i) /\ NumberOf(i + 1) = NumberOf(i) + 1
                \/ CycleOf(i + 1) = CycleOf(i) + 1 /\ NumberOf(i + 1) = 0
  <2>1. PICK c \in Nat, n \in 0..(EntriesPerCycle - 1) : c = CycleOf(i) /\ n = NumberOf(i) /\ i = IndexOf(c, n)
    BY <1>3, IsIndexFacts
  <2>2. c + 1 \in Nat /\ NextCycleStart(i) = IndexOf(c + 1, 0)
    BY <2>1 DEF NextCycleStart
  <2>3. IsIndex(NextCycleStart(i)) /\ CycleOf(NextCycleStart(i)) = c + 1 /\ NumberOf(NextCycleStart(i)) = 0
    BY <2>2, <1>1, IndexParts DEF IsIndex
  <2>4. i + 1 = IF n + 1 = EntriesPerCycle THEN IndexOf(c + 1, 0) ELSE IndexOf(c, n + 1)
    <3>1. PICK q \in Nat : q = c + FirstCycle
      BY <1>1
    <3>2. q * EntriesPerCycle \in Nat /\ (q + 1) * EntriesPerCycle = q * EntriesPerCycle + EntriesPerCycle
      BY <1>1
    <3>3. IndexOf(c, n) = q * EntriesPerCycle + n /\ IndexOf(c, n + 1) = q * EntriesPerCycle + (n + 1)
      BY <3>1 DEF IndexOf
    <3>4. IndexOf(c + 1, 0) = (q + 1) * EntriesPerCycle + 0
      <4>1. (c + 1) + FirstCycle = q + 1
        BY <3>1, <1>1
      <4> QED
        BY <4>1 DEF IndexOf
    <3> QED
      BY <3>2, <3>3, <3>4, <2>1, <1>1
  <2>5. CASE n + 1 = EntriesPerCycle
    <3>1. i + 1 = IndexOf(c + 1, 0)
      BY <2>4, <2>5
    <3>2. IsIndex(i + 1) /\ CycleOf(i + 1) = c + 1 /\ NumberOf(i + 1) = 0
      BY <3>1, <2>2, <2>3
    <3> QED
      BY <3>2, <2>1, <2>3
  <2>6. CASE n + 1 # EntriesPerCycle
    <3>1. i + 1 = IndexOf(c, n + 1) /\ n + 1 \in 0..(EntriesPerCycle - 1)
      BY <2>4, <2>6, <1>1
    <3>2. IsIndex(i + 1)
      BY <3>1 DEF IsIndex
    <3>3. CycleOf(i + 1) = c /\ NumberOf(i + 1) = n + 1
      BY <3>1, IndexParts
    <3> QED
      BY <3>2, <3>3, <2>1, <2>3
  <2> QED
    BY <2>5, <2>6
<1> QED
  BY <1>2, <1>3

(* The slot of an index holds the entry of its number.                     *)
LEMMA EntryAtNumber ==
    ASSUME NEW i, IsIndex(i)
    PROVE  /\ EntryAt(i) = IF CycleOf(i) \in Cycles /\ NumberOf(i) < Len(log[CycleOf(i)])
                           THEN log[CycleOf(i)][NumberOf(i) + 1] ELSE Nothing
           /\ EntryAt(i) = SlotAt(<<CycleOf(i), FileOf(i)>>, SlotOf(i))
BY IsIndexFacts DEF EntryAt, SlotAt

-----------------------------------------------------------------------------
(* What the writers have published.                                        *)

\* What is in a log has been started, and is not open any more; a writer's
\* excerpts are in the order of their numbers.
Ordered ==
    \A c \in Cycles : \A i \in 1..Len(log[c]) :
        /\ log[c][i][2] <= started[log[c][i][1]]
        /\ state[log[c][i][1]] = "open" => log[c][i][2] < started[log[c][i][1]]
        /\ \A j \in 1..Len(log[c]) :
             i < j /\ log[c][i][1] = log[c][j][1] => log[c][i][2] < log[c][j][2]

LogInv ==
    /\ now \in Cycles
    /\ log \in [Cycles -> Seq(Excerpts)]
    /\ state \in [Writers -> {"none", "open", "logged"}]
    /\ cycle \in [Writers -> Cycles \cup {-1}]
    /\ started \in [Writers -> 0..MaxExcerpts]
    /\ \A w \in Writers : /\ cycle[w] <= now
                          /\ state[w] = "open" => cycle[w] \in Cycles /\ started[w] # 0
    /\ dirs \subseteq Cycles
    /\ indexFiles \subseteq Cycles \X (0..(MaxIndexFiles - 1))
    /\ \A f \in indexFiles : f[1] <= now
    /\ \A c \in Cycles : /\ Len(log[c]) <= MaxIndexFiles * SlotsPerFile
                         /\ log[c] # <<>> => <<c, 0>> \in indexFiles
    /\ Ordered

\* Nothing that is published changes.
LogGrows ==
    \A c \in Cycles : /\ Len(log[c]) <= Len(log'[c])
                      /\ \A k \in 1..Len(log[c]) : log'[c][k] = log[c][k]

LEMMA InitLogInv == TailerInit => LogInv
<1> SUFFICES ASSUME TailerInit
             PROVE  LogInv
  OBVIOUS
<1> USE DEF TailerInit, Init
<1>1. <<>> \in Seq(Excerpts) /\ Len(<<>>) = 0
  BY EmptySeq
<1>2. 0 \in Cycles
  BY Sizes DEF Cycles
<1>3. \A c \in Cycles : log[c] = <<>>
  BY DEF Cycles
<1>4. Ordered
  <2>1. \A c \in Cycles : 1..Len(log[c]) = {}
    <3> HIDE DEF TailerInit, Init
    <3> QED
      BY <1>1, <1>3
  <2> QED
    BY <2>1 DEF Ordered
<1>5. log \in [Cycles -> Seq(Excerpts)] /\ now \in Cycles
  BY <1>1, <1>2 DEF Cycles
<1>6. \A c \in Cycles : Len(log[c]) <= MaxIndexFiles * SlotsPerFile
  BY <1>1, <1>3, Sizes
<1>7. started \in [Writers -> 0..MaxExcerpts] /\ \A w \in Writers : cycle[w] <= now /\ state[w] # "open"
  BY Sizes
<1> QED
  BY <1>3, <1>4, <1>5, <1>6, <1>7 DEF LogInv

(* A writer's new excerpt is behind those it has published.                *)
LEMMA PublishOrdered ==
    ASSUME LogInv, NEW w \in Writers, Publish(w), NextIndexFile(w) \in indexFiles
    PROVE  /\ log' \in [Cycles -> Seq(Excerpts)]
           /\ \A c \in Cycles : Len(log'[c]) <= MaxIndexFiles * SlotsPerFile
           /\ \A c \in Cycles : log'[c] # <<>> => <<c, 0>> \in indexFiles
           /\ Ordered'
           /\ LogGrows
<1>1. PICK d \in Cycles, e \in Excerpts, z \in Seq(Excerpts), s \in Seq(Excerpts) :
        /\ d = cycle[w] /\ e = <<w, started[w]>> /\ s = log[d] /\ z = Append(s, e)
        /\ log' = [log EXCEPT ![d] = z]
  <2>1. cycle[w] \in Cycles /\ <<w, started[w]>> \in Excerpts
    BY Sizes DEF LogInv, Publish, Excerpts
  <2>2. log[cycle[w]] \in Seq(Excerpts)
    BY <2>1 DEF LogInv
  <2>3. Append(log[cycle[w]], <<w, started[w]>>) \in Seq(Excerpts)
    BY <2>1, <2>2, AppendProperties
  <2> QED
    BY <2>1, <2>2, <2>3 DEF Publish
<1>2. /\ Len(s) \in Nat /\ Len(z) = Len(s) + 1 /\ z[Len(s) + 1] = e
      /\ \A k \in 1..Len(s) : z[k] = s[k]
  BY <1>1, AppendProperties, LenProperties
<1>3. \A c \in Cycles : log'[c] = IF c = d THEN z ELSE log[c]
  BY <1>1 DEF LogInv
<1>4. log' \in [Cycles -> Seq(Excerpts)]
  BY <1>1 DEF LogInv
<1>5. Len(z) <= MaxIndexFiles * SlotsPerFile
  <2>1. Len(s) \div SlotsPerFile \in 0..(MaxIndexFiles - 1)
    BY <1>1 DEF NextIndexFile, LogInv
  <2>2. PICK f \in 0..(MaxIndexFiles - 1), r \in 0..(SlotsPerFile - 1) : Len(s) = f * SlotsPerFile + r
    BY <2>1, <1>2, Sizes, DivMod
  <2>3. (f + 1) * SlotsPerFile <= MaxIndexFiles * SlotsPerFile
    BY <2>2, Sizes, ProductGrows
  <2>4. (f + 1) * SlotsPerFile = f * SlotsPerFile + SlotsPerFile /\ f * SlotsPerFile \in Nat
    BY <2>2, Sizes
  <2> QED
    BY <2>2, <2>3, <2>4, <1>2, Sizes
<1>6. <<d, 0>> \in indexFiles
  <2>1. CASE s = <<>>
    <3>1. Len(s) = 0
      BY <2>1, EmptySeq
    <3>2. 0 \div SlotsPerFile = 0
      <4>1. 0 * SlotsPerFile = 0
        BY Sizes
      <4> QED
        BY <4>1, Sizes, QuotientOfProduct
    <3> QED
      BY <3>1, <3>2, <1>1 DEF NextIndexFile
  <2>2. CASE s # <<>>
    BY <2>2, <1>1 DEF LogInv
  <2> QED
    BY <2>1, <2>2
<1>7. LogGrows
  <2>1. \A c \in Cycles : Len(log[c]) \in Nat
    BY LenProperties DEF LogInv
  <2> QED
    BY <2>1, <1>1, <1>2, <1>3 DEF LogGrows
<1>8. Ordered'
  <2> SUFFICES ASSUME NEW c \in Cycles, NEW i \in 1..Len(log'[c])
               PROVE  /\ log'[c][i][2] <= started'[log'[c][i][1]]
                      /\ state'[log'[c][i][1]] = "open" => log'[c][i][2] < started'[log'[c][i][1]]
                      /\ \A j \in 1..Len(log'[c]) :
                           i < j /\ log'[c][i][1] = log'[c][j][1] => log'[c][i][2] < log'[c][j][2]
    BY DEF Ordered
  <2>1. started' = started /\ state' = [state EXCEPT ![w] = "logged"] /\ state[w] = "open"
    BY DEF Publish
  <2>2. /\ \A u \in Writers : state'[u] = "open" => state[u] = "open"
        /\ started[w] \in Nat /\ e[1] = w /\ e[2] = started[w]
        /\ state'[w] # "open"
    BY <2>1, <1>1 DEF LogInv
  <2>3. CASE c # d
    <3>1. log'[c] = log[c] /\ log[c][i] \in Excerpts
      BY <2>3, <1>3, ElementOfSeq DEF LogInv
    <3> QED
      BY <3>1, <2>1, <2>2 DEF LogInv, Ordered, Excerpts
  <2>4. CASE c = d
    <3>1. log'[c] = z /\ log[c] = s
      BY <2>4, <1>1, <1>3
    <3>2. \A k \in 1..Len(s) : /\ s[k] \in Excerpts /\ s[k][2] <= started[s[k][1]]
                               /\ state[s[k][1]] = "open" => s[k][2] < started[s[k][1]]
                               /\ \A j \in 1..Len(s) : k < j /\ s[k][1] = s[j][1] => s[k][2] < s[j][2]
      BY <3>1, ElementOfSeq DEF LogInv, Ordered
    <3>3. \A k \in 1..Len(z) : k \in 1..Len(s) \/ k = Len(s) + 1
      BY <1>2
    <3>4. CASE i = Len(s) + 1
      <4>1. z[i] = e /\ \A j \in 1..Len(z) : ~ i < j
        BY <3>4, <1>2
      <4> QED
        BY <4>1, <3>1, <2>1, <2>2
    <3>5. CASE i \in 1..Len(s)
      <4>1. z[i] = s[i] /\ s[i] \in Excerpts
        BY <3>2, <3>5, <1>2
      <4>2. /\ s[i][2] <= started[s[i][1]]
            /\ state'[s[i][1]] = "open" => s[i][2] < started[s[i][1]]
        BY <3>2, <3>5, <4>1, <2>2 DEF Excerpts
      <4>3. ASSUME NEW j \in 1..Len(z), i < j, z[i][1] = z[j][1]
            PROVE  z[i][2] < z[j][2]
        <5>1. CASE j \in 1..Len(s)
          BY <5>1, <4>1, <4>3, <3>2, <3>5, <1>2
        <5>2. CASE j = Len(s) + 1
          <6>1. z[j] = e /\ s[i][1] = w
            BY <5>2, <4>1, <4>3, <1>2, <2>2
          <6> QED
            BY <6>1, <4>1, <3>2, <3>5, <2>1, <2>2
        <5> QED
          BY <5>1, <5>2, <3>3
      <4> QED
        BY <4>1, <4>2, <4>3, <3>1, <2>1
    <3> QED
      BY <3>1, <3>3, <3>4, <3>5
  <2> QED
    BY <2>3, <2>4
<1> QED
  BY <1>1, <1>2, <1>3, <1>4, <1>5, <1>6, <1>7, <1>8 DEF LogInv

LEMMA SameLogGrows ==
    ASSUME LogInv, log' = log
    PROVE  LogGrows
<1>1. \A c \in Cycles : Len(log[c]) \in Nat
  BY LenProperties DEF LogInv
<1> QED
  BY <1>1 DEF LogGrows

LEMMA WriterLogInv ==
    ASSUME LogInv, WriterStep
    PROVE  /\ LogInv' /\ LogGrows
           /\ now <= now' /\ indexFiles \subseteq indexFiles' /\ dirs \subseteq dirs'
<1>0. Cycles \subseteq Nat /\ now \in Nat /\ \A x \in Cycles \cup {-1} : x \in Int
  BY Sizes DEF LogInv, Cycles
<1>1. ASSUME NEW w \in Writers, StartExcerpt(w)
      PROVE  LogInv' /\ LogGrows /\ now' = now /\ indexFiles' = indexFiles /\ dirs' = dirs
  <2>1. /\ now' = now /\ log' = log /\ indexFiles' = indexFiles /\ dirs' = dirs
        /\ started' = [started EXCEPT ![w] = @ + 1] /\ started[w] < MaxExcerpts
        /\ state' = [state EXCEPT ![w] = "open"] /\ cycle' = [cycle EXCEPT ![w] = now]
    BY <1>1 DEF StartExcerpt, Start
  <2>2. started[w] \in 0..MaxExcerpts /\ started[w] + 1 \in 0..MaxExcerpts /\ started[w] + 1 # 0
    BY <2>1, Sizes DEF LogInv
  <2>3. /\ state' \in [Writers -> {"none", "open", "logged"}]
        /\ cycle' \in [Writers -> Cycles \cup {-1}] /\ started' \in [Writers -> 0..MaxExcerpts]
        /\ \A u \in Writers : /\ cycle'[u] <= now
                              /\ state'[u] = "open" => cycle'[u] \in Cycles /\ started'[u] # 0
    BY <2>1, <2>2, <1>0 DEF LogInv
  <2>4. Ordered'
    <3>1. ASSUME NEW c \in Cycles, NEW i \in 1..Len(log[c])
          PROVE  /\ log[c][i][2] <= started'[log[c][i][1]]
                 /\ state'[log[c][i][1]] = "open" => log[c][i][2] < started'[log[c][i][1]]
      <4>1. PICK e \in Excerpts : e = log[c][i]
        BY ElementOfSeq DEF LogInv
      <4>2. /\ e[1] \in Writers /\ e[2] \in Int /\ e[2] <= started[e[1]] /\ started[e[1]] \in Int
            /\ state[e[1]] = "open" => e[2] < started[e[1]]
        BY <4>1 DEF LogInv, Ordered, Excerpts
      <4>3. CASE e[1] = w
        <5>1. started'[w] = started[w] + 1
          BY <2>1 DEF LogInv
        <5> QED
          BY <5>1, <4>1, <4>2, <4>3
      <4>4. CASE e[1] # w
        <5>1. started'[e[1]] = started[e[1]] /\ state'[e[1]] = state[e[1]]
          BY <2>1, <4>2, <4>4 DEF LogInv
        <5> QED
          BY <5>1, <4>1, <4>2
      <4> QED
        BY <4>3, <4>4
    <3> QED
      BY <3>1, <2>1 DEF LogInv, Ordered
  <2> QED
    BY <2>1, <2>3, <2>4, SameLogGrows DEF LogInv
<1>2. ASSUME NEW w \in Writers, OpenIndexFile(w)
      PROVE  LogInv' /\ LogGrows /\ now' = now /\ indexFiles \subseteq indexFiles' /\ dirs' = dirs
  <2>1. /\ UNCHANGED vars /\ dirs' = dirs
        /\ indexFiles' = indexFiles \cup {NextIndexFile(w)}
        /\ NextIndexFile(w)[2] < MaxIndexFiles /\ state[w] = "open"
    BY <1>2 DEF OpenIndexFile, Started
  <2>2. /\ NextIndexFile(w) = <<cycle[w], Len(log[cycle[w]]) \div SlotsPerFile>>
        /\ cycle[w] \in Cycles /\ cycle[w] <= now
    BY <2>1 DEF NextIndexFile, LogInv
  <2>3. Len(log[cycle[w]]) \div SlotsPerFile \in Nat
    <3>1. Len(log[cycle[w]]) \in Nat
      BY <2>2, LenProperties DEF LogInv
    <3> QED
      BY <3>1, Sizes, QuotientNat
  <2>4. NextIndexFile(w) \in Cycles \X (0..(MaxIndexFiles - 1))
    <3>1. PICK f \in Nat : f = Len(log[cycle[w]]) \div SlotsPerFile
      BY <2>3
    <3>2. NextIndexFile(w) = <<cycle[w], f>> /\ f < MaxIndexFiles
      BY <2>1, <2>2, <3>1
    <3>3. f \in 0..(MaxIndexFiles - 1)
      BY <3>2, Sizes
    <3> QED
      BY <3>2, <3>3, <2>2
  <2>5. Ordered'
    BY <2>1 DEF vars, LogInv, Ordered
  <2> QED
    BY <2>1, <2>2, <2>4, <2>5, SameLogGrows DEF LogInv, vars
<1>3. ASSUME NEW w \in Writers, PublishIndex(w)
      PROVE  LogInv' /\ LogGrows /\ now' = now /\ indexFiles' = indexFiles /\ dirs' = dirs
  <2>1. /\ Publish(w) /\ NextIndexFile(w) \in indexFiles /\ dirs' = dirs /\ indexFiles' = indexFiles
        /\ now' = now /\ cycle' = cycle /\ started' = started
        /\ state' = [state EXCEPT ![w] = "logged"]
    BY <1>3 DEF PublishIndex, Publish
  <2> QED
    BY <2>1, PublishOrdered DEF LogInv
<1>4. ASSUME NEW w \in Writers, Return(w), UNCHANGED <<dirs, indexFiles>>
      PROVE  LogInv' /\ LogGrows /\ now' = now /\ indexFiles' = indexFiles /\ dirs' = dirs
  <2>1. /\ state' = [state EXCEPT ![w] = "none"] /\ dirs' = dirs /\ indexFiles' = indexFiles
        /\ now' = now /\ cycle' = cycle /\ started' = started /\ log' = log
    BY <1>4 DEF Return
  <2>2. \A u \in Writers : state'[u] = "open" => state[u] = "open"
    BY <2>1 DEF LogInv
  <2>3. Ordered'
    <3>1. \A c \in Cycles : \A i \in 1..Len(log[c]) : log[c][i][1] \in Writers
      BY ElementOfSeq DEF LogInv, Excerpts
    <3> QED
      BY <3>1, <2>1, <2>2 DEF LogInv, Ordered
  <2> QED
    BY <2>1, <2>2, <2>3, SameLogGrows DEF LogInv
<1>5. ASSUME Tick, UNCHANGED <<dirs, indexFiles>>
      PROVE  LogInv' /\ LogGrows /\ now <= now' /\ indexFiles' = indexFiles /\ dirs' = dirs
  <2>1. /\ now < MaxCycle /\ now' = now + 1 /\ UNCHANGED <<log, state, cycle, started, dirs, indexFiles>>
    BY <1>5 DEF Tick
  <2>2. now' \in Cycles /\ now <= now'
    BY <2>1, <1>0, Sizes DEF Cycles
  <2>3. \A w \in Writers : cycle[w] \in Int /\ cycle[w] <= now
    <3>1. \A w \in Writers : cycle[w] \in Cycles \cup {-1} /\ cycle[w] <= now
      BY DEF LogInv
    <3> QED
      BY <3>1, <1>0, Zenon
  <2>4. \A f \in indexFiles : f[1] \in Int /\ f[1] <= now
    <3>1. \A f \in indexFiles : f[1] \in Cycles /\ f[1] <= now
      BY DEF LogInv
    <3> QED
      BY <3>1, <1>0, Zenon
  <2>5. Ordered'
    BY <2>1 DEF LogInv, Ordered
  <2>6. (\A w \in Writers : cycle'[w] <= now') /\ \A f \in indexFiles : f[1] <= now'
    BY <2>1, <2>2, <2>3, <2>4, <1>0
  <2> QED
    BY <2>1, <2>2, <2>5, <2>6, SameLogGrows DEF LogInv
<1>6. ASSUME NEW w \in Writers, MakeDirectory(w)
      PROVE  LogInv' /\ LogGrows /\ now' = now /\ indexFiles' = indexFiles /\ dirs \subseteq dirs'
  <2>1. /\ UNCHANGED vars /\ indexFiles' = indexFiles
        /\ dirs' = dirs \cup {cycle[w]} /\ state[w] = "open"
    BY <1>6 DEF MakeDirectory
  <2>2. cycle[w] \in Cycles
    BY <2>1 DEF LogInv
  <2>3. Ordered'
    BY <2>1 DEF vars, LogInv, Ordered
  <2> QED
    BY <2>1, <2>2, <2>3, SameLogGrows DEF LogInv, vars
<1> QED
  BY <1>0, <1>1, <1>2, <1>3, <1>4, <1>5, <1>6 DEF WriterStep

-----------------------------------------------------------------------------
(* Where the data of an excerpt is.                                        *)

\* The positions of the earlier excerpts of the same writer.
Earlier(e, c) == {k \in 1..Len(log[c]) : log[c][k][1] = e[1] /\ log[c][k][2] < e[2]}

LEMMA LogElement ==
    ASSUME LogInv, NEW c \in Cycles
    PROVE  /\ log[c] \in Seq(Excerpts) /\ Len(log[c]) \in Nat
           /\ \A k \in 1..Len(log[c]) :
                /\ log[c][k] \in Excerpts /\ log[c][k] # Nothing
                /\ log[c][k][1] \in Writers /\ log[c][k][2] \in 1..MaxExcerpts
<1>1. log[c] \in Seq(Excerpts)
  BY DEF LogInv
<1>2. \A e \in Excerpts : e # Nothing /\ e[1] \in Writers /\ e[2] \in 1..MaxExcerpts
  BY DEF Excerpts, Nothing
<1> QED
  BY <1>1, <1>2, ElementOfSeq, LenProperties

(* The earlier excerpts of a writer are fewer than its excerpt has number. *)
LEMMA NthBound ==
    ASSUME LogInv, NEW c \in Cycles, NEW e \in Excerpts
    PROVE  /\ IsFiniteSet(Earlier(e, c))
           /\ NthInCycle(e, c) = Cardinality(Earlier(e, c))
           /\ NthInCycle(e, c) \in Nat /\ NthInCycle(e, c) < MaxExcerpts
<1> DEFINE P == Earlier(e, c)
           f == [k \in P |-> log[c][k][2]]
<1>1. /\ e[2] \in 1..MaxExcerpts
      /\ \A k \in 1..Len(log[c]) : log[c][k][1] \in Writers /\ log[c][k][2] \in 1..MaxExcerpts
  BY LogElement DEF Excerpts
<1>2. Len(log[c]) \in Nat
  BY LogElement
<1>3. IsFiniteSet(P)
  <2>1. P \in SUBSET (1..Len(log[c])) /\ IsFiniteSet(1..Len(log[c]))
    BY <1>2, FS_Interval DEF Earlier
  <2> HIDE DEF P
  <2> QED
    BY <2>1, FS_Subset
<1>4. f \in Injection(P, 1..(e[2] - 1))
  <2>1. f \in [P -> 1..(e[2] - 1)]
    BY <1>1 DEF Earlier
  <2>2. ASSUME NEW k \in P, NEW j \in P, f[k] = f[j]
        PROVE  k = j
    <3>1. /\ k \in 1..Len(log[c]) /\ j \in 1..Len(log[c])
          /\ log[c][k][1] = e[1] /\ log[c][j][1] = e[1]
          /\ log[c][k][2] = log[c][j][2]
      BY <2>2 DEF Earlier
    <3>2. /\ k < j => log[c][k][2] < log[c][j][2]
          /\ j < k => log[c][j][2] < log[c][k][2]
      BY <3>1 DEF LogInv, Ordered
    <3> QED
      BY <3>1, <3>2, <1>1, <1>2
  <2> HIDE DEF P, f
  <2> QED
    BY <2>1, <2>2, Fun_IsInj
<1>5. Cardinality(P) \in Nat
  <2> HIDE DEF P
  <2> QED
    BY <1>3, FS_CardinalityType
<1>6. Cardinality(P) <= e[2] - 1
  <2>1. /\ IsFiniteSet(1..(e[2] - 1))
        /\ Cardinality(1..(e[2] - 1)) = IF 1 > e[2] - 1 THEN 0 ELSE (e[2] - 1) - 1 + 1
    <3>1. PICK n \in Int : n = e[2] - 1
      BY <1>1
    <3>2. IsFiniteSet(1..n) /\ Cardinality(1..n) = IF 1 > n THEN 0 ELSE n - 1 + 1
      BY FS_Interval
    <3> QED
      BY <3>1, <3>2
  <2>2. Cardinality(P) <= Cardinality(1..(e[2] - 1))
    <3> HIDE DEF P, f
    <3> QED
      BY <1>4, <2>1, FS_Injection
  <2> HIDE DEF P
  <2> QED
    BY <2>1, <2>2, <1>1
<1>7. NthInCycle(e, c) = Cardinality(P)
  BY DEF NthInCycle, Earlier
<1>8. Cardinality(P) < MaxExcerpts
  <2> HIDE DEF P
  <2> QED
    BY <1>1, <1>5, <1>6, Sizes
<1> QED
  BY <1>3, <1>5, <1>7, <1>8

(* They are counted upward, so that the place of an excerpt is its own.    *)
LEMMA NthGrows ==
    ASSUME LogInv, NEW c \in Cycles, NEW i \in 1..Len(log[c]), NEW j \in 1..Len(log[c]),
           i < j, log[c][i][1] = log[c][j][1]
    PROVE  NthInCycle(log[c][i], c) < NthInCycle(log[c][j], c)
<1> DEFINE P == Earlier(log[c][i], c)
           Q == Earlier(log[c][j], c)
<1>1. /\ log[c][i] \in Excerpts /\ log[c][j] \in Excerpts
      /\ \A k \in 1..Len(log[c]) : log[c][k][2] \in 1..MaxExcerpts
  BY LogElement
<1>2. log[c][i][2] < log[c][j][2]
  BY DEF LogInv, Ordered
<1>3. P \subseteq Q /\ i \in Q /\ i \notin P
  BY <1>1, <1>2 DEF Earlier
<1>4. /\ IsFiniteSet(Q) /\ NthInCycle(log[c][i], c) = Cardinality(P)
      /\ NthInCycle(log[c][j], c) = Cardinality(Q)
      /\ NthInCycle(log[c][i], c) \in Nat /\ NthInCycle(log[c][j], c) \in Nat
  BY <1>1, NthBound
<1>5. Cardinality(P) <= Cardinality(Q) /\ Cardinality(P) # Cardinality(Q)
  <2> HIDE DEF P, Q
  <2> QED
    BY <1>3, <1>4, FS_Subset
<1> HIDE DEF P, Q
<1> QED
  BY <1>4, <1>5

LEMMA PlaceIsOwn ==
    ASSUME LogInv, NEW c \in Cycles, NEW i \in 1..Len(log[c]), NEW j \in 1..Len(log[c]),
           log[c][i][1] = log[c][j][1],
           DataFileOf(log[c][i], c) = DataFileOf(log[c][j], c),
           OffsetOf(log[c][i], c) = OffsetOf(log[c][j], c)
    PROVE  i = j
<1>1. PICK m \in Nat, n \in Nat : m = NthInCycle(log[c][i], c) /\ n = NthInCycle(log[c][j], c)
  BY LogElement, NthBound
<1>2. m = n
  <2>1. m \div ExcerptsPerFile = n \div ExcerptsPerFile /\ m % ExcerptsPerFile = n % ExcerptsPerFile
    BY <1>1 DEF DataFileOf, OffsetOf
  <2>2. /\ m = (m \div ExcerptsPerFile) * ExcerptsPerFile + (m % ExcerptsPerFile)
        /\ n = (n \div ExcerptsPerFile) * ExcerptsPerFile + (n % ExcerptsPerFile)
    BY Sizes, DivMod
  <2> QED
    BY <2>1, <2>2
<1>3. (i < j => m < n) /\ (j < i => n < m)
  BY <1>1, NthGrows
<1>4. i \in Int /\ j \in Int
  BY LogElement
<1> QED
  BY <1>1, <1>2, <1>3, <1>4

(* What is in the region that an entry points to is the excerpt.           *)
LEMMA ContentIsEntry ==
    ASSUME LogInv, NEW c \in Cycles, NEW k \in 1..Len(log[c]), NEW e, e = log[c][k]
    PROVE  ContentAt(<<c, e[1], DataFileOf(e, c)>>, OffsetOf(e, c)) = e
<1> DEFINE region == <<c, e[1], DataFileOf(e, c)>>
           there == {x \in ToSet(log[c]) : /\ x[1] = e[1]
                                           /\ DataFileOf(x, c) = DataFileOf(e, c)
                                           /\ OffsetOf(x, c) = OffsetOf(e, c)}
<1>1. ToSet(log[c]) = {log[c][i] : i \in 1..Len(log[c])}
  BY LogElement, LenProperties DEF ToSet
<1>2. e \in there
  BY <1>1
<1>3. \A x \in there : x = e
  BY <1>1, PlaceIsOwn
<1>4. ContentAt(region, OffsetOf(e, c)) = IF there = {} THEN Nothing ELSE CHOOSE x \in there : TRUE
  BY DEF ContentAt
<1> HIDE DEF there
<1>5. (CHOOSE x \in there : TRUE) = e
  BY <1>2, <1>3
<1> QED
  BY <1>2, <1>4, <1>5

-----------------------------------------------------------------------------
(* The calls, whichever they are.                                          *)

\* A mapped index file is the one the tailer has the numbers of.
MappedInv == indexRegion # Nothing => indexRegion = <<lastCycle, lastFile>>
TailerInv == LogInv /\ TailerTypeOK /\ MappedInv /\ (pc # "idle" => IsIndex(next))

LEMMA DirsEnds ==
    ASSUME LogInv, dirs # {}
    PROVE  /\ FirstDir \in Cycles /\ FirstDir \in Nat
           /\ LastDir \in Cycles /\ LastDir \in Nat
<1>1. /\ dirs \subseteq Cycles /\ Cycles \subseteq Nat
      /\ \A c \in dirs : c \in Int /\ c <= MaxCycle
  BY Sizes DEF LogInv, Cycles
<1>2. \E c \in dirs : \A d \in dirs : c <= d
  BY <1>1, LeastNat
<1>3. \E c \in dirs : \A d \in dirs : d <= c
  <2>1. MaxCycle \in Nat
    BY Sizes
  <2> QED
    BY <1>1, <2>1, GreatestOf
<1> QED
  BY <1>1, <1>2, <1>3 DEF FirstDir, LastDir

(* Where next_index() goes on from: behind an index, or at the start of a  *)
(* cycle.                                                                  *)
LEMMA IndexPlace ==
    ASSUME TailerTypeOK
    PROVE  index = -1 \/ (index \in Nat /\ IsIndex(index + 1))
<1>1. CASE index = -1
  BY <1>1
<1>2. CASE index \in Indices
  <2>1. PICK c \in Cycles, k \in 0..(MaxIndexFiles * SlotsPerFile - 1) : index = IndexOf(c, k)
    BY <1>2 DEF Indices
  <2>2. c \in Nat /\ k \in 0..(EntriesPerCycle - 1)
    BY Sizes DEF Cycles
  <2>3. IsIndex(index)
    BY <2>1, <2>2 DEF IsIndex
  <2> QED
    BY <2>3, IsIndexFacts, NextIndex
<1>3. CASE index \in {IndexOf(c, 0) - 1 : c \in Cycles}
  <2>1. PICK c \in Cycles : index = StartOf(c)
    BY <1>3 DEF StartOf
  <2>2. c \in Nat
    BY Sizes DEF Cycles
  <2>3. IsIndex(IndexOf(c, 0)) /\ StartOf(c) + 1 = IndexOf(c, 0) /\ StartOf(c) \in Nat
    BY <2>2, NextIndex
  <2> QED
    BY <2>1, <2>3
<1> QED
  BY <1>1, <1>2, <1>3 DEF TailerTypeOK

LEMMA MapsIndex ==
    ASSUME TailerInv, NEW i, MapsIndexFile(i)
    PROVE  /\ indexRegion' = <<CycleOf(i), FileOf(i)>>
           /\ <<CycleOf(i), FileOf(i)>> \in indexFiles
           /\ lastCycle' = CycleOf(i) /\ lastFile' = FileOf(i)
<1>1. CASE IndexFileChanges(i)
  BY <1>1 DEF MapsIndexFile
<1>2. CASE ~ IndexFileChanges(i)
  BY <1>2 DEF MapsIndexFile, IndexFileChanges, TailerInv, MappedInv, TailerTypeOK
<1> QED
  BY <1>1, <1>2

(* An index that has a file is in its bounds, and its slot is that of the  *)
(* entry.                                                                  *)
LEMMA FileAndSlot ==
    ASSUME LogInv, NEW i, IsIndex(i), <<CycleOf(i), FileOf(i)>> \in indexFiles
    PROVE  /\ CycleOf(i) \in Cycles /\ CycleOf(i) <= now
           /\ FileOf(i) \in 0..(MaxIndexFiles - 1)
           /\ i \in Indices
           /\ SlotAt(<<CycleOf(i), FileOf(i)>>, SlotOf(i)) = EntryAt(i)
           /\ EntryAt(i) # Nothing =>
                /\ NumberOf(i) + 1 \in 1..Len(log[CycleOf(i)])
                /\ EntryAt(i) = log[CycleOf(i)][NumberOf(i) + 1]
                /\ EntryAt(i) \in Excerpts
<1>1. CycleOf(i) \in Cycles /\ CycleOf(i) <= now /\ FileOf(i) \in 0..(MaxIndexFiles - 1)
  BY DEF LogInv
<1>2. PICK f \in 0..(MaxIndexFiles - 1), s \in 0..(SlotsPerFile - 1), n \in 0..(EntriesPerCycle - 1) :
        /\ f = FileOf(i) /\ s = SlotOf(i) /\ n = NumberOf(i)
        /\ f * SlotsPerFile + s = n /\ i = IndexOf(CycleOf(i), n)
  BY <1>1, IsIndexFacts
<1>3. n \in 0..(MaxIndexFiles * SlotsPerFile - 1)
  <2>1. (f + 1) * SlotsPerFile <= MaxIndexFiles * SlotsPerFile
    BY Sizes, ProductGrows
  <2>2. (f + 1) * SlotsPerFile = f * SlotsPerFile + SlotsPerFile /\ f * SlotsPerFile \in Nat
    BY Sizes
  <2> QED
    BY <2>1, <2>2, <1>2, Sizes
<1>4. i \in Indices
  BY <1>1, <1>2, <1>3 DEF Indices
<1>5. EntryAt(i) = IF n < Len(log[CycleOf(i)]) THEN log[CycleOf(i)][n + 1] ELSE Nothing
  BY <1>1, <1>2, EntryAtNumber
<1>6. EntryAt(i) # Nothing => n + 1 \in 1..Len(log[CycleOf(i)])
  BY <1>1, <1>5, LogElement
<1> QED
  BY <1>1, <1>2, <1>4, <1>5, <1>6, EntryAtNumber, LogElement

LEMMA IndexCall ==
    ASSUME TailerInv, UNCHANGED store, NEW i, IsIndex(i), Found(i) \/ NotFound(i)
    PROVE  /\ lastCycle' \in Cycles \cup {-1}
           /\ lastFile' \in -1..(MaxIndexFiles - 1)
           /\ indexRegion' = Nothing \/ indexRegion' \in indexFiles'
           /\ lastThread' = Nothing \/ lastThread' \in Writers
           /\ lastData' \in -1..MaxExcerpts
           /\ dataRegion' = Nothing \/ dataRegion' \in Cycles \X Writers \X (0..MaxExcerpts)
           /\ buffer' = Nothing \/ buffer' \in Excerpts
           /\ MappedInv'
           /\ Found(i) => index' = i /\ i \in Indices /\ CycleOf(i) \in Cycles /\ buffer' \in Excerpts
           /\ NotFound(i) /\ ~ Found(i) => index' = index /\ buffer' = buffer
<1> USE DEF TailerInv
<1>1. /\ lastCycle \in Cycles \cup {-1}
      /\ lastFile \in -1..(MaxIndexFiles - 1)
      /\ indexRegion = Nothing \/ indexRegion \in indexFiles
      /\ lastThread = Nothing \/ lastThread \in Writers
      /\ lastData \in -1..MaxExcerpts
      /\ dataRegion = Nothing \/ dataRegion \in Cycles \X Writers \X (0..MaxExcerpts)
      /\ buffer = Nothing \/ buffer \in Excerpts
      /\ indexFiles' = indexFiles /\ LogInv
  BY DEF TailerTypeOK, store
<1>2. CASE IndexFileMissing(i)
  <2>1. /\ UNCHANGED <<index, lastCycle, lastFile, lastThread, lastData, dataRegion, buffer>>
        /\ indexRegion' = Nothing
    BY <1>2 DEF IndexFileMissing
  <2>2. ~ Found(i)
    BY <1>2, MapsIndex DEF IndexFileMissing, Found, MapsEntry
  <2> QED
    BY <2>1, <2>2, <1>1 DEF MappedInv
<1>3. ASSUME MapsIndexFile(i)
      PROVE  /\ indexRegion' = <<CycleOf(i), FileOf(i)>> /\ indexRegion' \in indexFiles
             /\ lastCycle' \in Cycles /\ lastFile' \in 0..(MaxIndexFiles - 1)
             /\ CycleOf(i) \in Cycles /\ i \in Indices
             /\ SlotAt(indexRegion', SlotOf(i)) = EntryAt(i)
             /\ EntryAt(i) # Nothing => EntryAt(i) \in Excerpts
             /\ MappedInv'
  BY <1>1, <1>3, MapsIndex, FileAndSlot DEF MappedInv
<1>4. CASE SlotEmpty(i)
  <2>1. /\ UNCHANGED <<index, lastThread, lastData, dataRegion, buffer>>
        /\ MapsIndexFile(i) /\ SlotAt(indexRegion', SlotOf(i)) = Nothing
    BY <1>4 DEF SlotEmpty
  <2>2. ~ Found(i)
    BY <2>1 DEF Found, MapsEntry
  <2> QED
    BY <2>1, <2>2, <1>1, <1>3, Sizes
<1>5. ASSUME MapsEntry(i)
      PROVE  /\ lastThread' = Nothing \/ lastThread' \in Writers
             /\ lastData' \in -1..MaxExcerpts
             /\ dataRegion' = Nothing \/ dataRegion' \in Cycles \X Writers \X (0..MaxExcerpts)
  <2>1. PICK e : e = EntryAt(i) /\ e # Nothing /\ MapsDataFile(i, e) /\ MapsIndexFile(i)
    BY <1>3, <1>5 DEF MapsEntry
  <2>2. /\ e \in Excerpts /\ e[1] \in Writers /\ CycleOf(i) \in Cycles
        /\ indexRegion'[1] = CycleOf(i)
    BY <2>1, <1>3 DEF Excerpts
  <2>3. DataFileOf(e, CycleOf(i)) \in 0..MaxExcerpts
    <3>1. PICK n \in Nat : n = NthInCycle(e, CycleOf(i)) /\ n < MaxExcerpts
      BY <1>1, <2>2, NthBound
    <3>2. n \div ExcerptsPerFile \in Nat /\ n \div ExcerptsPerFile <= n
      BY Sizes, QuotientNat
    <3> QED
      BY <3>1, <3>2, Sizes DEF DataFileOf
  <2>4. CASE KeepsDataRegion(i, e)
    BY <2>1, <2>4, <1>1 DEF MapsDataFile
  <2>5. CASE ~ KeepsDataRegion(i, e)
    <3>1. /\ dataRegion' = <<CycleOf(i), e[1], DataFileOf(e, CycleOf(i))>>
          /\ lastThread' = e[1] /\ lastData' = DataFileOf(e, CycleOf(i))
      BY <2>1, <2>2, <2>5 DEF MapsDataFile
    <3> QED
      BY <3>1, <2>2, <2>3, Sizes
  <2> QED
    BY <2>4, <2>5
<1>6. CASE LengthMissing(i)
  <2>1. /\ MapsEntry(i) /\ MapsIndexFile(i) /\ UNCHANGED <<index, buffer>>
        /\ ~ Found(i)
    BY <1>6 DEF LengthMissing, MapsEntry, Found
  <2> QED
    BY <2>1, <1>1, <1>3, <1>5, Sizes
<1>7. CASE Found(i)
  <2>1. /\ MapsEntry(i) /\ MapsIndexFile(i) /\ index' = i
        /\ buffer' = Content(i, indexRegion', dataRegion') /\ buffer' # Nothing
    BY <1>7 DEF Found, MapsEntry
  <2>2. dataRegion' \in Cycles \X Writers \X (0..MaxExcerpts)
    <3>1. dataRegion' # Nothing
      BY <2>1 DEF MapsEntry, MapsDataFile, KeepsDataRegion, Nothing
    <3> QED
      BY <3>1, <2>1, <1>5
  <2>3. PICK o : buffer' = ContentAt(dataRegion', o)
    BY <2>1 DEF Content
  <2>4. buffer' \in ToSet(log[dataRegion'[1]])
    <3> DEFINE there == {e \in ToSet(log[dataRegion'[1]]) :
                    /\ e[1] = dataRegion'[2]
                    /\ DataFileOf(e, dataRegion'[1]) = dataRegion'[3]
                    /\ OffsetOf(e, dataRegion'[1]) = o}
    <3>1. buffer' = IF there = {} THEN Nothing ELSE CHOOSE e \in there : TRUE
      BY <2>3 DEF ContentAt
    <3>2. buffer' \in there
      <4> HIDE DEF there
      <4> QED
        BY <3>1, <2>1
    <3> QED
      BY <3>2
  <2>5. buffer' \in Excerpts
    <3>1. PICK c \in Cycles : c = dataRegion'[1]
      BY <2>2
    <3>2. ToSet(log[c]) = {log[c][k] : k \in 1..Len(log[c])}
      BY <1>1, LogElement, LenProperties DEF ToSet
    <3> QED
      BY <3>1, <3>2, <2>4, <1>1, LogElement
  <2>6. /\ lastCycle' \in Cycles \cup {-1} /\ lastFile' \in -1..(MaxIndexFiles - 1)
        /\ indexRegion' \in indexFiles' /\ MappedInv'
        /\ CycleOf(i) \in Cycles /\ i \in Indices
    BY <2>1, <1>1, <1>3, Sizes
  <2>7. /\ lastThread' = Nothing \/ lastThread' \in Writers
        /\ lastData' \in -1..MaxExcerpts
    BY <2>1, <1>5
  <2> QED
    BY <1>7, <2>1, <2>2, <2>5, <2>6, <2>7
<1> QED
  BY <1>2, <1>4, <1>6, <1>7 DEF NotFound

-----------------------------------------------------------------------------
(* The type invariant, for a tailer with any calls.                        *)

LEMMA InitTailerInv == TailerInit => TailerInv
<1> SUFFICES ASSUME TailerInit
             PROVE  TailerInv
  OBVIOUS
<1>1. LogInv
  BY InitLogInv
<1>2. [c \in Cycles |-> <<>>] \in [Cycles -> Seq(Excerpts)]
  BY EmptySeq
<1>3. TailerTypeOK
  <2>1. 0 \in Nat /\ -1 \in -1..(MaxIndexFiles - 1) /\ -1 \in -1..MaxExcerpts
    BY Sizes
  <2>2. /\ dirs = {} /\ indexFiles = {} /\ pc = "idle" /\ next = 0 /\ index = -1
        /\ lastCycle = -1 /\ lastFile = -1 /\ indexRegion = Nothing
        /\ lastThread = Nothing /\ lastData = -1 /\ dataRegion = Nothing
        /\ buffer = Nothing /\ returned = FALSE
        /\ delivered \in [Cycles -> Seq(Excerpts)]
    BY <1>2 DEF TailerInit
  <2> QED
    BY <2>1, <2>2 DEF TailerTypeOK
<1> QED
  BY <1>1, <1>3 DEF TailerInit, TailerInv, MappedInv

LEMMA StoreKept ==
    ASSUME LogInv, UNCHANGED store
    PROVE  /\ LogInv' /\ LogGrows
           /\ now' = now /\ indexFiles' = indexFiles /\ dirs' = dirs /\ log' = log
<1>1. /\ UNCHANGED <<now, log, state, cycle, started, dirs, indexFiles>>
  BY DEF store, vars
<1>2. Ordered'
  BY <1>1 DEF LogInv, Ordered
<1> QED
  BY <1>1, <1>2, SameLogGrows DEF LogInv

LEMMA WriterTailerInv ==
    ASSUME TailerInv, WriterStep
    PROVE  TailerInv'
<1>1. LogInv' /\ indexFiles \subseteq indexFiles'
  BY WriterLogInv DEF TailerInv
<1>2. UNCHANGED <<pc, next, index, tailer, buffer, returned, delivered>>
  BY DEF WriterStep
<1>3. UNCHANGED <<lastCycle, lastFile, indexRegion, lastThread, lastData, dataRegion>>
  BY <1>2 DEF tailer
<1>4. dirs' \subseteq Cycles /\ indexFiles' \subseteq Cycles \X (0..(MaxIndexFiles - 1))
  BY <1>1 DEF LogInv
<1>5. TailerTypeOK'
  BY <1>1, <1>2, <1>3, <1>4 DEF TailerInv, TailerTypeOK
<1> QED
  BY <1>1, <1>2, <1>3, <1>5 DEF TailerInv, MappedInv

(* Without a call of index() only the place of the tailer can change.      *)
LEMMA MoveTailerInv ==
    ASSUME TailerInv, UNCHANGED <<store, tailer, buffer>>,
           pc' \in {"idle", "look", "clock", "seek"},
           next' \in Nat, pc' # "idle" => IsIndex(next'),
           index' \in {-1} \cup Indices \cup {IndexOf(c, 0) - 1 : c \in Cycles},
           returned' \in BOOLEAN, delivered' \in [Cycles -> Seq(Excerpts)]
    PROVE  TailerInv'
<1>1. /\ LogInv' /\ indexFiles' = indexFiles
      /\ UNCHANGED <<dirs, lastCycle, lastFile, indexRegion, lastThread, lastData, dataRegion, buffer>>
  BY StoreKept DEF TailerInv, tailer
<1>2. TailerTypeOK'
  BY <1>1 DEF TailerInv, TailerTypeOK
<1> QED
  BY <1>1, <1>2 DEF TailerInv, MappedInv

(* A call of index() that ends.                                            *)
LEMMA CallTailerInv ==
    ASSUME TailerInv, UNCHANGED store, pc # "idle", Found(next) \/ NotFound(next),
           pc' \in {"idle", "clock"}, next' = IF pc' = "idle" THEN 0 ELSE next,
           returned' \in BOOLEAN, delivered' \in [Cycles -> Seq(Excerpts)]
    PROVE  TailerInv'
<1>1. IsIndex(next) /\ next \in Nat
  BY IsIndexFacts DEF TailerInv
<1>2. LogInv' /\ indexFiles' = indexFiles /\ dirs' = dirs
  BY StoreKept DEF TailerInv
<1>3. index' \in {-1} \cup Indices \cup {IndexOf(c, 0) - 1 : c \in Cycles}
  <2>1. index' = index \/ index' \in Indices
    BY <1>1, IndexCall
  <2> QED
    BY <2>1 DEF TailerInv, TailerTypeOK
<1>4. next' \in Nat /\ (pc' # "idle" => IsIndex(next'))
  BY <1>1
<1>5. TailerTypeOK'
  BY <1>1, <1>2, <1>3, <1>4, IndexCall DEF TailerInv, TailerTypeOK
<1> QED
  BY <1>1, <1>2, <1>4, <1>5, IndexCall DEF TailerInv

(* last_index() is an index: of the file index-0, the only one it counts.  *)
LEMMA LastIndexPlace ==
    ASSUME LogInv, dirs # {}, <<LastDir, 0>> \in indexFiles
    PROVE  /\ LastIndex = IndexOf(LastDir, EntryNumber(CountEntries(LastDir, 0)))
           /\ IsIndex(LastIndex)
<1>1. LastDir \in Nat /\ Len(log[LastDir]) \in Nat
  BY DirsEnds, LogElement
<1>2. 0 * SlotsPerFile = 0 /\ (0 + 1) * SlotsPerFile = SlotsPerFile /\ 0 * SlotsPerFile * 8 = 0
  BY Sizes
<1>3. CountEntries(LastDir, 0) \in 0..SlotsPerFile
  BY <1>1, <1>2, Sizes DEF CountEntries
<1>4. EntryNumber(CountEntries(LastDir, 0)) \in 0..(EntriesPerCycle - 1)
  BY <1>3, Sizes DEF EntryNumber
<1>5. LastIndexFileNumber(LastDir) = 0
  BY DEF LastIndexFileNumber
<1>6. LastIndex = IndexOf(LastDir, 0 + EntryNumber(CountEntries(LastDir, 0)))
  BY <1>2, <1>5 DEF LastIndex
<1>7. 0 + EntryNumber(CountEntries(LastDir, 0)) = EntryNumber(CountEntries(LastDir, 0))
  BY <1>4
<1> QED
  BY <1>1, <1>4, <1>6, <1>7 DEF IsIndex

LEMMA NextTailerInv == TailerInv /\ [TailerNext]_tailerVars => TailerInv'
<1> SUFFICES ASSUME TailerInv, [TailerNext]_tailerVars
             PROVE  TailerInv'
  OBVIOUS
<1>1. /\ TailerTypeOK /\ LogInv /\ next \in Nat
      /\ delivered \in [Cycles -> Seq(Excerpts)] /\ returned \in BOOLEAN
      /\ index \in {-1} \cup Indices \cup {IndexOf(c, 0) - 1 : c \in Cycles}
  BY DEF TailerInv, TailerTypeOK
<1>2. NoneDelivered \in [Cycles -> Seq(Excerpts)]
  BY EmptySeq DEF NoneDelivered
<1>3. ASSUME dirs # {}
      PROVE  /\ StartOf(FirstDir) \in {-1} \cup Indices \cup {IndexOf(c, 0) - 1 : c \in Cycles}
             /\ IsIndex(StartOf(FirstDir) + 1)
  <2>1. FirstDir \in Cycles /\ FirstDir \in Nat
    BY <1>1, <1>3, DirsEnds
  <2> QED
    BY <2>1, NextIndex DEF StartOf
<1>4. CASE WriterStep
  BY <1>4, WriterTailerInv
<1>5. CASE ToStart
  BY <1>1, <1>2, <1>3, <1>5, MoveTailerInv DEF ToStart, TailerInv
<1>6. CASE ToEnd
  <2>1. CASE LastIndex >= 0
    <3>1. dirs # {} /\ <<LastDir, 0>> \in indexFiles
      BY <2>1 DEF LastIndex, LastIndexFileNumber
    <3>2. IsIndex(LastIndex) /\ LastIndex \in Nat
      BY <1>1, <3>1, LastIndexPlace, IsIndexFacts
    <3> QED
      BY <1>1, <1>2, <1>6, <2>1, <3>2, MoveTailerInv DEF ToEnd
  <2>2. CASE ~ LastIndex >= 0
    BY <1>1, <1>2, <1>3, <1>6, <2>2, MoveTailerInv DEF ToEnd, TailerInv
  <2> QED
    BY <2>1, <2>2
<1>7. ASSUME NEW i \in Indices, CallIndex(i)
      PROVE  TailerInv'
  <2>1. PICK c \in Cycles, k \in 0..(MaxIndexFiles * SlotsPerFile - 1) : i = IndexOf(c, k)
    BY DEF Indices
  <2>2. c \in Nat /\ k \in 0..(EntriesPerCycle - 1)
    BY Sizes DEF Cycles
  <2>3. IsIndex(i) /\ i \in Nat
    BY <2>1, <2>2, IsIndexFacts DEF IsIndex
  <2> QED
    BY <1>1, <1>2, <1>7, <2>3, MoveTailerInv DEF CallIndex
<1>8. CASE Seek
  <2>1. /\ pc = "seek" /\ pc' = "idle" /\ next' = 0 /\ UNCHANGED <<store, delivered>>
        /\ Found(next) \/ NotFound(next)
        /\ returned' \in BOOLEAN
    BY <1>8 DEF Seek
  <2> QED
    BY <1>1, <2>1, CallTailerInv
<1>9. CASE CallNextIndex
  <2>1. PICK from : /\ from = (IF index < 0 THEN StartOf(FirstDir) ELSE index)
                    /\ index >= 0 \/ dirs # {}
                    /\ index' = from /\ next' = from + 1 /\ pc' = "look" /\ returned' = FALSE
                    /\ UNCHANGED <<store, tailer, buffer, delivered>>
    BY <1>9 DEF CallNextIndex
  <2>2. /\ from \in {-1} \cup Indices \cup {IndexOf(c, 0) - 1 : c \in Cycles}
        /\ IsIndex(from + 1)
    <3>1. index = -1 \/ (index \in Nat /\ IsIndex(index + 1))
      BY <1>1, IndexPlace
    <3> QED
      BY <3>1, <2>1, <1>1, <1>3
  <2>3. next' \in Nat /\ IsIndex(next')
    BY <2>1, <2>2, IsIndexFacts
  <2> QED
    BY <1>1, <2>1, <2>2, <2>3, MoveTailerInv
<1>10. CASE Look
  <2>1. pc = "look" /\ UNCHANGED store /\ IsIndex(next)
    BY <1>10 DEF Look, TailerInv
  <2>2. CASE /\ Found(next)
             /\ pc' = "idle" /\ next' = 0 /\ returned' = TRUE
             /\ delivered' = [delivered EXCEPT ![CycleOf(next)] = Append(@, buffer')]
    <3>1. CycleOf(next) \in Cycles /\ buffer' \in Excerpts
      BY <2>1, <2>2, IndexCall
    <3>2. Append(delivered[CycleOf(next)], buffer') \in Seq(Excerpts)
      BY <1>1, <3>1, AppendProperties
    <3>3. delivered' \in [Cycles -> Seq(Excerpts)]
      BY <1>1, <2>2, <3>1, <3>2
    <3> QED
      BY <2>1, <2>2, <3>3, CallTailerInv
  <2>3. CASE NotFound(next) /\ pc' = "clock" /\ UNCHANGED <<next, returned, delivered>>
    BY <1>1, <2>1, <2>3, CallTailerInv
  <2> QED
    BY <1>10, <2>2, <2>3 DEF Look
<1>11. CASE ReadClock
  <2>1. /\ pc = "clock" /\ UNCHANGED <<store, index, tailer, buffer, returned, delivered>>
        /\ IsIndex(next)
        /\ \/ pc' = "idle" /\ next' = 0
           \/ pc' = "look" /\ next' = NextCycleStart(next)
    BY <1>11 DEF ReadClock, TailerInv
  <2>2. IsIndex(NextCycleStart(next)) /\ NextCycleStart(next) \in Nat
    BY <2>1, NextIndex, IsIndexFacts
  <2> QED
    BY <1>1, <2>1, <2>2, MoveTailerInv
<1>12. CASE UNCHANGED tailerVars
  <2>1. UNCHANGED <<store, pc, next, index, tailer, buffer, returned, delivered>>
    BY <1>12 DEF tailerVars
  <2> QED
    BY <1>1, <2>1, MoveTailerInv DEF TailerInv, TailerTypeOK
<1> QED
  BY <1>4, <1>5, <1>6, <1>7, <1>8, <1>9, <1>10, <1>11, <1>12 DEF TailerNext, TailerStep

(* Theorem: the invariant the properties follow from, for any writers, any *)
(* sizes and any calls of the owner of the tailer.                         *)
THEOREM TailerInvariant == TailerSpec => []TailerInv
<1> QED
  BY InitTailerInv, NextTailerInv, PTL DEF TailerSpec

(* Theorem: what a tailer holds stays in its bounds: what it has mapped is *)
(* an index file that exists, m_index is an index of a cycle or in front   *)
(* of one, and the buffer shows an excerpt.                                *)
THEOREM TailerTypeCorrect == TailerSpec => []TailerTypeOK
<1>1. TailerInv => TailerTypeOK
  BY DEF TailerInv
<1> QED
  BY <1>1, TailerInvariant, PTL

(* Theorem: with one index file to a cycle, last_index() is the index of   *)
(* the newest entry of the newest cycle (it counts the entries of index-0  *)
(* only: the run LastIndexFiles shows that a second file is too many).     *)
THEOREM LastIndexCorrect == MaxIndexFiles = 1 => (TailerSpec => []LastIndexIsLast)
<1> SUFFICES ASSUME MaxIndexFiles = 1
             PROVE  TailerSpec => []LastIndexIsLast
  OBVIOUS
<1>1. TailerInv => LastIndexIsLast
  <2> SUFFICES ASSUME LogInv, dirs # {}, log[LastDir] # <<>>
               PROVE  LastIndex = IndexOf(LastDir, Len(log[LastDir]) - 1)
    BY DEF TailerInv, LastIndexIsLast
  <2>1. LastDir \in Cycles /\ <<LastDir, 0>> \in indexFiles
    BY DirsEnds DEF LogInv
  <2>2. PICK n \in Nat : n = Len(log[LastDir]) /\ n > 0 /\ n <= SlotsPerFile
    <3>1. log[LastDir] \in Seq(Excerpts) /\ Len(log[LastDir]) \in Nat
      BY <2>1, LogElement
    <3>2. Len(log[LastDir]) # 0
      BY <3>1, EmptySeq
    <3>3. Len(log[LastDir]) <= 1 * SlotsPerFile
      BY <2>1 DEF LogInv
    <3> QED
      BY <3>1, <3>2, <3>3, Sizes
  <2>3. 0 * SlotsPerFile = 0 /\ (0 + 1) * SlotsPerFile = SlotsPerFile
    BY Sizes
  <2>4. CountEntries(LastDir, 0) = n
    <3>1. CountEntries(LastDir, 0) = IF n <= 0 THEN 0
                                     ELSE IF n >= SlotsPerFile THEN SlotsPerFile ELSE n - 0
      BY <2>2, <2>3 DEF CountEntries
    <3> QED
      BY <3>1, <2>2, Sizes
  <2> QED
    BY <2>1, <2>2, <2>4, LastIndexPlace DEF EntryNumber
<1> QED
  BY <1>1, TailerInvariant, PTL

-----------------------------------------------------------------------------
(* A tailer that only goes forward.                                        *)

\* The data region maps the file that the tailer has the numbers of.  It
\* need not: after an index file of another cycle has been mapped, and its
\* slot was empty, the data region still maps a file of the cycle before,
\* and is taken for the new one if thread and number are the same.
DataMatches == dataRegion = Nothing \/ dataRegion = <<lastCycle, lastThread, lastData>>

\* next_index() never leaves that behind: it goes on to a cycle that has no
\* index file yet, which resets the index region, before it returns.
RegionsInv ==
    /\ pc # "seek"
    /\ pc = "idle" => indexRegion = Nothing \/ DataMatches
    /\ pc = "look" => indexRegion = Nothing \/ lastCycle # CycleOf(next) \/ DataMatches
    /\ pc = "clock" => indexRegion = Nothing \/ (lastCycle = CycleOf(next) /\ CycleOf(next) <= now)
    /\ returned => pc = "idle" /\ IsIndex(index) /\ EntryAt(index) # Nothing /\ buffer = EntryAt(index)

\* What has been delivered is what comes before an index.
ReadUpTo(i) ==
    \A c \in Cycles : /\ c = CycleOf(i) => Len(delivered[c]) = NumberOf(i)
                      /\ c > CycleOf(i) => delivered[c] = <<>>

DeliveredInv ==
    /\ index = -1 => \A c \in Cycles : delivered[c] = <<>>
    /\ index # -1 => ReadUpTo(index + 1)
    /\ pc # "idle" => ReadUpTo(next)
    /\ \A c \in Cycles : /\ Len(delivered[c]) <= Len(log[c])
                         /\ \A k \in 1..Len(delivered[c]) : delivered[c][k] = log[c][k]

ForwardInv == TailerInv /\ RegionsInv /\ DeliveredInv

LEMMA InitForwardInv == TailerInit => ForwardInv
<1> SUFFICES ASSUME TailerInit
             PROVE  ForwardInv
  OBVIOUS
<1>1. TailerInv
  BY InitTailerInv
<1>2. RegionsInv
  BY DEF TailerInit, RegionsInv
<1>3. \A c \in Cycles : delivered[c] = <<>>
  BY DEF TailerInit
<1>4. \A c \in Cycles : /\ Len(delivered[c]) <= Len(log[c])
                        /\ \A k \in 1..Len(delivered[c]) : delivered[c][k] = log[c][k]
  <2>1. ASSUME NEW c \in Cycles
        PROVE  Len(log[c]) \in Nat /\ Len(delivered[c]) = 0
    BY <1>1, <1>3, LogElement, EmptySeq DEF TailerInv
  <2> QED
    BY <2>1
<1>5. index = -1 /\ pc = "idle"
  BY DEF TailerInit
<1> QED
  BY <1>1, <1>2, <1>3, <1>4, <1>5 DEF ForwardInv, DeliveredInv

(* What a call of index() does to the regions of such a tailer.            *)
LEMMA LookFinds ==
    ASSUME TailerInv, RegionsInv, pc = "look", UNCHANGED store, Found(next)
    PROVE  /\ index' = next /\ CycleOf(next) \in Cycles
           /\ EntryAt(next) # Nothing /\ buffer' = EntryAt(next)
           /\ NumberOf(next) + 1 \in 1..Len(log[CycleOf(next)])
           /\ EntryAt(next) = log[CycleOf(next)][NumberOf(next) + 1]
           /\ DataMatches'
<1> DEFINE c == CycleOf(next)
           e == EntryAt(next)
<1>1. /\ LogInv /\ IsIndex(next) /\ MapsEntry(next) /\ MapsIndexFile(next) /\ index' = next
      /\ buffer' = Content(next, indexRegion', dataRegion')
  BY DEF TailerInv, Found, MapsEntry
<1>2. /\ indexRegion' = <<c, FileOf(next)>> /\ lastCycle' = c
      /\ c \in Cycles /\ SlotAt(indexRegion', SlotOf(next)) = e
  BY <1>1, MapsIndex, FileAndSlot
<1>3. e # Nothing /\ MapsDataFile(next, e)
  BY <1>1, <1>2 DEF MapsEntry
<1>4. NumberOf(next) + 1 \in 1..Len(log[c]) /\ e = log[c][NumberOf(next) + 1]
  BY <1>1, <1>3, MapsIndex, FileAndSlot
<1>5. indexRegion'[1] = c
  BY <1>2
<1>6. /\ dataRegion' = <<c, e[1], DataFileOf(e, c)>>
      /\ lastThread' = e[1] /\ lastData' = DataFileOf(e, c)
  <2>1. CASE KeepsDataRegion(next, e)
    <3>1. /\ lastThread = e[1] /\ lastData = DataFileOf(e, c)
          /\ indexRegion # Nothing /\ lastCycle = c /\ dataRegion # Nothing
      BY <2>1, <1>5 DEF KeepsDataRegion, IndexFileChanges
    <3>2. dataRegion = <<lastCycle, lastThread, lastData>>
      BY <3>1 DEF RegionsInv, DataMatches
    <3> QED
      BY <2>1, <3>1, <3>2, <1>3 DEF MapsDataFile
  <2>2. CASE ~ KeepsDataRegion(next, e)
    BY <2>2, <1>3, <1>5 DEF MapsDataFile
  <2> QED
    BY <2>1, <2>2
<1>7. buffer' = ContentAt(<<c, e[1], DataFileOf(e, c)>>, OffsetOf(e, c))
  BY <1>1, <1>2, <1>5, <1>6 DEF Content
<1>8. buffer' = e
  BY <1>1, <1>2, <1>4, <1>7, ContentIsEntry
<1> QED
  BY <1>1, <1>2, <1>3, <1>4, <1>6, <1>8 DEF DataMatches

LEMMA LookFindsNot ==
    ASSUME TailerInv, UNCHANGED store, IsIndex(next), NotFound(next)
    PROVE  indexRegion' = Nothing \/ (lastCycle' = CycleOf(next) /\ CycleOf(next) <= now)
<1>1. IndexFileMissing(next) \/ MapsIndexFile(next)
  BY DEF NotFound, SlotEmpty, LengthMissing, MapsEntry
<1> QED
  BY <1>1, MapsIndex, FileAndSlot DEF IndexFileMissing, TailerInv

(* The one excerpt that a call delivers is the next of its cycle.          *)
LEMMA Delivers ==
    ASSUME LogInv, DeliveredInv, delivered \in [Cycles -> Seq(Excerpts)],
           NEW i, IsIndex(i), ReadUpTo(i), CycleOf(i) \in Cycles, NEW e \in Excerpts,
           NumberOf(i) + 1 \in 1..Len(log[CycleOf(i)]), e = log[CycleOf(i)][NumberOf(i) + 1],
           delivered' = [delivered EXCEPT ![CycleOf(i)] = Append(@, e)]
    PROVE  /\ ReadUpTo(i + 1)'
           /\ \A c \in Cycles : /\ Len(delivered'[c]) <= Len(log[c])
                                /\ \A k \in 1..Len(delivered'[c]) : delivered'[c][k] = log[c][k]
<1>1. PICK d \in Cycles, n \in Nat, s \in Seq(Excerpts), z \in Seq(Excerpts) :
        /\ d = CycleOf(i) /\ n = NumberOf(i) /\ s = delivered[d] /\ z = Append(s, e)
        /\ delivered' = [delivered EXCEPT ![d] = z]
  <2>1. NumberOf(i) \in Nat /\ delivered[CycleOf(i)] \in Seq(Excerpts)
    BY IsIndexFacts, Sizes
  <2>2. Append(delivered[CycleOf(i)], e) \in Seq(Excerpts)
    BY <2>1, AppendProperties
  <2> QED
    BY <2>1, <2>2
<1>2. Len(s) = n /\ n + 1 <= Len(log[d]) /\ e = log[d][n + 1] /\ d \in Nat /\ Len(log[d]) \in Nat
  BY <1>1, Sizes, LogElement DEF ReadUpTo, Cycles
<1>3. Len(z) = n + 1 /\ z[n + 1] = e /\ \A k \in 1..n : z[k] = s[k]
  BY <1>1, <1>2, AppendProperties
<1>4. \A c \in Cycles : delivered'[c] = IF c = d THEN z ELSE delivered[c]
  BY <1>1
<1>5. ASSUME NEW c \in Cycles
      PROVE  /\ Len(delivered'[c]) <= Len(log[c])
             /\ \A k \in 1..Len(delivered'[c]) : delivered'[c][k] = log[c][k]
  <2>1. CASE c # d
    <3>1. delivered'[c] = delivered[c]
      BY <2>1, <1>4
    <3>2. /\ Len(delivered[c]) <= Len(log[c])
          /\ \A k \in 1..Len(delivered[c]) : delivered[c][k] = log[c][k]
      BY DEF DeliveredInv
    <3> QED
      BY <3>1, <3>2
  <2>2. CASE c = d
    <3>1. \A k \in 1..n : s[k] = log[d][k]
      BY <1>1, <1>2 DEF DeliveredInv
    <3>2. \A k \in 1..(n + 1) : k \in 1..n \/ k = n + 1
      OBVIOUS
    <3>3. \A k \in 1..(n + 1) : z[k] = log[d][k]
      BY <3>1, <3>2, <1>2, <1>3
    <3>4. delivered'[c] = z
      BY <2>2, <1>4
    <3> QED
      BY <3>3, <3>4, <2>2, <1>2, <1>3
  <2> QED
    BY <2>1, <2>2
<1>6. \/ CycleOf(i + 1) = d /\ NumberOf(i + 1) = n + 1
      \/ CycleOf(i + 1) = d + 1 /\ NumberOf(i + 1) = 0
  BY <1>1, NextIndex
<1>7. \A c \in Cycles : c \in Nat /\ (c > d => delivered[c] = <<>> /\ Len(delivered[c]) = 0)
  BY <1>1, Sizes, EmptySeq DEF ReadUpTo, Cycles
<1>8. ReadUpTo(i + 1)'
  <2>1. ASSUME NEW c \in Cycles
        PROVE  /\ c = CycleOf(i + 1) => Len(delivered'[c]) = NumberOf(i + 1)
               /\ c > CycleOf(i + 1) => delivered'[c] = <<>>
    <3>1. PICK y : y = delivered'[c] /\ y = IF c = d THEN z ELSE delivered[c]
      BY <1>4
    <3>2. PICK q \in Nat, m \in Nat : q = CycleOf(i + 1) /\ m = NumberOf(i + 1)
      BY <1>2, <1>6
    <3>3. c \in Nat /\ (c > d => y = <<>> /\ Len(y) = 0) /\ (c = d => Len(y) = n + 1)
      BY <3>1, <1>2, <1>3, <1>7
    <3>4. (q = d /\ m = n + 1) \/ (q = d + 1 /\ m = 0)
      BY <3>2, <1>6
    <3>5. (c = q => Len(y) = m) /\ (c > q => y = <<>>)
      BY <3>3, <3>4, <1>2
    <3> QED
      BY <3>1, <3>2, <3>5
  <2> QED
    BY <2>1 DEF ReadUpTo, CycleOf, NumberOf
<1> QED
  BY <1>5, <1>8

LEMMA EntryStays ==
    ASSUME LogInv, LogGrows, NEW i, IsIndex(i), EntryAt(i) # Nothing
    PROVE  EntryAt(i)' = EntryAt(i)
<1>1. PICK c \in Nat, f \in Nat, s \in Nat, k \in Nat :
        c = CycleOf(i) /\ f = FileOf(i) /\ s = SlotOf(i) /\ k = f * SlotsPerFile + s
  BY IsIndexFacts, Sizes
<1>2. EntryAt(i) = IF c \in Cycles /\ k < Len(log[c]) THEN log[c][k + 1] ELSE Nothing
  BY <1>1 DEF EntryAt, SlotAt
<1>3. EntryAt(i)' = IF c \in Cycles /\ k < Len(log'[c]) THEN log'[c][k + 1] ELSE Nothing
  <2>1. <<c, f>>[1] = c /\ <<c, f>>[2] = f /\ CycleOf(i) = c /\ FileOf(i) = f /\ SlotOf(i) = s
    BY <1>1
  <2> QED
    BY <2>1, <1>1 DEF EntryAt, SlotAt, CycleOf, FileOf, SlotOf, NumberOf
<1>4. c \in Cycles /\ k < Len(log[c]) /\ EntryAt(i) = log[c][k + 1]
  BY <1>2
<1>5. k + 1 \in 1..Len(log[c]) /\ Len(log[c]) \in Nat
  BY <1>1, <1>4, LogElement
<1>6. Len(log[c]) <= Len(log'[c]) /\ log'[c][k + 1] = log[c][k + 1]
  BY <1>4, <1>5 DEF LogGrows
<1>7. k < Len(log'[c])
  BY <1>1, <1>4, <1>5, <1>6
<1> QED
  BY <1>3, <1>4, <1>6, <1>7

LEMMA WriterForwardInv ==
    ASSUME ForwardInv, WriterStep
    PROVE  ForwardInv'
<1>1. /\ TailerInv' /\ LogInv /\ LogInv' /\ LogGrows /\ now <= now' /\ now \in Int /\ now' \in Int
      /\ delivered \in [Cycles -> Seq(Excerpts)]
  <2>1. LogInv /\ LogInv'
    BY WriterTailerInv DEF ForwardInv, TailerInv
  <2>2. now \in Int /\ now' \in Int
    BY <2>1, Sizes DEF LogInv, Cycles
  <2> QED
    BY <2>1, <2>2, WriterTailerInv, WriterLogInv DEF ForwardInv, TailerInv, TailerTypeOK
<1>2. UNCHANGED <<pc, next, index, tailer, buffer, returned, delivered>>
  BY DEF WriterStep
<1>3. UNCHANGED <<lastCycle, lastFile, indexRegion, lastThread, lastData, dataRegion>>
  BY <1>2 DEF tailer
<1>4. RegionsInv'
  <2>1. DataMatches' <=> DataMatches
    BY <1>3 DEF DataMatches
  <2>2. CycleOf(next)' = CycleOf(next)
    BY <1>2 DEF CycleOf
  <2>3. pc = "clock" => indexRegion = Nothing \/ (lastCycle = CycleOf(next) /\ CycleOf(next) <= now')
    <3>1. pc = "clock" => CycleOf(next) \in Int
      BY IsIndexFacts DEF ForwardInv, TailerInv
    <3> QED
      BY <3>1, <1>1 DEF ForwardInv, RegionsInv
  <2>4. returned => /\ pc = "idle" /\ IsIndex(index)
                    /\ EntryAt(index)' # Nothing /\ buffer = EntryAt(index)'
    <3>1. ASSUME returned
          PROVE  EntryAt(index)' = EntryAt(index)
      <4>1. PICK i : i = index
        OBVIOUS
      <4>2. IsIndex(i) /\ EntryAt(i) # Nothing /\ i = index'
        BY <3>1, <4>1, <1>2 DEF ForwardInv, RegionsInv
      <4>3. EntryAt(i)' = EntryAt(i)
        BY <4>2, <1>1, EntryStays
      <4> QED
        BY <4>1, <4>2, <4>3 DEF EntryAt, SlotAt, CycleOf, FileOf, SlotOf, NumberOf
    <3> QED
      BY <3>1 DEF ForwardInv, RegionsInv
  <2>5. IsIndex(index)' <=> IsIndex(index)
    BY <1>2 DEF IsIndex
  <2> QED
    BY <2>1, <2>2, <2>3, <2>4, <2>5, <1>2, <1>3 DEF ForwardInv, RegionsInv
<1>5. DeliveredInv'
  <2>1. ASSUME NEW c \in Cycles
        PROVE  /\ Len(delivered[c]) <= Len(log'[c])
               /\ \A k \in 1..Len(delivered[c]) : delivered[c][k] = log'[c][k]
    <3>1. PICK s \in Seq(Excerpts), x \in Seq(Excerpts), y \in Seq(Excerpts) :
            s = delivered[c] /\ x = log[c] /\ y = log'[c]
      BY <1>1, LogElement DEF LogInv
    <3>2. /\ Len(s) \in Nat /\ Len(x) \in Nat /\ Len(s) <= Len(x) /\ Len(x) <= Len(y)
          /\ \A k \in 1..Len(s) : s[k] = x[k]
          /\ \A k \in 1..Len(x) : y[k] = x[k]
      BY <3>1, <1>1, LenProperties DEF ForwardInv, DeliveredInv, LogGrows
    <3> QED
      BY <3>1, <3>2
  <2> QED
    BY <2>1, <1>2 DEF ForwardInv, DeliveredInv, ReadUpTo, CycleOf, NumberOf
<1> QED
  BY <1>1, <1>4, <1>5 DEF ForwardInv

\* Nothing has been read of any cycle: the next is the start of one.
LEMMA NothingRead ==
    ASSUME \A d \in Cycles : delivered'[d] = <<>>, NEW c \in Nat
    PROVE  ReadUpTo(IndexOf(c, 0))'
<1>1. PICK i : i = IndexOf(c, 0) /\ CycleOf(i) = c /\ NumberOf(i) = 0
  BY Sizes, IndexParts
<1>2. ReadUpTo(i)'
  BY <1>1, EmptySeq DEF ReadUpTo, CycleOf, NumberOf
<1> QED
  BY <1>1, <1>2 DEF IndexOf, ReadUpTo, CycleOf, NumberOf

LEMMA ToStartForwardInv ==
    ASSUME ForwardInv, TailerInv', ToStart
    PROVE  ForwardInv'
<1>1. /\ LogInv /\ dirs # {} /\ pc = "idle" /\ index' = StartOf(FirstDir) /\ returned' = FALSE
      /\ delivered' = NoneDelivered /\ pc' = pc /\ next' = next
      /\ UNCHANGED <<tailer, now>> /\ UNCHANGED store
  BY DEF ToStart, ForwardInv, TailerInv, store, vars
<1>2. FirstDir \in Nat
  BY <1>1, DirsEnds
<1>3. PICK c \in Nat, i \in Nat : c = FirstDir /\ i = StartOf(c) /\ i + 1 = IndexOf(c, 0)
  BY <1>2, NextIndex
<1>4. RegionsInv'
  BY <1>1 DEF ForwardInv, RegionsInv, DataMatches, tailer
<1>5. \A d \in Cycles : delivered'[d] = <<>>
  BY <1>1 DEF NoneDelivered
<1>6. ReadUpTo(i + 1)'
  BY <1>3, <1>5, NothingRead
<1>7. ReadUpTo(index + 1)'
  BY <1>1, <1>3, <1>6 DEF ReadUpTo, CycleOf, NumberOf
<1>8. \A d \in Cycles : Len(delivered'[d]) = 0 /\ Len(log'[d]) \in Nat
  BY <1>1, <1>5, EmptySeq, StoreKept, LogElement
<1> QED
  BY <1>1, <1>4, <1>5, <1>7, <1>8 DEF ForwardInv, DeliveredInv

LEMMA CallForwardInv ==
    ASSUME ForwardInv, TailerInv', CallNextIndex
    PROVE  ForwardInv'
<1>1. PICK from : /\ from = (IF index < 0 THEN StartOf(FirstDir) ELSE index)
                  /\ index >= 0 \/ dirs # {}
                  /\ index' = from /\ next' = from + 1 /\ pc' = "look" /\ returned' = FALSE
                  /\ pc = "idle"
                  /\ UNCHANGED <<store, tailer, buffer, delivered>>
  BY DEF CallNextIndex
<1>2. LogInv /\ TailerTypeOK
  BY DEF ForwardInv, TailerInv
<1>3. RegionsInv'
  BY <1>1 DEF ForwardInv, RegionsInv, DataMatches, tailer
<1>4. index = -1 \/ index \in Nat
  BY <1>2, IndexPlace
<1>5. from \in Nat /\ ReadUpTo(from + 1)'
  <2>1. CASE index = -1
    <3>1. dirs # {} /\ from = StartOf(FirstDir) /\ \A d \in Cycles : delivered'[d] = <<>>
      BY <2>1, <1>1 DEF ForwardInv, DeliveredInv
    <3>2. PICK c \in Nat : c = FirstDir
      BY <3>1, <1>2, DirsEnds
    <3>3. StartOf(c) + 1 = IndexOf(c, 0) /\ StartOf(c) \in Nat
      BY NextIndex
    <3>4. ReadUpTo(IndexOf(c, 0))'
      BY <3>1, NothingRead
    <3>5. from \in Nat /\ from + 1 = IndexOf(c, 0)
      BY <3>1, <3>2, <3>3
    <3> QED
      BY <3>4, <3>5 DEF ReadUpTo, CycleOf, NumberOf, IndexOf
  <2>2. CASE index \in Nat
    <3>1. from = index /\ ReadUpTo(from + 1)
      BY <2>2, <1>1 DEF ForwardInv, DeliveredInv
    <3> QED
      BY <2>2, <3>1, <1>1 DEF ReadUpTo, CycleOf, NumberOf
  <2> QED
    BY <2>1, <2>2, <1>4
<1>6. ReadUpTo(index + 1)' /\ ReadUpTo(next)' /\ index' # -1
  BY <1>1, <1>5 DEF ReadUpTo, CycleOf, NumberOf
<1>7. log' = log
  BY <1>1, <1>2, StoreKept
<1> QED
  BY <1>1, <1>3, <1>6, <1>7 DEF ForwardInv, DeliveredInv

LEMMA LookForwardInv ==
    ASSUME ForwardInv, TailerInv', Look
    PROVE  ForwardInv'
<1>1. /\ TailerInv /\ RegionsInv /\ DeliveredInv /\ LogInv /\ IsIndex(next) /\ ReadUpTo(next)
      /\ pc = "look" /\ UNCHANGED store /\ delivered \in [Cycles -> Seq(Excerpts)]
  BY DEF Look, ForwardInv, TailerInv, DeliveredInv, TailerTypeOK
<1>2. log' = log /\ now' = now /\ LogGrows
  BY <1>1, StoreKept
<1>3. PICK i \in Nat : i = next
  BY <1>1, IsIndexFacts
<1>4. CASE /\ Found(next)
           /\ pc' = "idle" /\ next' = 0 /\ returned' = TRUE
           /\ delivered' = [delivered EXCEPT ![CycleOf(next)] = Append(@, buffer')]
  <2>1. /\ index' = i /\ CycleOf(i) \in Cycles
        /\ EntryAt(i) # Nothing /\ buffer' = EntryAt(i)
        /\ NumberOf(i) + 1 \in 1..Len(log[CycleOf(i)])
        /\ EntryAt(i) = log[CycleOf(i)][NumberOf(i) + 1]
        /\ DataMatches'
    BY <1>1, <1>3, <1>4, LookFinds
  <2>2. PICK e \in Excerpts : e = buffer'
    BY <2>1, <1>1, LogElement
  <2>3. /\ delivered' = [delivered EXCEPT ![CycleOf(i)] = Append(@, e)]
        /\ e = log[CycleOf(i)][NumberOf(i) + 1]
        /\ IsIndex(i) /\ ReadUpTo(i)
    BY <2>1, <2>2, <1>1, <1>3, <1>4
  <2>4. /\ ReadUpTo(i + 1)'
        /\ \A c \in Cycles : /\ Len(delivered'[c]) <= Len(log[c])
                             /\ \A k \in 1..Len(delivered'[c]) : delivered'[c][k] = log[c][k]
    BY <2>1, <2>2, <2>3, <1>1, Delivers
  <2>5. EntryAt(i)' = EntryAt(i)
    BY <2>1, <2>3, <1>1, <1>2, EntryStays
  <2>6. EntryAt(index)' = EntryAt(i) /\ (IsIndex(index)' <=> IsIndex(i))
    BY <2>1, <2>5 DEF EntryAt, SlotAt, CycleOf, FileOf, SlotOf, NumberOf, IsIndex
  <2>7. RegionsInv'
    BY <2>1, <2>3, <2>6, <1>4 DEF RegionsInv
  <2>8. ReadUpTo(index + 1)' /\ index' # -1
    BY <2>1, <2>4 DEF ReadUpTo, CycleOf, NumberOf
  <2> QED
    BY <2>4, <2>7, <2>8, <1>2, <1>4 DEF ForwardInv, DeliveredInv
<1>5. CASE NotFound(next) /\ pc' = "clock" /\ UNCHANGED <<next, returned, delivered>>
  <2>1. indexRegion' = Nothing \/ (lastCycle' = CycleOf(next) /\ CycleOf(next) <= now)
    BY <1>1, <1>5, LookFindsNot
  <2>2. index' = index
    BY <1>5 DEF NotFound, IndexFileMissing, SlotEmpty, LengthMissing
  <2>3. RegionsInv'
    BY <2>1, <1>1, <1>2, <1>5 DEF RegionsInv, CycleOf
  <2>4. DeliveredInv'
    BY <2>2, <1>1, <1>2, <1>5 DEF DeliveredInv, ReadUpTo, CycleOf, NumberOf
  <2> QED
    BY <2>3, <2>4 DEF ForwardInv
<1> QED
  BY <1>4, <1>5 DEF Look

LEMMA ClockForwardInv ==
    ASSUME ForwardInv, TailerInv', ReadClock
    PROVE  ForwardInv'
<1>1. /\ RegionsInv /\ DeliveredInv /\ LogInv /\ IsIndex(next) /\ ReadUpTo(next)
      /\ pc = "clock" /\ UNCHANGED <<store, index, tailer, buffer, returned, delivered>>
      /\ UNCHANGED <<lastCycle, lastFile, indexRegion, lastThread, lastData, dataRegion>>
  BY DEF ReadClock, ForwardInv, TailerInv, DeliveredInv, tailer
<1>2. log' = log /\ now' = now
  BY <1>1, StoreKept
<1>3. CycleOf(next) \in Nat /\ now \in Nat
  BY <1>1, IsIndexFacts, Sizes DEF LogInv, Cycles
<1>4. CASE CycleOf(next) > now /\ pc' = "idle" /\ next' = 0
  <2>1. indexRegion' = Nothing
    BY <1>1, <1>3, <1>4 DEF RegionsInv
  <2>2. RegionsInv'
    BY <2>1, <1>1, <1>4 DEF RegionsInv
  <2>3. DeliveredInv'
    BY <1>1, <1>2, <1>4 DEF DeliveredInv, ReadUpTo, CycleOf, NumberOf
  <2> QED
    BY <2>2, <2>3 DEF ForwardInv
<1>5. CASE ~ CycleOf(next) > now /\ pc' = "look" /\ next' = NextCycleStart(next)
  <2>1. PICK i \in Nat, j \in Nat :
          i = next /\ j = NextCycleStart(i) /\ CycleOf(j) = CycleOf(i) + 1 /\ NumberOf(j) = 0
    <3>1. next \in Nat /\ NextCycleStart(next) \in Nat
      BY <1>1, NextIndex, IsIndexFacts
    <3> QED
      BY <3>1, <1>1, NextIndex
  <2>2. indexRegion' = Nothing \/ lastCycle' # CycleOf(j)
    BY <2>1, <1>1, <1>3 DEF RegionsInv
  <2>3. RegionsInv'
    <3>1. next' = j
      BY <2>1, <1>5
    <3> QED
      BY <2>2, <3>1, <1>1, <1>5 DEF RegionsInv, CycleOf
  <2>4. ReadUpTo(j)'
    <3>1. \A c \in Cycles : c \in Nat
      BY Sizes DEF Cycles
    <3>2. ASSUME NEW c \in Cycles
          PROVE  /\ c = CycleOf(j) => Len(delivered[c]) = NumberOf(j)
                 /\ c > CycleOf(j) => delivered[c] = <<>>
      BY <3>1, <2>1, <1>1, <1>3, EmptySeq DEF ReadUpTo
    <3> QED
      BY <3>2, <1>1 DEF ReadUpTo, CycleOf, NumberOf
  <2>5. ReadUpTo(next)'
    BY <2>1, <2>4, <1>5 DEF ReadUpTo, CycleOf, NumberOf
  <2>6. DeliveredInv'
    BY <2>5, <1>1, <1>2, <1>5 DEF DeliveredInv, ReadUpTo, CycleOf, NumberOf
  <2> QED
    BY <2>3, <2>6 DEF ForwardInv
<1> QED
  BY <1>4, <1>5 DEF ReadClock

LEMMA NextForwardInv ==
    ASSUME OnlyForward, ForwardInv, [TailerNext]_tailerVars
    PROVE  ForwardInv'
<1>1. TailerInv'
  BY NextTailerInv DEF ForwardInv
<1>2. CASE WriterStep
  BY <1>2, WriterForwardInv
<1>3. CASE ToStart
  BY <1>1, <1>3, ToStartForwardInv
<1>4. CASE CallNextIndex
  BY <1>1, <1>4, CallForwardInv
<1>5. CASE Look
  BY <1>1, <1>5, LookForwardInv
<1>6. CASE ReadClock
  BY <1>1, <1>6, ClockForwardInv
<1>7. ~ Seek /\ ~ ToEnd /\ \A i \in Indices : ~ CallIndex(i)
  <2>1. ~ Seek
    BY DEF Seek, ForwardInv, RegionsInv
  <2>2. "to_end" \notin Calls /\ "index" \notin Calls
    BY DEF OnlyForward
  <2> QED
    BY <2>1, <2>2 DEF ToEnd, CallIndex
<1>8. CASE UNCHANGED tailerVars
  <2>1. UNCHANGED <<store, pc, next, index, tailer, buffer, returned, delivered>>
    BY <1>8 DEF tailerVars
  <2>2. /\ UNCHANGED <<now, log>>
        /\ UNCHANGED <<lastCycle, lastFile, indexRegion, lastThread, lastData, dataRegion>>
    BY <2>1 DEF store, vars, tailer
  <2>3. RegionsInv'
    BY <2>1, <2>2 DEF ForwardInv, RegionsInv, DataMatches, CycleOf, NumberOf, FileOf, SlotOf,
                      EntryAt, SlotAt, IsIndex
  <2>4. DeliveredInv'
    BY <2>1, <2>2 DEF ForwardInv, DeliveredInv, ReadUpTo, CycleOf, NumberOf
  <2> QED
    BY <2>3, <2>4, <1>1 DEF ForwardInv
<1> QED
  BY <1>2, <1>3, <1>4, <1>5, <1>6, <1>7, <1>8 DEF TailerNext, TailerStep

(* Theorem: the invariant of a tailer that only goes forward.              *)
THEOREM ForwardInvariant == OnlyForward => (TailerSpec => []ForwardInv)
<1> SUFFICES ASSUME OnlyForward
             PROVE  TailerSpec => []ForwardInv
  OBVIOUS
<1>1. ForwardInv /\ [TailerNext]_tailerVars => ForwardInv'
  BY NextForwardInv
<1> QED
  BY <1>1, InitForwardInv, PTL DEF TailerSpec

(* Theorem: what a call of next_index() has put into the buffer is the     *)
(* excerpt published at m_index, whatever the writers have done since.     *)
THEOREM ForwardReadsPublished == OnlyForward => (TailerSpec => []ReadsPublished)
<1> SUFFICES ASSUME OnlyForward
             PROVE  TailerSpec => []ReadsPublished
  OBVIOUS
<1>1. ForwardInv => ReadsPublished
  BY DEF ForwardInv, RegionsInv, ReadsPublished
<1> QED
  BY <1>1, ForwardInvariant, PTL

(* Theorem: such a tailer delivers the excerpts of every cycle in the      *)
(* order they were published, none twice and none left out in between, for *)
(* any number of writers, cycles, index files and data files.              *)
THEOREM ForwardDeliversInOrder == OnlyForward => (TailerSpec => []DeliversInOrder)
<1> SUFFICES ASSUME OnlyForward
             PROVE  TailerSpec => []DeliversInOrder
  OBVIOUS
<1>1. ForwardInv => DeliversInOrder
  <2> SUFFICES ASSUME ForwardInv, NEW c \in Cycles
               PROVE  IsPrefix(delivered[c], log[c])
    BY DEF DeliversInOrder
  <2>1. PICK s \in Seq(Excerpts), x \in Seq(Excerpts) : s = delivered[c] /\ x = log[c]
    BY LogElement DEF ForwardInv, TailerInv, TailerTypeOK
  <2>2. /\ Len(s) \in Nat /\ Len(x) \in Nat /\ Len(s) <= Len(x)
        /\ \A k \in 1..Len(s) : s[k] = x[k] /\ s[k] \in Excerpts
    BY <2>1, LenProperties, ElementOfSeq DEF ForwardInv, DeliveredInv
  <2>3. SubSeq(s, 1, Len(s)) = SubSeq(x, 1, Len(s))
    <3>1. PICK n \in Nat : n = Len(s)
      BY <2>2
    <3>2. \A k \in 1..n : s[k] \in Excerpts /\ x[k] \in Excerpts
      BY <2>2, <3>1
    <3>3. /\ SubSeq(s, 1, n) \in Seq(Excerpts) /\ SubSeq(x, 1, n) \in Seq(Excerpts)
          /\ Len(SubSeq(s, 1, n)) = IF 1 <= n THEN n - 1 + 1 ELSE 0
          /\ Len(SubSeq(x, 1, n)) = IF 1 <= n THEN n - 1 + 1 ELSE 0
          /\ \A k \in 1..(n - 1 + 1) : SubSeq(s, 1, n)[k] = s[1 + k - 1]
          /\ \A k \in 1..(n - 1 + 1) : SubSeq(x, 1, n)[k] = x[1 + k - 1]
      BY <3>2, SubSeqProperties
    <3>4. Len(SubSeq(s, 1, n)) = n /\ Len(SubSeq(x, 1, n)) = n
      BY <3>3
    <3>5. \A k \in 1..n : SubSeq(s, 1, n)[k] = SubSeq(x, 1, n)[k]
      BY <3>3, <3>1, <2>2
    <3> QED
      BY <3>1, <3>3, <3>4, <3>5, SeqEqual
  <2> QED
    BY <2>1, <2>2, <2>3 DEF IsPrefix
<1> QED
  BY <1>1, ForwardInvariant, PTL

(* Theorem: reading changes nothing.  Whatever a tailer does, the logs see *)
(* only the steps ChronicleLog allows, those of the writers and the clock. *)
THEOREM TailerFollowsLog == TailerSpec => Spec
<1>1. TailerInit => Init
  BY DEF TailerInit
<1>2. [TailerNext]_tailerVars => [Next]_vars
  <2> SUFFICES ASSUME [TailerNext]_tailerVars
               PROVE  Next \/ UNCHANGED vars
    OBVIOUS
  <2>1. CASE WriterStep
    <3>1. ASSUME NEW w \in Writers, StartExcerpt(w)
          PROVE  Next
      BY <3>1 DEF StartExcerpt, Next
    <3>2. ASSUME NEW w \in Writers, MakeDirectory(w) \/ OpenIndexFile(w)
          PROVE  UNCHANGED vars
      BY <3>2 DEF MakeDirectory, OpenIndexFile
    <3>3. ASSUME NEW w \in Writers, PublishIndex(w) \/ Return(w)
          PROVE  Next
      BY <3>3 DEF PublishIndex, Next
    <3> QED  BY <2>1, <3>1, <3>2, <3>3 DEF WriterStep, Next
  <2>2. CASE TailerStep \/ ToStart \/ ToEnd \/ \E i \in Indices : CallIndex(i)
    <3>1. UNCHANGED store
      BY <2>2 DEF TailerStep, CallNextIndex, Look, ReadClock, Seek, ToStart,
                  ToEnd, CallIndex
    <3> QED  BY <3>1 DEF store
  <2>3. CASE UNCHANGED tailerVars
    BY <2>3 DEF tailerVars, store
  <2> QED
    BY <2>1, <2>2, <2>3 DEF TailerNext
<1> QED
  BY <1>1, <1>2, PTL DEF TailerSpec, Spec
=============================================================================
