------------------------ MODULE ExcerptAppenderProofs ------------------------
(***************************************************************************)
(* Proofs about ExcerptAppender: what has been published stays intact, for *)
(* any number of appenders, threads, files and any sizes, as long as no    *)
(* thread uses two appenders (OwnThreads; without that it does not hold).  *)
(***************************************************************************)
EXTENDS ExcerptAppender, NumberLemmas, SequenceTheorems, TLAPS

(* Appenders that are alive at the same time are used by different threads. *)
OwnThreads == \A a, b \in Writers : a # b => ThreadsOf[a] \cap ThreadsOf[b] = {}

\* The types of the variables of ChronicleLog.
LogTypeOK ==
    /\ now \in Cycles
    /\ log \in [Cycles -> Seq(Tickets)]
    /\ state \in [Writers -> {"none", "open", "logged"}]
    /\ cycle \in [Writers -> Cycles \cup {-1}]
    /\ started \in [Writers -> 0..MaxExcerpts]

TypeInv == LogTypeOK /\ DataTypeOK

(* A cached region is over a file that exists.                             *)
CacheInv == \A p \in Procs : \A r \in dcache[p] : KeyOf(r) \in DOMAIN data

(* The region an appender holds is the last file of its thread and cycle;  *)
(* an excerpt has its room behind the region's position.                   *)
Holds(a) ==
    /\ dheld[a] # NoRegion =>
         /\ cycle[a] \in Cycles /\ thr[a] \in ThreadsOf[a]
         /\ KeyOf(dheld[a]) = <<cycle[a], thr[a], dataNo[a]>>
         /\ KeyOf(dheld[a]) \in DOMAIN data
         /\ \A k \in DOMAIN data : k[1] = cycle[a] /\ k[2] = thr[a] => k[3] <= dataNo[a]
         /\ dregions[dheld[a]].position % 4 = 0
    /\ state[a] \in {"open", "logged"} =>
         /\ dheld[a] # NoRegion /\ started[a] # 0
         /\ buf[a].at = dregions[dheld[a]].position + 4
         /\ buf[a].at + buf[a].capacity <= DataBlockSize
         /\ buf[a].capacity # 0 /\ buf[a].position <= buf[a].capacity
    /\ inFinish[a] => state[a] \in {"open", "logged"}

(* What an excerpt that is being written has put into its file so far.     *)
Contents(a) ==
    LET key == KeyOf(dheld[a])
        at == buf[a].at
    IN  /\ state[a] = "open" =>
             \A o \in at..(at + buf[a].position - 1) : data[key][o] = <<a, started[a]>>
        /\ state[a] = "open" /\ inFinish[a] =>
             /\ value[<<a, started[a]>>] = IndexValue(thr[a], dataNo[a], at)
             /\ \A o \in (at - 4)..(at - 1) : data[key][o] = Length(buf[a].position)

(* What is in the index has been started, and is not open any more.        *)
Logged ==
    \A c \in Cycles : \A e \in PublishedIn(c) :
        /\ e \in Tickets
        /\ e[2] <= started[e[1]]
        /\ state[e[1]] = "open" => e[2] < started[e[1]]

(* An excerpt of n bytes, and its length, are in the file.                 *)
Stands(key, at, n, e) ==
    /\ \A o \in (at - 4)..(at - 1) : data[key][o] = Length(n)
    /\ \A o \in at..(at + n - 1) : data[key][o] = e

(* Whoever holds a region over that file writes behind the excerpt; in     *)
(* finish() the position has yet to move behind the appender's own one.    *)
Clear(a, key, at, n) ==
    dheld[a] # NoRegion /\ KeyOf(dheld[a]) = key =>
        \/ at + n <= dregions[dheld[a]].position
        \/ state[a] = "logged" /\ at = buf[a].at /\ n = buf[a].position

PlacedAt(c, e, key, at, n) ==
    /\ key = <<c, ThreadOfValue(value[e]), FileOfValue(value[e])>>
    /\ at = OffsetOfValue(value[e])
    /\ n <= DataBlockSize - at
    /\ Stands(key, at, n, e)
    /\ \A a \in Writers : Clear(a, key, at, n)

Placed(c, e) ==
    \E key \in DOMAIN data, at \in 4..DataBlockSize, n \in Nat : PlacedAt(c, e, key, at, n)

PlacedInv == \A c \in Cycles : \A e \in PublishedIn(c) : Placed(c, e)

Inv ==
    /\ OwnThreads /\ TypeInv /\ CacheInv /\ Logged
    /\ \A a \in Writers : Holds(a) /\ Contents(a)
    /\ PlacedInv

-----------------------------------------------------------------------------
(* The index value of an excerpt tells thread, file and offset: the word   *)
(* is wide enough, and no offset reaches the next file.                    *)
THEOREM ValueDecodes ==
    ASSUME NEW t \in Threads, NEW f \in DataFiles, NEW at \in 0..(DataBlockSize - 1)
    PROVE  /\ ThreadOfValue(IndexValue(t, f, at)) = t
           /\ FileOfValue(IndexValue(t, f, at)) = f
           /\ OffsetOfValue(IndexValue(t, f, at)) = at
           /\ IndexValue(t, f, at) \in Nat
<1>. DEFINE B == DataBlockSize
            O == OffsetRange
            R == ThreadRange
            r == f * B + at
            v == t * O + r
<1>1. /\ B \in Nat \ {0} /\ O \in Nat \ {0} /\ R \in Nat
      /\ t \in Nat /\ f \in Nat /\ at \in 0..(B - 1)
      /\ t + 1 <= R /\ f + 1 <= MaxDataFiles /\ MaxDataFiles \in Nat /\ MaxDataFiles * B <= O
  BY ThreadAssumption, DataAssumption DEF DataFiles
<1>2. /\ f * B \in Nat /\ (f + 1) * B = f * B + B /\ (f + 1) * B <= MaxDataFiles * B
      /\ t * O \in Nat /\ (t + 1) * O = t * O + O /\ (t + 1) * O <= R * O
      /\ R * O \in Nat /\ MaxDataFiles * B \in Nat
  BY <1>1, ProductGrows, Z3
<1>3. r \in 0..(O - 1)
  BY <1>1, <1>2
<1>4. v \in 0..(R * O - 1)
  BY <1>1, <1>2, <1>3
<1>5. IndexValue(t, f, at) = v
  <2>1. t * O + f * B + at = v
    BY <1>1, <1>2
  <2>2. v % (R * O) = v
    <3>. HIDE DEF v
    <3>1. R * O \in Nat \ {0}
      BY <1>2, <1>4
    <3>2. (0 * (R * O) + v) % (R * O) = v
      BY <1>4, <3>1, DivUnique
    <3>. QED  BY <1>2, <1>4, <3>2
  <2>. QED  BY <2>1, <2>2 DEF IndexValue
<1>6. v \div O = t /\ v % O = r
  <2>. HIDE DEF r
  <2>. QED  BY <1>1, <1>3, DivUnique
<1>7. r \div B = f /\ r % B = at
  BY <1>1, DivUnique
<1>. QED
  BY <1>4, <1>5, <1>6, <1>7 DEF ThreadOfValue, FileOfValue, OffsetOfValue

LEMMA Aligned ==
    ASSUME NEW n \in Nat
    PROVE  Align4(n) \in Nat /\ Align4(n) >= n /\ Align4(n) % 4 = 0 /\ Align4(n) <= n + 3
BY DEF Align4

(* Rounding up stays within a block.                                       *)
LEMMA AlignedFits ==
    ASSUME NEW n \in 0..DataBlockSize
    PROVE  Align4(n) \in 0..DataBlockSize
<1>1. DataBlockSize \in Nat /\ DataBlockSize % 4 = 0
  BY DataAssumption
<1>2. PICK m \in Nat : m = Align4(n) /\ m % 4 = 0 /\ m <= n + 3
  BY Aligned
<1>3. m <= DataBlockSize
  BY <1>1, <1>2
<1>. QED  BY <1>2, <1>3

(* The next file number is above all of the thread in the cycle.           *)
LEMMA NextFileIsNew ==
    ASSUME DOMAIN data \subseteq DataKeys, NEW c, NEW t
    PROVE  /\ FindNextDataFileNumber(c, t) \in 0..MaxDataFiles
           /\ \A k \in DOMAIN data :
                k[1] = c /\ k[2] = t => k[3] < FindNextDataFileNumber(c, t)
<1>. DEFINE taken == {k[3] : k \in {k \in DOMAIN data : k[1] = c /\ k[2] = t}}
            free == {n \in Nat : \A m \in taken : m < n}
<1>1. taken \subseteq DataFiles /\ MaxDataFiles \in Nat \ {0}
  BY DataAssumption DEF DataKeys
<1>. HIDE DEF taken
<1>2. MaxDataFiles \in free
  BY <1>1 DEF DataFiles
<1>3. PICK n \in free : \A m \in free : n <= m
  BY <1>2, LeastNat
<1>4. n = 0 \/ n - 1 \in taken
  <2>1. CASE n # 0 /\ n - 1 \notin taken
    <3>1. \A m \in taken : m < n - 1
      BY <1>1, <2>1 DEF DataFiles
    <3>2. n - 1 \in free
      BY <2>1, <3>1
    <3>. QED  BY <1>3, <3>2
  <2>. QED  BY <2>1
<1>5. n \in 0..MaxDataFiles
  BY <1>1, <1>2, <1>3
<1>6. LET x == FindNextDataFileNumber(c, t)
      IN  x \in 0..MaxDataFiles /\ \A m \in taken : m < x
  BY <1>3, <1>4, <1>5 DEF FindNextDataFileNumber, taken
<1>. QED  BY <1>6 DEF taken

-----------------------------------------------------------------------------
(* Releasing regions keeps those that somebody refers to.                  *)
LEMMA ReleaseKeeps ==
    ASSUME NEW objects, DataRelease(objects)
    PROVE  /\ \A a \in Writers : dheld'[a] \in RegionIds =>
                dregions'[dheld'[a]] = objects[dheld'[a]]
           /\ \A p \in Procs : \A r \in dcache'[p] \cap RegionIds :
                dregions'[r] = objects[r]
BY DEF DataRelease, DataReferenced

LEMMA ReleaseType ==
    ASSUME NEW objects \in [RegionIds -> DataRegion], DataRelease(objects)
    PROVE  dregions' \in [RegionIds -> DataRegion]
<1>1. NoDataRegion \in DataRegion
  BY DataAssumption, WritersAssumption DEF NoDataRegion, DataRegion, Cycles, DataFiles
<1>. QED  BY <1>1 DEF DataRelease

LEMMA InitInv == OwnThreads /\ AppenderInit => Inv
<1>. SUFFICES ASSUME OwnThreads, AppenderInit  PROVE Inv
  OBVIOUS
<1>. USE DEF AppenderInit, Init
<1>0. DOMAIN data = {}
  OBVIOUS
<1>1. NoDataRegion \in DataRegion
  BY DataAssumption, WritersAssumption DEF NoDataRegion, DataRegion, Cycles, DataFiles
<1>2. LogTypeOK
  <2>1. log \in [Cycles -> Seq(Tickets)]
    BY DEF Cycles
  <2>. QED  BY <2>1, WritersAssumption DEF LogTypeOK, Cycles
<1>3. DataTypeOK
  <2>1. buf \in [Writers -> [at : 0..DataBlockSize, position : 0..DataBlockSize,
                              capacity : 0..DataBlockSize]]
    BY DataAssumption DEF NoBuffer
  <2>. QED  BY <1>0, <1>1, <2>1 DEF DataTypeOK
<1>4. \A c \in Cycles : PublishedIn(c) = {}
  BY DEF PublishedIn, Cycles
<1>5. Logged /\ PlacedInv
  BY <1>4 DEF Logged, PlacedInv
<1>6. \A a \in Writers : Holds(a) /\ Contents(a)
  BY DEF Holds, Contents, NoRegion
<1>7. CacheInv
  BY DEF CacheInv
<1>. QED  BY <1>2, <1>3, <1>5, <1>6, <1>7 DEF Inv, TypeInv

(* A step that leaves data, log and values alone, and moves no region that *)
(* is still held, keeps what is in the index in its place.                 *)
LEMMA PlacedKept ==
    ASSUME PlacedInv, UNCHANGED <<log, value>>,
           \A k \in DOMAIN data : k \in DOMAIN data' /\ data'[k] = data[k],
           \A a \in Writers, k \in DOMAIN data, at \in Nat, n \in Nat :
               Clear(a, k, at, n) => Clear(a, k, at, n)'
    PROVE  PlacedInv'
<1>. SUFFICES ASSUME NEW c \in Cycles, NEW e \in PublishedIn(c)'
              PROVE  Placed(c, e)'
  BY DEF PlacedInv
<1>1. Placed(c, e)
  BY DEF PlacedInv, PublishedIn
<1>2. PICK key \in DOMAIN data, at \in 4..DataBlockSize, n \in Nat : PlacedAt(c, e, key, at, n)
  BY <1>1 DEF Placed
<1>3. key \in DOMAIN data' /\ Stands(key, at, n, e)'
  BY <1>2 DEF PlacedAt, Stands
<1>4. \A a \in Writers : Clear(a, key, at, n)'
  BY <1>2, DataAssumption DEF PlacedAt
<1>5. PlacedAt(c, e, key, at, n)'
  BY <1>2, <1>3, <1>4 DEF PlacedAt
<1>. QED  BY <1>3, <1>5 DEF Placed

-----------------------------------------------------------------------------
(* data_for of a file that does not exist yet: the file is made, and the   *)
(* appender gets a region at its start that nobody else has.               *)
LEMMA DataForNew ==
    ASSUME TypeInv, CacheInv, NEW a \in Writers, NEW c \in Cycles, NEW t \in Threads,
           NEW f \in Nat, DataFor(a, c, t, f), <<c, t, f>> \notin DOMAIN data
    PROVE  /\ f \in DataFiles
           /\ dataNo' = [dataNo EXCEPT ![a] = f]
           /\ dheld'[a] \in RegionIds
           /\ dheld' = [dheld EXCEPT ![a] = dheld'[a]]
           /\ dregions' \in [RegionIds -> DataRegion]
           /\ dregions'[dheld'[a]] = [cycle |-> c, thread |-> t, file |-> f, position |-> 0]
           /\ \A b \in Writers \ {a} : dheld[b] \in RegionIds =>
                dregions'[dheld[b]] = dregions[dheld[b]]
           /\ dcache' \in [Procs -> SUBSET RegionIds]
           /\ DOMAIN data' = DOMAIN data \cup {<<c, t, f>>}
           /\ \A k \in DOMAIN data : data'[k] = data[k]
           /\ DOMAIN data'[<<c, t, f>>] = Offsets
           /\ CacheInv'
<1>. DEFINE p == ProcOf[a]
            key == <<c, t, f>>
            new == CHOOSE r \in RegionIds : r \notin DataReferenced
            object == [cycle |-> c, thread |-> t, file |-> f, position |-> 0]
            objects == [dregions EXCEPT ![new] = object]
<1>0. p \in Procs
  BY WritersAssumption
<1>1. CachedData(p, key) = {}
  BY <1>0 DEF CachedData, CacheInv
<1>2. /\ f < MaxDataFiles
      /\ dataNo' = [dataNo EXCEPT ![a] = f]
      /\ RegionIds \ DataReferenced # {}
      /\ dheld' = [dheld EXCEPT ![a] = new]
      /\ dcache' = [dcache EXCEPT ![p] = @ \cup {new}]
      /\ DataRelease(objects)
      /\ data' = [k \in DOMAIN data \cup {key} |->
                    IF k \in DOMAIN data THEN data[k] ELSE [o \in Offsets |-> NoEntry]]
  BY <1>1 DEF DataFor
<1>3. new \in RegionIds /\ new \notin DataReferenced
  <2>1. \E r \in RegionIds : r \notin DataReferenced
    BY <1>2
  <2>. QED  BY <2>1
<1>. HIDE DEF new
<1>4. f \in DataFiles
  BY <1>2, DataAssumption DEF DataFiles
<1>5. object \in DataRegion
  BY <1>4, DataAssumption DEF DataRegion
<1>6. objects \in [RegionIds -> DataRegion]
  BY <1>5 DEF TypeInv, DataTypeOK
<1>7. dregions' \in [RegionIds -> DataRegion]
  BY <1>2, <1>6, ReleaseType
<1>8. dheld'[a] = new
  BY <1>2 DEF TypeInv, DataTypeOK
<1>9. dregions'[new] = object
  <2>1. dregions'[new] = objects[new]
    <3>. HIDE DEF objects
    <3>. QED  BY <1>2, <1>3, <1>8, ReleaseKeeps
  <2>. QED  BY <1>3, <2>1 DEF TypeInv, DataTypeOK
<1>10. ASSUME NEW b \in Writers \ {a}, dheld[b] \in RegionIds
       PROVE  dregions'[dheld[b]] = dregions[dheld[b]]
  <2>1. dheld[b] # new
    BY <1>3 DEF DataReferenced
  <2>2. dheld'[b] = dheld[b]
    BY <1>2 DEF TypeInv, DataTypeOK
  <2>3. dregions'[dheld[b]] = objects[dheld[b]]
    <3>. HIDE DEF objects
    <3>. QED  BY <1>2, <1>10, <2>2, ReleaseKeeps
  <2>. QED  BY <1>10, <2>1, <2>3 DEF TypeInv, DataTypeOK
<1>11. dcache' \in [Procs -> SUBSET RegionIds]
  BY <1>0, <1>2, <1>3 DEF TypeInv, DataTypeOK
<1>12. /\ DOMAIN data' = DOMAIN data \cup {key}
       /\ \A k \in DOMAIN data : data'[k] = data[k]
       /\ DOMAIN data'[key] = Offsets
  BY <1>2
<1>13. CacheInv'
  <2>. SUFFICES ASSUME NEW q \in Procs, NEW r \in dcache'[q]
                PROVE  KeyOf(r)' \in DOMAIN data'
    BY DEF CacheInv
  <2>1. r \in RegionIds /\ dregions'[r] = objects[r]
    BY <1>2, <1>11, ReleaseKeeps
  <2>2. CASE r = new
    BY <1>9, <1>12, <2>2 DEF KeyOf
  <2>3. CASE r # new
    <3>1. r \in dcache[q]
      BY <1>0, <1>2, <2>3 DEF TypeInv, DataTypeOK
    <3>2. dregions'[r] = dregions[r]
      BY <2>1, <2>3 DEF TypeInv, DataTypeOK
    <3>3. KeyOf(r) \in DOMAIN data
      BY <3>1 DEF CacheInv
    <3>. QED  BY <1>12, <3>2, <3>3 DEF KeyOf
  <2>. QED  BY <2>2, <2>3
<1>. QED  BY <1>2, <1>3, <1>4, <1>7, <1>8, <1>9, <1>10, <1>11, <1>12, <1>13

(* start_excerpt goes on in the region it has, or in a file that is new    *)
(* and comes after all others of the thread in the cycle.                  *)
LEMMA ChooseKeepsOrNew ==
    ASSUME TypeInv, NEW a \in Writers, Holds(a), NEW t \in Threads, NEW capacity,
           ChooseDataFile(a, t, capacity)
    PROVE  \/ /\ KeepsDataRegion(a, t) /\ ~ TooSmallFor(dheld[a], capacity)
              /\ UNCHANGED <<data, dregions, dcache, dataNo, dheld>>
           \/ \E f \in Nat :
                /\ DataFor(a, now, t, f)
                /\ \A k \in DOMAIN data : k[1] = now /\ k[2] = t => k[3] < f
<1>1. CASE ~ KeepsDataRegion(a, t)
  <2>. DEFINE f == FindNextDataFileNumber(now, t)
  <2>1. DataFor(a, now, t, f)
    BY <1>1 DEF ChooseDataFile
  <2>2. f \in 0..MaxDataFiles /\ \A k \in DOMAIN data : k[1] = now /\ k[2] = t => k[3] < f
    BY NextFileIsNew DEF TypeInv, DataTypeOK
  <2>3. f \in Nat
    BY <2>2, DataAssumption
  <2>. QED  BY <2>1, <2>2, <2>3
<1>2. CASE KeepsDataRegion(a, t) /\ TooSmallFor(dheld[a], capacity)
  <2>1. DataFor(a, now, t, dataNo[a] + 1)
    BY <1>2 DEF ChooseDataFile
  <2>2. /\ dataNo[a] \in DataFiles \cup {-1}
        /\ \A k \in DOMAIN data : k[1] = now /\ k[2] = t => k[3] <= dataNo[a]
    BY <1>2 DEF TypeInv, DataTypeOK, Holds, KeepsDataRegion
  <2>3. \A k \in DOMAIN data : k[3] \in DataFiles
    BY DEF TypeInv, DataTypeOK, DataKeys
  <2>4. dataNo[a] + 1 \in Nat
        /\ \A k \in DOMAIN data : k[1] = now /\ k[2] = t => k[3] < dataNo[a] + 1
    BY <2>2, <2>3, DataAssumption DEF DataFiles
  <2>. QED  BY <2>1, <2>4
<1>3. CASE KeepsDataRegion(a, t) /\ ~ TooSmallFor(dheld[a], capacity)
  BY <1>3 DEF ChooseDataFile
<1>. QED  BY <1>1, <1>2, <1>3

(* Where the excerpt of a start_excerpt is going to be.                    *)
LEMMA StartExcerptRoom ==
    ASSUME TypeInv, CacheInv, NEW a \in Writers, Holds(a),
           NEW t \in ThreadsOf[a], NEW capacity \in Capacities, StartExcerpt(a, t, capacity)
    PROVE  /\ DataTypeOK' /\ CacheInv'
           /\ dheld'[a] \in RegionIds
           /\ KeyOf(dheld[a])' = <<now, t, dataNo'[a]>>
           /\ KeyOf(dheld[a])' \in DOMAIN data'
           /\ \A k \in DOMAIN data' : k[1] = now /\ k[2] = t => k[3] <= dataNo'[a]
           /\ dregions'[dheld'[a]].position % 4 = 0
           /\ dregions'[dheld'[a]].position \in 0..DataBlockSize
           /\ dregions'[dheld'[a]].position + 4 + capacity <= DataBlockSize
           /\ \A k \in DOMAIN data : data'[k] = data[k]
           /\ DOMAIN data' = DOMAIN data \cup {<<now, t, dataNo'[a]>>}
           /\ KeyOf(dheld[a])' \in DOMAIN data =>
                dheld'[a] = dheld[a] /\ dregions'[dheld[a]] = dregions[dheld[a]]
           /\ \A b \in Writers \ {a} :
                /\ dheld'[b] = dheld[b] /\ dataNo'[b] = dataNo[b]
                /\ dheld[b] \in RegionIds => dregions'[dheld[b]] = dregions[dheld[b]]
<1>0. /\ t \in Threads /\ now \in Cycles /\ capacity \in Nat \ {0}
      /\ capacity + 4 <= DataBlockSize /\ DataBlockSize \in Nat
  BY ThreadAssumption, CapacityAssumption, DataAssumption DEF TypeInv, LogTypeOK
<1>1. /\ thr' = [thr EXCEPT ![a] = t]
      /\ buf' = [buf EXCEPT ![a] = [at |-> dregions'[dheld'[a]].position + 4,
                                    position |-> 0, capacity |-> capacity]]
      /\ UNCHANGED <<inFinish, value>>
  BY DEF StartExcerpt
<1>2. ASSUME dregions'[dheld'[a]].position \in 0..DataBlockSize,
             dregions'[dheld'[a]].position + 4 + capacity <= DataBlockSize,
             DOMAIN data' \subseteq DataKeys,
             \A k \in DOMAIN data' : DOMAIN data'[k] = Offsets,
             dregions' \in [RegionIds -> DataRegion],
             dcache' \in [Procs -> SUBSET RegionIds],
             dataNo' \in [Writers -> DataFiles \cup {-1}],
             dheld' \in [Writers -> RegionIds \cup {NoRegion}]
      PROVE  DataTypeOK'
  <2>1. [at |-> dregions'[dheld'[a]].position + 4, position |-> 0, capacity |-> capacity]
          \in [at : 0..DataBlockSize, position : 0..DataBlockSize, capacity : 0..DataBlockSize]
    BY <1>0, <1>2
  <2>2. buf' \in [Writers -> [at : 0..DataBlockSize, position : 0..DataBlockSize,
                              capacity : 0..DataBlockSize]]
    BY <1>1, <2>1 DEF TypeInv, DataTypeOK
  <2>. QED  BY <1>0, <1>1, <1>2, <2>2 DEF TypeInv, DataTypeOK
<1>3. CASE /\ KeepsDataRegion(a, t) /\ ~ TooSmallFor(dheld[a], capacity)
           /\ UNCHANGED <<data, dregions, dcache, dataNo, dheld>>
  <2>1. dheld[a] # NoRegion /\ cycle[a] = now /\ thr[a] = t
    BY <1>3 DEF KeepsDataRegion
  <2>2. dheld[a] \in RegionIds
    BY <2>1 DEF TypeInv, DataTypeOK
  <2>3. /\ KeyOf(dheld[a]) = <<now, t, dataNo[a]>> /\ KeyOf(dheld[a]) \in DOMAIN data
        /\ \A k \in DOMAIN data : k[1] = now /\ k[2] = t => k[3] <= dataNo[a]
        /\ dregions[dheld[a]].position % 4 = 0
    BY <2>1 DEF Holds
  <2>4. dregions[dheld[a]] \in DataRegion
    BY <2>2 DEF TypeInv, DataTypeOK
  <2>5. dregions[dheld[a]].position \in 0..DataBlockSize
    BY <2>4 DEF DataRegion
  <2>6. dregions[dheld[a]].position + 4 + capacity <= DataBlockSize
    BY <1>0, <1>3, <2>5 DEF TooSmallFor
  <2>7. DataTypeOK'
    BY <1>2, <1>3, <2>5, <2>6 DEF TypeInv, DataTypeOK
  <2>8. CacheInv' /\ KeyOf(dheld[a])' = KeyOf(dheld[a])
    BY <1>3 DEF CacheInv, KeyOf
  <2>9. DOMAIN data = DOMAIN data \cup {<<now, t, dataNo[a]>>}
    BY <2>3
  <2>. QED  BY <1>3, <2>2, <2>3, <2>5, <2>6, <2>7, <2>8, <2>9
<1>4. CASE \E f \in Nat :
             /\ DataFor(a, now, t, f)
             /\ \A k \in DOMAIN data : k[1] = now /\ k[2] = t => k[3] < f
  <2>1. PICK f \in Nat :
          /\ DataFor(a, now, t, f)
          /\ \A k \in DOMAIN data : k[1] = now /\ k[2] = t => k[3] < f
    BY <1>4
  <2>. DEFINE key == <<now, t, f>>
  <2>2. key \notin DOMAIN data
    BY <2>1
  <2>3. /\ f \in DataFiles
        /\ dataNo' = [dataNo EXCEPT ![a] = f]
        /\ dheld'[a] \in RegionIds
        /\ dheld' = [dheld EXCEPT ![a] = dheld'[a]]
        /\ dregions' \in [RegionIds -> DataRegion]
        /\ dregions'[dheld'[a]] = [cycle |-> now, thread |-> t, file |-> f, position |-> 0]
        /\ \A b \in Writers \ {a} : dheld[b] \in RegionIds =>
             dregions'[dheld[b]] = dregions[dheld[b]]
        /\ dcache' \in [Procs -> SUBSET RegionIds]
        /\ DOMAIN data' = DOMAIN data \cup {key}
        /\ \A k \in DOMAIN data : data'[k] = data[k]
        /\ DOMAIN data'[key] = Offsets
        /\ CacheInv'
    BY <1>0, <2>1, <2>2, DataForNew
  <2>4. dataNo'[a] = f /\ KeyOf(dheld[a])' = key
    BY <2>3 DEF TypeInv, DataTypeOK, KeyOf
  <2>5. dregions'[dheld'[a]].position = 0
    BY <2>3
  <2>6. key \in DataKeys
    BY <1>0, <2>3 DEF DataKeys
  <2>7. DataTypeOK'
    <3>1. /\ DOMAIN data' \subseteq DataKeys
          /\ \A k \in DOMAIN data' : DOMAIN data'[k] = Offsets
      BY <2>3, <2>6 DEF TypeInv, DataTypeOK
    <3>2. /\ dataNo' \in [Writers -> DataFiles \cup {-1}]
          /\ dheld' \in [Writers -> RegionIds \cup {NoRegion}]
      BY <2>3 DEF TypeInv, DataTypeOK
    <3>. QED  BY <1>0, <1>2, <2>3, <2>5, <3>1, <3>2
  <2>8. \A k \in DOMAIN data' : k[1] = now /\ k[2] = t => k[3] <= dataNo'[a]
    <3>1. \A k \in DOMAIN data : k[3] \in Nat
      BY DEF TypeInv, DataTypeOK, DataKeys, DataFiles
    <3>. QED  BY <2>1, <2>3, <2>4, <3>1
  <2>9. \A b \in Writers \ {a} : dheld'[b] = dheld[b] /\ dataNo'[b] = dataNo[b]
    BY <2>3 DEF TypeInv, DataTypeOK
  <2>. HIDE DEF key
  <2>10. KeyOf(dheld[a])' \notin DOMAIN data /\ KeyOf(dheld[a])' \in DOMAIN data'
    BY <2>2, <2>3, <2>4
  <2>. QED
    BY <1>0, <2>3, <2>4, <2>5, <2>7, <2>8, <2>9, <2>10 DEF key
<1>. QED  BY <1>0, <1>3, <1>4, ChooseKeepsOrNew DEF StartExcerpt

(* The thread of an appender's region is nobody else's.                    *)
LEMMA OthersFile ==
    ASSUME Inv, NEW a \in Writers, NEW b \in Writers \ {a}, dheld[b] # NoRegion,
           NEW t \in ThreadsOf[a]
    PROVE  /\ dheld[b] \in RegionIds
           /\ \A k : k[2] = t => KeyOf(dheld[b]) # k
           /\ thr[b] # t
<1>1. thr[b] \in ThreadsOf[b] /\ KeyOf(dheld[b]) = <<cycle[b], thr[b], dataNo[b]>>
  BY DEF Inv, Holds
<1>2. thr[b] # t
  BY <1>1 DEF Inv, OwnThreads
<1>. QED  BY <1>1, <1>2 DEF Inv, TypeInv, DataTypeOK

LEMMA StartExcerptInv ==
    ASSUME Inv, NEW a \in Writers, NEW t \in ThreadsOf[a], NEW capacity \in Capacities,
           StartExcerpt(a, t, capacity)
    PROVE  Inv'
<1>0. TypeInv /\ CacheInv /\ Holds(a)
  BY DEF Inv
<1>1. /\ DataTypeOK' /\ CacheInv'
      /\ dheld'[a] \in RegionIds
      /\ KeyOf(dheld[a])' = <<now, t, dataNo'[a]>>
      /\ KeyOf(dheld[a])' \in DOMAIN data'
      /\ \A k \in DOMAIN data' : k[1] = now /\ k[2] = t => k[3] <= dataNo'[a]
      /\ dregions'[dheld'[a]].position % 4 = 0
      /\ dregions'[dheld'[a]].position \in 0..DataBlockSize
      /\ dregions'[dheld'[a]].position + 4 + capacity <= DataBlockSize
      /\ \A k \in DOMAIN data : data'[k] = data[k]
      /\ DOMAIN data' = DOMAIN data \cup {<<now, t, dataNo'[a]>>}
      /\ KeyOf(dheld[a])' \in DOMAIN data =>
           dheld'[a] = dheld[a] /\ dregions'[dheld[a]] = dregions[dheld[a]]
      /\ \A b \in Writers \ {a} :
           /\ dheld'[b] = dheld[b] /\ dataNo'[b] = dataNo[b]
           /\ dheld[b] \in RegionIds => dregions'[dheld[b]] = dregions[dheld[b]]
  BY <1>0, StartExcerptRoom
<1>2. /\ state[a] \in {"none", "open"} /\ started[a] < MaxExcerpts
      /\ started' = [started EXCEPT ![a] = @ + 1]
      /\ state' = [state EXCEPT ![a] = "open"]
      /\ cycle' = [cycle EXCEPT ![a] = now]
      /\ UNCHANGED <<now, log, inFinish, value>>
      /\ ~ inFinish[a]
      /\ thr' = [thr EXCEPT ![a] = t]
      /\ buf' = [buf EXCEPT ![a] = [at |-> dregions'[dheld'[a]].position + 4,
                                    position |-> 0, capacity |-> capacity]]
  BY DEF StartExcerpt, Start
<1>3. LogTypeOK'
  BY <1>0, <1>2, WritersAssumption DEF TypeInv, LogTypeOK
<1>4. OwnThreads'
  BY DEF Inv, OwnThreads
<1>5. Logged'
  <2>. SUFFICES ASSUME NEW c \in Cycles, NEW e \in PublishedIn(c)'
                PROVE  e \in Tickets /\ e[2] <= started'[e[1]]
                       /\ (state'[e[1]] = "open" => e[2] < started'[e[1]])
    BY DEF Logged
  <2>1. e \in PublishedIn(c)
    BY <1>2 DEF PublishedIn
  <2>2. e \in Tickets /\ e[2] <= started[e[1]]
        /\ (state[e[1]] = "open" => e[2] < started[e[1]])
    BY <2>1 DEF Inv, Logged
  <2>3. e[1] \in Writers /\ e[2] \in Int
    BY <2>2 DEF Tickets
  <2>. QED  BY <1>0, <1>2, <2>2, <2>3 DEF TypeInv, LogTypeOK
<1>6. /\ state'[a] = "open" /\ cycle'[a] = now /\ thr'[a] = t /\ started'[a] # 0
      /\ buf'[a] = [at |-> dregions'[dheld'[a]].position + 4,
                    position |-> 0, capacity |-> capacity]
      /\ now \in Cycles
  BY <1>0, <1>2, WritersAssumption DEF TypeInv, LogTypeOK, DataTypeOK
<1>7. Holds(a)'
  <2>1. dheld'[a] # NoRegion
    BY <1>1, DataAssumption
  <2>2. capacity # 0 /\ capacity \in Nat
    BY CapacityAssumption
  <2>. QED  BY <1>1, <1>2, <1>6, <2>1, <2>2 DEF Holds
<1>8. Contents(a)'
  <2>1. ~ inFinish'[a]
    BY <1>2
  <2>2. \A o \in buf'[a].at..(buf'[a].at + buf'[a].position - 1) : FALSE
    BY <1>1, <1>6
  <2>. QED  BY <2>1, <2>2 DEF Contents
<1>9. ASSUME NEW b \in Writers \ {a}  PROVE Holds(b)' /\ Contents(b)'
  <2>1. /\ state'[b] = state[b] /\ cycle'[b] = cycle[b] /\ started'[b] = started[b]
        /\ thr'[b] = thr[b] /\ buf'[b] = buf[b] /\ inFinish'[b] = inFinish[b]
        /\ value' = value /\ dheld'[b] = dheld[b] /\ dataNo'[b] = dataNo[b]
    BY <1>0, <1>1, <1>2 DEF TypeInv, LogTypeOK, DataTypeOK
  <2>2. Holds(b) /\ Contents(b)
    BY DEF Inv
  <2>3. CASE dheld[b] = NoRegion
    BY <2>1, <2>2, <2>3 DEF Holds, Contents
  <2>4. CASE dheld[b] # NoRegion
    <3>1. dheld[b] \in RegionIds /\ thr[b] # t
      BY <2>4, OthersFile
    <3>2. dregions'[dheld'[b]] = dregions[dheld[b]]
      BY <1>1, <2>1, <3>1
    <3>3. KeyOf(dheld[b])' = KeyOf(dheld[b])
      BY <3>2 DEF KeyOf
    <3>4. KeyOf(dheld[b]) \in DOMAIN data' /\ data'[KeyOf(dheld[b])] = data[KeyOf(dheld[b])]
      BY <1>1, <2>2, <2>4 DEF Holds
    <3>5. \A k \in DOMAIN data' : k[1] = cycle[b] /\ k[2] = thr[b] => k[3] <= dataNo[b]
      BY <1>1, <2>2, <2>4, <3>1 DEF Holds
    <3>6. Holds(b)'
      BY <2>1, <2>2, <2>4, <3>2, <3>3, <3>4, <3>5 DEF Holds
    <3>7. Contents(b)'
      BY <2>1, <2>2, <3>3, <3>4 DEF Contents
    <3>. QED  BY <3>6, <3>7
  <2>. QED  BY <2>3, <2>4
<1>10. PlacedInv'
  <2>1. ASSUME NEW b \in Writers, NEW k \in DOMAIN data, NEW at \in Nat, NEW n \in Nat,
               Clear(b, k, at, n)
        PROVE  Clear(b, k, at, n)'
    <3>1. CASE b = a
      BY <1>1, <1>2, <2>1, <3>1, DataAssumption DEF Clear, KeyOf
    <3>2. CASE b # a
      <4>1. /\ state'[b] = state[b] /\ buf'[b] = buf[b] /\ dheld'[b] = dheld[b]
        BY <1>0, <1>1, <1>2, <3>2 DEF TypeInv, LogTypeOK, DataTypeOK
      <4>2. dheld[b] # NoRegion => dregions'[dheld[b]] = dregions[dheld[b]]
        BY <1>1, <3>2, OthersFile
      <4>. QED  BY <2>1, <4>1, <4>2 DEF Clear, KeyOf
    <3>. QED  BY <3>1, <3>2
  <2>2. PlacedInv /\ UNCHANGED <<log, value>>
    BY <1>2 DEF Inv
  <2>3. \A k \in DOMAIN data : k \in DOMAIN data' /\ data'[k] = data[k]
    BY <1>1
  <2>. QED  BY <2>1, <2>2, <2>3, PlacedKept
<1>11. \A b \in Writers : Holds(b)' /\ Contents(b)'
  BY <1>7, <1>8, <1>9
<1>. QED  BY <1>1, <1>3, <1>4, <1>5, <1>10, <1>11 DEF Inv, TypeInv

(* Writing into one's own file at and behind the header of one's own open  *)
(* excerpt disturbs nobody, and nothing that has been published.           *)
LEMMA WriteBehind ==
    ASSUME Inv, NEW a \in Writers, state[a] = "open", DataTypeOK',
           UNCHANGED <<vars, dregions, dcache, thr, dataNo, dheld>>,
           \A b \in Writers \ {a} : inFinish'[b] = inFinish[b] /\ buf'[b] = buf[b],
           \A e \in Tickets : e # <<a, started[a]>> => value'[e] = value[e],
           DOMAIN data' = DOMAIN data,
           \A k \in DOMAIN data : k # KeyOf(dheld[a]) => data'[k] = data[k],
           \A o \in Offsets : o < dregions[dheld[a]].position =>
               data'[KeyOf(dheld[a])][o] = data[KeyOf(dheld[a])][o],
           Holds(a)', Contents(a)'
    PROVE  Inv'
<1>. DEFINE mine == KeyOf(dheld[a])
<1>1. /\ UNCHANGED <<now, log, state, cycle, started>>
      /\ \A r : KeyOf(r)' = KeyOf(r)
  BY DEF vars, KeyOf
<1>2. LogTypeOK' /\ OwnThreads' /\ Logged' /\ CacheInv'
  BY <1>1 DEF Inv, TypeInv, LogTypeOK, OwnThreads, Logged, PublishedIn, CacheInv
<1>3. dheld[a] # NoRegion /\ mine = <<cycle[a], thr[a], dataNo[a]>>
      /\ thr[a] \in ThreadsOf[a]
  BY DEF Inv, Holds
<1>4. ASSUME NEW b \in Writers \ {a}, dheld[b] # NoRegion  PROVE KeyOf(dheld[b]) # mine
  BY <1>3, <1>4, OthersFile
<1>5. ASSUME NEW b \in Writers \ {a}  PROVE Holds(b)' /\ Contents(b)'
  <2>1. Holds(b) /\ Contents(b)
    BY DEF Inv
  <2>2. inFinish'[b] = inFinish[b] /\ buf'[b] = buf[b]
    OBVIOUS
  <2>3. Holds(b)'
    BY <1>1, <2>1, <2>2 DEF Holds
  <2>4. CASE dheld[b] = NoRegion
    BY <1>1, <2>1, <2>4 DEF Holds, Contents
  <2>5. CASE dheld[b] # NoRegion
    <3>1. data'[KeyOf(dheld[b])] = data[KeyOf(dheld[b])]
      BY <1>4, <2>1, <2>5 DEF Holds
    <3>2. ASSUME state[b] = "open"
          PROVE  value'[<<b, started[b]>>] = value[<<b, started[b]>>]
      <4>1. started[b] \in 1..MaxExcerpts
        BY <2>1, <3>2, WritersAssumption DEF Holds, Inv, TypeInv, LogTypeOK
      <4>. QED  BY <4>1 DEF Tickets
    <3>. QED  BY <1>1, <2>1, <2>2, <2>3, <3>1, <3>2 DEF Contents
  <2>. QED  BY <2>3, <2>4, <2>5
<1>6. ASSUME NEW c \in Cycles, NEW e \in PublishedIn(c)'
      PROVE  Placed(c, e)'
  <2>1. e \in PublishedIn(c)
    BY <1>1 DEF PublishedIn
  <2>2. e \in Tickets /\ e # <<a, started[a]>>
    <3>1. e \in Tickets /\ (e[1] = a => e[2] < started[a])
      BY <2>1 DEF Inv, Logged
    <3>2. started[a] \in Int
      BY DEF Inv, TypeInv, LogTypeOK
    <3>. QED  BY <3>1, <3>2
  <2>3. PICK key \in DOMAIN data, at \in 4..DataBlockSize, n \in Nat : PlacedAt(c, e, key, at, n)
    BY <2>1 DEF Inv, PlacedInv, Placed
  <2>4. ASSUME key = mine  PROVE at + n <= dregions[dheld[a]].position
    BY <1>3, <2>3, <2>4 DEF PlacedAt, Clear
  <2>5. ASSUME NEW o \in (at - 4)..(at + n - 1)  PROVE data'[key][o] = data[key][o]
    <3>1. o \in Offsets
      BY <2>3, DataAssumption DEF PlacedAt, Offsets
    <3>2. dregions[dheld[a]] \in DataRegion
      BY <1>3 DEF Inv, TypeInv, DataTypeOK
    <3>3. CASE key = mine
      BY <2>4, <3>1, <3>2, <3>3, DataAssumption DEF DataRegion, Offsets
    <3>4. CASE key # mine
      BY <3>4
    <3>. QED  BY <3>3, <3>4
  <2>6. Stands(key, at, n, e)'
    <3>1. Stands(key, at, n, e)
      BY <2>3 DEF PlacedAt
    <3>2. at \in Int /\ at >= 4 /\ n \in Nat
      BY DataAssumption
    <3>3. ASSUME NEW o \in (at - 4)..(at - 1)  PROVE data'[key][o] = Length(n)
      <4>1. o \in (at - 4)..(at + n - 1)
        BY <3>2
      <4>. QED  BY <2>5, <3>1, <4>1 DEF Stands
    <3>4. ASSUME NEW o \in at..(at + n - 1)  PROVE data'[key][o] = e
      <4>1. o \in (at - 4)..(at + n - 1)
        BY <3>2
      <4>. QED  BY <2>5, <3>1, <4>1 DEF Stands
    <3>. QED  BY <3>3, <3>4 DEF Stands
  <2>7. \A b \in Writers : Clear(b, key, at, n)'
    <3>1. ASSUME NEW b \in Writers, Clear(b, key, at, n)  PROVE Clear(b, key, at, n)'
      <4>1. CASE b = a
        BY <1>1, <3>1, <4>1 DEF Clear
      <4>2. CASE b # a
        BY <1>1, <3>1, <4>2 DEF Clear
      <4>. QED  BY <4>1, <4>2
    <3>. QED  BY <2>3, <3>1 DEF PlacedAt
  <2>8. PlacedAt(c, e, key, at, n)'
    BY <2>2, <2>3, <2>6, <2>7 DEF PlacedAt
  <2>. QED  BY <2>3, <2>8 DEF Placed
<1>7. PlacedInv'
  BY <1>6 DEF PlacedInv
<1>8. \A b \in Writers : Holds(b)' /\ Contents(b)'
  BY <1>5
<1>. QED  BY <1>2, <1>7, <1>8 DEF Inv, TypeInv

(* An open excerpt lies within its block.                                  *)
LEMMA OpenBuffer ==
    ASSUME Inv, NEW a \in Writers, state[a] \in {"open", "logged"}
    PROVE  /\ dheld[a] \in RegionIds
           /\ dregions[dheld[a]].position \in 0..DataBlockSize
           /\ dregions[dheld[a]].position % 4 = 0
           /\ buf[a].at \in 4..(DataBlockSize - 1)
           /\ buf[a].at = dregions[dheld[a]].position + 4
           /\ buf[a].position \in 0..buf[a].capacity
           /\ buf[a].capacity \in 1..DataBlockSize
           /\ buf[a].at + buf[a].capacity <= DataBlockSize
           /\ started[a] \in 1..MaxExcerpts
           /\ cycle[a] \in Cycles /\ thr[a] \in Threads /\ dataNo[a] \in DataFiles
           /\ KeyOf(dheld[a]) = <<cycle[a], thr[a], dataNo[a]>>
           /\ KeyOf(dheld[a]) \in DOMAIN data
<1>1. TypeInv /\ Holds(a)
  BY DEF Inv
<1>2. DataBlockSize \in Nat /\ MaxExcerpts \in Nat
  BY DataAssumption, WritersAssumption
<1>3. dheld[a] # NoRegion /\ dheld[a] \in RegionIds
  BY <1>1 DEF Holds, TypeInv, DataTypeOK
<1>4. dregions[dheld[a]] \in DataRegion
  BY <1>1, <1>3 DEF TypeInv, DataTypeOK
<1>5. dregions[dheld[a]].position \in 0..DataBlockSize /\ dregions[dheld[a]].file \in DataFiles
  BY <1>4 DEF DataRegion
<1>6. buf[a] \in [at : 0..DataBlockSize, position : 0..DataBlockSize, capacity : 0..DataBlockSize]
  BY <1>1 DEF TypeInv, DataTypeOK
<1>7. /\ buf[a].at = dregions[dheld[a]].position + 4
      /\ buf[a].at + buf[a].capacity <= DataBlockSize
      /\ buf[a].capacity # 0 /\ buf[a].position <= buf[a].capacity
      /\ started[a] # 0
  BY <1>1 DEF Holds
<1>8. started[a] \in 1..MaxExcerpts
  BY <1>1, <1>2, <1>7 DEF TypeInv, LogTypeOK
<1>9. /\ cycle[a] \in Cycles /\ thr[a] \in ThreadsOf[a]
      /\ KeyOf(dheld[a]) = <<cycle[a], thr[a], dataNo[a]>>
      /\ KeyOf(dheld[a]) \in DOMAIN data
      /\ dregions[dheld[a]].position % 4 = 0
  BY <1>1, <1>3 DEF Holds
<1>10. thr[a] \in Threads /\ dataNo[a] \in DataFiles
  <2>1. dataNo[a] = dregions[dheld[a]].file
    BY <1>9 DEF KeyOf
  <2>. QED  BY <1>5, <1>9, <2>1, ThreadAssumption
<1>. QED  BY <1>2, <1>3, <1>5, <1>6, <1>7, <1>8, <1>9, <1>10

(* Bytes stored in the file of an open excerpt.                            *)
LEMMA StoredType ==
    ASSUME TypeInv, NEW key \in DOMAIN data, NEW bytes,
           DOMAIN bytes = Offsets, data' = [data EXCEPT ![key] = bytes]
    PROVE  /\ DOMAIN data' = DOMAIN data
           /\ DOMAIN data' \subseteq DataKeys
           /\ \A k \in DOMAIN data' : DOMAIN data'[k] = Offsets
           /\ \A k \in DOMAIN data : k # key => data'[k] = data[k]
           /\ data'[key] = bytes
BY DEF TypeInv, DataTypeOK

LEMMA WriteInv ==
    ASSUME Inv, NEW a \in Writers, NEW n \in Capacities, Write(a, n)
    PROVE  Inv'
<1>. DEFINE key == KeyOf(dheld[a])
            at == buf[a].at
            bytes == [o \in Offsets |->
                        IF o \in at..(at + n - 1) THEN <<a, started[a]>> ELSE data[key][o]]
<1>1. /\ state[a] = "open" /\ ~ inFinish[a] /\ n <= buf[a].capacity
      /\ data' = [data EXCEPT ![key] = bytes]
      /\ buf' = [buf EXCEPT ![a].position = n]
      /\ UNCHANGED <<vars, inFinish, dregions, dcache, thr, dataNo, dheld, value>>
  BY DEF Write
<1>2. n \in Nat /\ DataBlockSize \in Nat
  BY CapacityAssumption, DataAssumption
<1>3. TypeInv /\ Holds(a)
  BY DEF Inv
<1>4. /\ dheld[a] \in RegionIds /\ dregions[dheld[a]].position \in Nat
      /\ at \in 4..(DataBlockSize - 1) /\ at = dregions[dheld[a]].position + 4
      /\ buf[a].capacity \in 1..DataBlockSize /\ at + buf[a].capacity <= DataBlockSize
      /\ key \in DOMAIN data
  BY <1>1, <1>2, OpenBuffer
<1>5. /\ DOMAIN data' = DOMAIN data
      /\ DOMAIN data' \subseteq DataKeys
      /\ \A k \in DOMAIN data' : DOMAIN data'[k] = Offsets
      /\ \A k \in DOMAIN data : k # key => data'[k] = data[k]
      /\ data'[key] = bytes
  <2>1. DOMAIN bytes = Offsets
    OBVIOUS
  <2>. HIDE DEF key, bytes
  <2>. QED  BY <1>1, <1>3, <1>4, <2>1, StoredType
<1>6. /\ buf'[a] = [buf[a] EXCEPT !.position = n]
      /\ \A b \in Writers \ {a} : buf'[b] = buf[b]
      /\ buf' \in [Writers -> [at : 0..DataBlockSize, position : 0..DataBlockSize,
                               capacity : 0..DataBlockSize]]
  BY <1>1, <1>2, <1>3, <1>4 DEF TypeInv, DataTypeOK
<1>7. DataTypeOK'
  BY <1>1, <1>3, <1>5, <1>6 DEF TypeInv, DataTypeOK
<1>8. /\ buf[a] \in [at : 0..DataBlockSize, position : 0..DataBlockSize, capacity : 0..DataBlockSize]
      /\ buf'[a].at = at /\ buf'[a].position = n /\ buf'[a].capacity = buf[a].capacity
  BY <1>3, <1>6 DEF TypeInv, DataTypeOK
<1>9. /\ UNCHANGED <<now, log, state, cycle, started>>
      /\ KeyOf(dheld[a])' = key
  BY <1>1 DEF vars, KeyOf
<1>10. Holds(a)'
  BY <1>1, <1>3, <1>5, <1>8, <1>9 DEF Holds
<1>11. Contents(a)'
  <2>1. ASSUME NEW o \in at..(at + n - 1)  PROVE data'[key][o] = <<a, started[a]>>
    <3>1. o \in Offsets
      BY <1>1, <1>2, <1>4 DEF Offsets
    <3>. QED  BY <1>5, <3>1
  <2>. QED  BY <1>1, <1>8, <1>9, <2>1 DEF Contents
<1>12. \A o \in Offsets : o < dregions[dheld[a]].position => data'[key][o] = data[key][o]
  BY <1>2, <1>4, <1>5 DEF Offsets
<1>. HIDE DEF key, at, bytes
<1>. QED  BY <1>1, <1>5, <1>6, <1>7, <1>10, <1>11, <1>12, WriteBehind DEF key

LEMMA FinishInv ==
    ASSUME Inv, NEW a \in Writers, Finish(a)
    PROVE  Inv'
<1>. DEFINE key == KeyOf(dheld[a])
            at == buf[a].at
            n == buf[a].position
            e == <<a, started[a]>>
            v == IndexValue(thr[a], dregions[dheld[a]].file, at)
            bytes == [o \in Offsets |->
                        IF o \in (at - 4)..(at - 1) THEN Length(n) ELSE data[key][o]]
<1>1. /\ state[a] = "open" /\ ~ inFinish[a]
      /\ inFinish' = [inFinish EXCEPT ![a] = TRUE]
      /\ data' = [data EXCEPT ![key] = bytes]
      /\ value' = [value EXCEPT ![e] = v]
      /\ UNCHANGED <<vars, dregions, dcache, thr, dataNo, dheld, buf>>
  BY DEF Finish
<1>2. DataBlockSize \in Nat
  BY DataAssumption
<1>3. TypeInv /\ Holds(a) /\ Contents(a)
  BY DEF Inv
<1>4. /\ dheld[a] \in RegionIds /\ dregions[dheld[a]].position \in Nat
      /\ at \in 4..(DataBlockSize - 1) /\ at = dregions[dheld[a]].position + 4
      /\ n \in 0..buf[a].capacity
      /\ buf[a].capacity \in 1..DataBlockSize /\ at + buf[a].capacity <= DataBlockSize
      /\ started[a] \in 1..MaxExcerpts
      /\ thr[a] \in Threads /\ dataNo[a] \in DataFiles
      /\ key = <<cycle[a], thr[a], dataNo[a]>>
      /\ key \in DOMAIN data
  BY <1>1, <1>2, OpenBuffer
<1>5. /\ DOMAIN data' = DOMAIN data
      /\ DOMAIN data' \subseteq DataKeys
      /\ \A k \in DOMAIN data' : DOMAIN data'[k] = Offsets
      /\ \A k \in DOMAIN data : k # key => data'[k] = data[k]
      /\ data'[key] = bytes
  <2>1. DOMAIN bytes = Offsets
    OBVIOUS
  <2>. HIDE DEF key, bytes
  <2>. QED  BY <1>1, <1>3, <1>4, <2>1, StoredType
<1>6. e \in Tickets /\ dregions[dheld[a]].file = dataNo[a]
  BY <1>4 DEF Tickets, KeyOf
<1>7. v \in Nat /\ v = IndexValue(thr[a], dataNo[a], at)
  BY <1>2, <1>4, <1>6, ValueDecodes
<1>. HIDE DEF v
<1>8. /\ value' \in [Tickets -> Nat] /\ value'[e] = v
      /\ \A x \in Tickets : x # e => value'[x] = value[x]
  <2>1. value \in [Tickets -> Nat]
    BY <1>3 DEF TypeInv, DataTypeOK
  <2>. HIDE DEF e
  <2>. QED  BY <1>1, <1>6, <1>7, <2>1
<1>9. DataTypeOK'
  BY <1>1, <1>3, <1>5, <1>8 DEF TypeInv, DataTypeOK
<1>10. /\ UNCHANGED <<now, log, state, cycle, started>>
       /\ KeyOf(dheld[a])' = key
       /\ inFinish'[a] /\ \A b \in Writers \ {a} : inFinish'[b] = inFinish[b]
  BY <1>1, <1>3 DEF vars, KeyOf, TypeInv, DataTypeOK
<1>11. Holds(a)'
  BY <1>1, <1>3, <1>5, <1>10 DEF Holds
<1>12. Contents(a)'
  <2>1. ASSUME NEW o \in at..(at + n - 1)  PROVE data'[key][o] = e
    <3>1. o \in Offsets /\ o \notin (at - 4)..(at - 1)
      BY <1>2, <1>4 DEF Offsets
    <3>2. data[key][o] = e
      BY <1>1, <1>3 DEF Contents
    <3>. QED  BY <1>5, <3>1, <3>2
  <2>2. ASSUME NEW o \in (at - 4)..(at - 1)  PROVE data'[key][o] = Length(n)
    <3>1. o \in Offsets
      BY <1>2, <1>4 DEF Offsets
    <3>. QED  BY <1>5, <3>1
  <2>. QED  BY <1>1, <1>7, <1>8, <1>10, <2>1, <2>2 DEF Contents
<1>13. \A o \in Offsets : o < dregions[dheld[a]].position => data'[key][o] = data[key][o]
  <2>. SUFFICES ASSUME NEW o \in Offsets, o < dregions[dheld[a]].position
                PROVE  data'[key][o] = data[key][o]
    OBVIOUS
  <2>1. o \notin (at - 4)..(at - 1)
    BY <1>2, <1>4 DEF Offsets
  <2>. QED  BY <1>5, <2>1
<1>. HIDE DEF key, at, n, bytes
<1>. QED  BY <1>1, <1>5, <1>8, <1>9, <1>10, <1>11, <1>12, <1>13, WriteBehind DEF key, e

(* The index takes a finished excerpt: it stands at the place its value    *)
(* names, and its own appender has not moved on yet.                       *)
LEMMA PublishInv ==
    ASSUME Inv, NEW a \in Writers, PublishIndex(a)
    PROVE  Inv'
<1>0. PICK key, at, n, e, C :
        /\ key = KeyOf(dheld[a]) /\ at = buf[a].at /\ n = buf[a].position
        /\ e = <<a, started[a]>> /\ C = cycle[a]
  OBVIOUS
<1>1. /\ inFinish[a] /\ state[a] = "open"
      /\ state' = [state EXCEPT ![a] = "logged"]
      /\ log' = [log EXCEPT ![C] = Append(@, e)]
      /\ UNCHANGED <<now, cycle, started>>
      /\ UNCHANGED <<inFinish, data, dregions, dcache, thr, dataNo, dheld, buf, value>>
  BY <1>0 DEF PublishIndex, Publish, dataVars
<1>2. TypeInv /\ Holds(a) /\ Contents(a) /\ DataBlockSize \in Nat
  BY DataAssumption DEF Inv
<1>3. /\ dheld[a] \in RegionIds
      /\ at \in 4..(DataBlockSize - 1)
      /\ n \in 0..buf[a].capacity
      /\ buf[a].capacity \in 1..DataBlockSize /\ at + buf[a].capacity <= DataBlockSize
      /\ started[a] \in 1..MaxExcerpts
      /\ C \in Cycles /\ thr[a] \in Threads /\ dataNo[a] \in DataFiles
      /\ key = <<C, thr[a], dataNo[a]>> /\ key \in DOMAIN data
      /\ thr[a] \in ThreadsOf[a]
  <2>1. thr[a] \in ThreadsOf[a]
    BY <1>0, <1>1, <1>2 DEF Holds
  <2>. QED  BY <1>0, <1>1, <1>2, <2>1, OpenBuffer
<1>4. e \in Tickets
  BY <1>0, <1>3 DEF Tickets
<1>5. /\ log[C] \in Seq(Tickets) /\ log' \in [Cycles -> Seq(Tickets)]
      /\ log'[C] = Append(log[C], e)
      /\ \A c \in Cycles : c # C => log'[c] = log[c]
  <2>1. log \in [Cycles -> Seq(Tickets)]
    BY <1>2 DEF TypeInv, LogTypeOK
  <2>2. log[C] \in Seq(Tickets)
    BY <1>0, <1>3, <2>1
  <2>3. Append(log[C], e) \in Seq(Tickets)
    BY <1>4, <2>2, AppendProperties
  <2>. QED  BY <1>0, <1>1, <1>3, <2>1, <2>2, <2>3
<1>6. ASSUME NEW c \in Cycles, NEW x \in PublishedIn(c)'
      PROVE  x \in PublishedIn(c) \/ (c = C /\ x = e)
  <2>1. PICK i \in 1..Len(log'[c]) : x = log'[c][i]
    BY DEF PublishedIn
  <2>2. CASE c # C
    BY <1>5, <2>1, <2>2 DEF PublishedIn
  <2>3. CASE c = C
    <3>1. /\ Len(Append(log[C], e)) = Len(log[C]) + 1
          /\ \A j \in 1..Len(log[C]) : Append(log[C], e)[j] = log[C][j]
          /\ Append(log[C], e)[Len(log[C]) + 1] = e
          /\ Len(log[C]) \in Nat
      BY <1>4, <1>5, AppendProperties, LenProperties
    <3>2. log'[c] = Append(log[C], e)
      BY <1>5, <2>3
    <3>3. i \in 1..Len(log[C]) \/ i = Len(log[C]) + 1
      BY <2>1, <3>1, <3>2
    <3>4. CASE i \in 1..Len(log[C])
      BY <2>1, <2>3, <3>1, <3>2, <3>4 DEF PublishedIn
    <3>5. CASE i = Len(log[C]) + 1
      BY <2>1, <2>3, <3>1, <3>2, <3>5
    <3>. QED  BY <3>3, <3>4, <3>5
  <2>. QED  BY <2>2, <2>3
<1>7. state'[a] = "logged" /\ \A b \in Writers \ {a} : state'[b] = state[b]
  BY <1>0, <1>1, <1>2 DEF TypeInv, LogTypeOK
<1>8. /\ LogTypeOK' /\ DataTypeOK' /\ OwnThreads' /\ CacheInv'
      /\ \A r : KeyOf(r)' = KeyOf(r)
  <2>1. LogTypeOK'
    BY <1>0, <1>1, <1>2, <1>5 DEF TypeInv, LogTypeOK
  <2>2. DataTypeOK' /\ OwnThreads' /\ CacheInv'
    BY <1>0, <1>1 DEF Inv, TypeInv, DataTypeOK, OwnThreads, CacheInv, KeyOf
  <2>. QED  BY <1>0, <1>1, <2>1, <2>2 DEF KeyOf
<1>9. Logged'
  <2>. SUFFICES ASSUME NEW c \in Cycles, NEW x \in PublishedIn(c)'
                PROVE  /\ x \in Tickets /\ x[2] <= started'[x[1]]
                       /\ state'[x[1]] = "open" => x[2] < started'[x[1]]
    BY DEF Logged
  <2>1. CASE x \in PublishedIn(c)
    <3>1. /\ x \in Tickets /\ x[2] <= started[x[1]]
          /\ state[x[1]] = "open" => x[2] < started[x[1]]
      BY <2>1 DEF Inv, Logged
    <3>2. x[1] \in Writers
      BY <3>1 DEF Tickets
    <3>. QED  BY <1>0, <1>1, <1>7, <3>1, <3>2
  <2>2. CASE x = e
    BY <1>0, <1>1, <1>3, <1>4, <1>7, <2>2, WritersAssumption
  <2>. QED  BY <1>6, <2>1, <2>2
<1>10. ASSUME NEW b \in Writers  PROVE Holds(b)' /\ Contents(b)'
  <2>1. Holds(b) /\ Contents(b)
    BY DEF Inv
  <2>2. CASE b = a
    BY <1>0, <1>1, <1>7, <1>8, <2>1, <2>2 DEF Holds, Contents
  <2>3. CASE b # a
    BY <1>0, <1>1, <1>7, <1>8, <2>1, <2>3 DEF Holds, Contents
  <2>. QED  BY <2>2, <2>3
<1>11. ASSUME NEW b \in Writers, NEW k, NEW p, NEW m, Clear(b, k, p, m)
       PROVE  Clear(b, k, p, m)'
  <2>1. CASE b = a
    BY <1>0, <1>1, <1>7, <1>8, <1>11, <2>1 DEF Clear
  <2>2. CASE b # a
    BY <1>0, <1>1, <1>7, <1>8, <1>11, <2>2 DEF Clear
  <2>. QED  BY <2>1, <2>2
<1>12. ASSUME NEW c \in Cycles, NEW x \in PublishedIn(c)  PROVE Placed(c, x)'
  <2>1. PICK k \in DOMAIN data, p \in 4..DataBlockSize, m \in Nat : PlacedAt(c, x, k, p, m)
    BY DEF Inv, PlacedInv, Placed
  <2>2. \A b \in Writers : Clear(b, k, p, m)'
    BY <1>0, <1>11, <2>1 DEF PlacedAt
  <2>3. PlacedAt(c, x, k, p, m)'
    BY <1>0, <1>1, <2>1, <2>2 DEF PlacedAt, Stands
  <2>. QED  BY <1>0, <1>1, <2>1, <2>3 DEF Placed
<1>13. Placed(C, e)'
  <2>1. value[e] = IndexValue(thr[a], dataNo[a], at)
    BY <1>0, <1>1, <1>2 DEF Contents
  <2>2. /\ ThreadOfValue(value[e]) = thr[a] /\ FileOfValue(value[e]) = dataNo[a]
        /\ OffsetOfValue(value[e]) = at
    <3>1. at \in 0..(DataBlockSize - 1)
      BY <1>2, <1>3
    <3>. QED  BY <1>0, <1>3, <2>1, <3>1, ValueDecodes
  <2>3. Stands(key, at, n, e)
    BY <1>0, <1>1, <1>2 DEF Contents, Stands
  <2>4. ASSUME NEW b \in Writers  PROVE Clear(b, key, at, n)'
    <3>1. CASE b = a
      BY <1>0, <1>1, <1>7, <3>1 DEF Clear
    <3>2. CASE b # a
      <4>1. dheld[b] # NoRegion => KeyOf(dheld[b]) # key
        BY <1>0, <1>3, <3>2, OthersFile
      <4>. QED  BY <1>0, <1>1, <1>8, <4>1 DEF Clear
    <3>. QED  BY <3>1, <3>2
  <2>5. n <= DataBlockSize - at /\ n \in Nat
    BY <1>2, <1>3
  <2>6. PlacedAt(C, e, key, at, n)'
    <3>1. Stands(key, at, n, e)'
      <4>. QED  BY <1>0, <1>1, <1>8, <2>3 DEF Stands
    <3>. QED  BY <1>0, <1>1, <1>3, <1>8, <2>2, <2>4, <2>5, <3>1 DEF PlacedAt, ThreadOfValue, FileOfValue, OffsetOfValue
  <2>7. key \in DOMAIN data' /\ at \in 4..DataBlockSize
    BY <1>0, <1>1, <1>2, <1>3
  <2>. QED  BY <2>5, <2>6, <2>7 DEF Placed
<1>14. PlacedInv'
  BY <1>6, <1>12, <1>13 DEF PlacedInv
<1>. QED  BY <1>8, <1>9, <1>10, <1>14 DEF Inv, TypeInv

(* The index is full: nothing but inFinish changes.                        *)
LEMMA AppendThrowsInv ==
    ASSUME Inv, NEW a \in Writers, AppendThrows(a)
    PROVE  Inv'
<1>1. /\ inFinish' = [inFinish EXCEPT ![a] = FALSE]
      /\ UNCHANGED <<now, log, state, cycle, started>>
      /\ UNCHANGED <<data, dregions, dcache, thr, dataNo, dheld, buf, value>>
      /\ \A r : KeyOf(r)' = KeyOf(r)
  BY DEF AppendThrows, vars, KeyOf
<1>2. /\ inFinish' \in [Writers -> BOOLEAN]
      /\ \A b \in Writers : inFinish'[b] => inFinish[b]
  BY <1>1 DEF Inv, TypeInv, DataTypeOK
<1>3. TypeInv' /\ OwnThreads' /\ CacheInv' /\ Logged'
  BY <1>1, <1>2 DEF Inv, TypeInv, LogTypeOK, DataTypeOK, OwnThreads, CacheInv, Logged, PublishedIn
<1>4. ASSUME NEW b \in Writers  PROVE Holds(b)' /\ Contents(b)'
  <2>1. Holds(b) /\ Contents(b)
    BY DEF Inv
  <2>2. Holds(b)'
    BY <1>1, <1>2, <2>1 DEF Holds
  <2>3. Contents(b)'
    BY <1>1, <1>2, <2>1 DEF Contents
  <2>. QED  BY <2>2, <2>3
<1>5. PlacedInv'
  <2>1. \A b \in Writers, k \in DOMAIN data, at \in Nat, n \in Nat :
            Clear(b, k, at, n) => Clear(b, k, at, n)'
    BY <1>1 DEF Clear
  <2>2. PlacedInv
    BY DEF Inv
  <2>. QED  BY <1>1, <2>1, <2>2, PlacedKept
<1>. QED  BY <1>3, <1>4, <1>5 DEF Inv

(* The position moves behind the excerpt and on to the next multiple of 4. *)
LEMMA MovedPosition ==
    ASSUME Inv, NEW a \in Writers, state[a] = "logged", MoveOn(a)
    PROVE  /\ dregions' = [dregions EXCEPT ![dheld[a]].position =
                                dregions'[dheld[a]].position]
           /\ dregions'[dheld[a]].position \in 0..DataBlockSize
           /\ dregions'[dheld[a]].position % 4 = 0
           /\ dregions'[dheld[a]].position >= buf[a].at + buf[a].position
<1>. DEFINE old == dregions[dheld[a]].position
            n == old + buf[a].position + 4
            new == Positioned(Positioned(old, n), Align4(Positioned(old, n)))
<1>1. DataBlockSize \in Nat
  BY DataAssumption
<1>2. /\ dheld[a] \in RegionIds /\ old \in 0..DataBlockSize
      /\ buf[a].at = old + 4 /\ buf[a].position \in 0..buf[a].capacity
      /\ buf[a].capacity \in 1..DataBlockSize /\ buf[a].at + buf[a].capacity <= DataBlockSize
  BY OpenBuffer
<1>3. n \in 0..DataBlockSize /\ n = buf[a].at + buf[a].position
  BY <1>1, <1>2
<1>. HIDE DEF n
<1>4. Positioned(old, n) = n
  BY <1>1, <1>3 DEF Positioned
<1>5. Align4(n) \in 0..DataBlockSize /\ Align4(n) >= n /\ Align4(n) % 4 = 0
  BY <1>1, <1>3, Aligned, AlignedFits
<1>6. new = Align4(n)
  <2>1. new = Positioned(n, Align4(n))
    BY <1>4
  <2>2. Align4(n) <= DataBlockSize
    BY <1>1, <1>5
  <2>. QED  BY <2>1, <2>2 DEF Positioned
<1>7. dregions' = [dregions EXCEPT ![dheld[a]].position = new]
  BY DEF MoveOn, n
<1>. HIDE DEF new
<1>8. dregions \in [RegionIds -> DataRegion]
  BY DEF Inv, TypeInv, DataTypeOK
<1>9. dregions'[dheld[a]].position = new
  BY <1>2, <1>7, <1>8 DEF DataRegion
<1>. QED  BY <1>1, <1>3, <1>5, <1>6, <1>7, <1>9

LEMMA FinishReturnsInv ==
    ASSUME Inv, NEW a \in Writers, FinishReturns(a)
    PROVE  Inv'
<1>0. PICK h, p : h = dheld[a] /\ p = dregions'[dheld[a]].position
  OBVIOUS
<1>1. /\ state[a] = "logged" /\ MoveOn(a)
      /\ state' = [state EXCEPT ![a] = "none"]
      /\ inFinish' = [inFinish EXCEPT ![a] = FALSE]
      /\ buf' = [buf EXCEPT ![a] = NoBuffer]
      /\ UNCHANGED <<now, log, cycle, started, data, dcache, thr, dataNo, dheld, value>>
  BY DEF FinishReturns, Return
<1>2. /\ dregions' = [dregions EXCEPT ![h].position = p]
      /\ p \in 0..DataBlockSize /\ p % 4 = 0
      /\ p >= buf[a].at + buf[a].position
  BY <1>0, <1>1, MovedPosition
<1>3. /\ h \in RegionIds /\ DataBlockSize \in Nat
      /\ dregions[h].position \in 0..DataBlockSize
      /\ buf[a].at = dregions[h].position + 4
      /\ buf[a].position \in Nat
      /\ KeyOf(h) = <<cycle[a], thr[a], dataNo[a]>> /\ thr[a] \in ThreadsOf[a]
  <2>1. thr[a] \in ThreadsOf[a]
    BY <1>1 DEF Inv, Holds
  <2>. QED  BY <1>0, <1>1, <2>1, OpenBuffer, DataAssumption
<1>4. TypeInv
  BY DEF Inv
<1>5. /\ dregions' \in [RegionIds -> DataRegion]
      /\ dregions'[h] = [dregions[h] EXCEPT !.position = p]
      /\ \A r \in RegionIds \ {h} : dregions'[r] = dregions[r]
  <2>1. dregions \in [RegionIds -> DataRegion] /\ dregions[h] \in DataRegion
    BY <1>3, <1>4 DEF TypeInv, DataTypeOK
  <2>2. [dregions[h] EXCEPT !.position = p] \in DataRegion
    BY <1>2, <2>1 DEF DataRegion
  <2>. QED  BY <1>2, <1>3, <2>1, <2>2
<1>6. \A r \in RegionIds : KeyOf(r)' = KeyOf(r)
  <2>1. dregions[h] \in DataRegion
    BY <1>3, <1>4 DEF TypeInv, DataTypeOK
  <2>2. /\ dregions'[h].cycle = dregions[h].cycle /\ dregions'[h].thread = dregions[h].thread
        /\ dregions'[h].file = dregions[h].file
    BY <1>5, <2>1 DEF DataRegion
  <2>. QED  BY <1>5, <2>2 DEF KeyOf
<1>7. dregions'[h].position = p
  <2>1. dregions[h] \in DataRegion
    BY <1>3, <1>4 DEF TypeInv, DataTypeOK
  <2>. QED  BY <1>5, <2>1 DEF DataRegion
<1>8. /\ state'[a] = "none" /\ \A b \in Writers \ {a} : state'[b] = state[b]
      /\ buf'[a] = NoBuffer /\ \A b \in Writers \ {a} : buf'[b] = buf[b]
      /\ ~ inFinish'[a] /\ \A b \in Writers \ {a} : inFinish'[b] = inFinish[b]
  BY <1>1, <1>4 DEF TypeInv, LogTypeOK, DataTypeOK
<1>9. LogTypeOK' /\ DataTypeOK'
  <2>1. LogTypeOK'
    BY <1>1, <1>4 DEF TypeInv, LogTypeOK
  <2>2. buf' \in [Writers -> [at : 0..DataBlockSize, position : 0..DataBlockSize,
                              capacity : 0..DataBlockSize]]
    BY <1>1, <1>3, <1>4 DEF TypeInv, DataTypeOK, NoBuffer
  <2>. QED  BY <1>1, <1>4, <1>5, <2>1, <2>2 DEF TypeInv, DataTypeOK
<1>10. OwnThreads' /\ CacheInv'
  <2>1. \A q \in Procs : dcache[q] \subseteq RegionIds
    BY <1>4 DEF TypeInv, DataTypeOK
  <2>. QED  BY <1>1, <1>6, <2>1 DEF Inv, OwnThreads, CacheInv
<1>11. Logged'
  <2>. SUFFICES ASSUME NEW c \in Cycles, NEW x \in PublishedIn(c)'
                PROVE  /\ x \in Tickets /\ x[2] <= started'[x[1]]
                       /\ state'[x[1]] = "open" => x[2] < started'[x[1]]
    BY DEF Logged
  <2>1. /\ x \in Tickets /\ x[2] <= started[x[1]]
        /\ state[x[1]] = "open" => x[2] < started[x[1]]
    BY <1>1 DEF Inv, Logged, PublishedIn
  <2>2. x[1] \in Writers
    BY <2>1 DEF Tickets
  <2>. QED  BY <1>1, <1>8, <2>1, <2>2
<1>12. ASSUME NEW b \in Writers \ {a}, dheld[b] # NoRegion
       PROVE  dheld[b] \in RegionIds /\ dregions'[dheld[b]] = dregions[dheld[b]]
  <2>1. dheld[b] \in RegionIds
    BY <1>4, <1>12 DEF TypeInv, DataTypeOK
  <2>2. KeyOf(dheld[b]) # KeyOf(h)
    BY <1>3, <1>12, OthersFile
  <2>3. dheld[b] # h
    BY <2>2
  <2>. QED  BY <1>5, <2>1, <2>3
<1>13. ASSUME NEW b \in Writers  PROVE Holds(b)' /\ Contents(b)'
  <2>1. Holds(b) /\ Contents(b)
    BY DEF Inv
  <2>2. CASE b = a
    <3>1. Holds(a)'
      BY <1>0, <1>1, <1>2, <1>3, <1>6, <1>7, <1>8, <2>1, <2>2 DEF Holds
    <3>2. Contents(a)'
      BY <1>8 DEF Contents
    <3>. QED  BY <2>2, <3>1, <3>2
  <2>3. CASE b # a
    <3>1. /\ state'[b] = state[b] /\ buf'[b] = buf[b] /\ inFinish'[b] = inFinish[b]
          /\ dheld'[b] = dheld[b]
      BY <1>1, <1>8, <2>3
    <3>2. CASE dheld[b] = NoRegion
      BY <1>1, <2>1, <3>1, <3>2 DEF Holds, Contents
    <3>3. CASE dheld[b] # NoRegion
      <4>1. dregions'[dheld[b]] = dregions[dheld[b]] /\ KeyOf(dheld[b])' = KeyOf(dheld[b])
        BY <1>1, <1>6, <1>12, <2>3, <3>3
      <4>2. Holds(b)'
        BY <1>1, <2>1, <3>1, <4>1 DEF Holds
      <4>3. Contents(b)'
        BY <1>1, <2>1, <3>1, <4>1 DEF Contents
      <4>. QED  BY <4>2, <4>3
    <3>. QED  BY <3>2, <3>3
  <2>. QED  BY <2>2, <2>3
<1>14. PlacedInv'
  <2>1. ASSUME NEW b \in Writers, NEW k \in DOMAIN data, NEW at \in Nat, NEW n \in Nat,
               Clear(b, k, at, n)
        PROVE  Clear(b, k, at, n)'
    <3>1. CASE b = a
      <4>. SUFFICES ASSUME KeyOf(h)' = k  PROVE at + n <= p
        BY <1>0, <1>1, <1>7, <3>1 DEF Clear
      <4>1. KeyOf(h) = k
        BY <1>3, <1>6
      <4>2. dheld[a] # NoRegion
        BY <1>0, <1>3, DataAssumption
      <4>3. at + n <= dregions[h].position \/ (at = buf[a].at /\ n = buf[a].position)
        BY <1>0, <2>1, <3>1, <4>1, <4>2 DEF Clear
      <4>. QED  BY <1>2, <1>3, <4>3
    <3>2. CASE b # a
      <4>1. state'[b] = state[b] /\ buf'[b] = buf[b] /\ dheld'[b] = dheld[b]
        BY <1>1, <1>8, <3>2
      <4>2. dheld[b] # NoRegion => dregions'[dheld[b]] = dregions[dheld[b]]
        BY <1>12, <3>2
      <4>. QED  BY <2>1, <4>1, <4>2 DEF Clear, KeyOf
    <3>. QED  BY <3>1, <3>2
  <2>2. PlacedInv /\ UNCHANGED <<log, value>>
    BY <1>1 DEF Inv
  <2>3. \A k \in DOMAIN data : k \in DOMAIN data' /\ data'[k] = data[k]
    BY <1>1
  <2>. QED  BY <2>1, <2>2, <2>3, PlacedKept
<1>. QED  BY <1>9, <1>10, <1>11, <1>13, <1>14 DEF Inv, TypeInv

-----------------------------------------------------------------------------
(* References are dropped, by an appender that starts afresh or by a       *)
(* cache: the regions that are still referred to stay as they are.         *)
LEMMA DropInv ==
    ASSUME Inv, LogTypeOK', DataTypeOK', DataRelease(dregions),
           UNCHANGED <<now, log, started, data, value>>,
           \A p \in Procs : dcache'[p] \subseteq dcache[p],
           \A a \in Writers :
             \/ UNCHANGED <<inFinish[a], state[a], cycle[a], thr[a], dataNo[a], dheld[a], buf[a]>>
             \/ ~ inFinish'[a] /\ state'[a] = "none" /\ dheld'[a] = NoRegion
    PROVE  Inv'
<1>1. OwnThreads'
  BY DEF Inv, OwnThreads
<1>2. CacheInv'
  <2>. SUFFICES ASSUME NEW p \in Procs, NEW r \in dcache'[p]
                PROVE  KeyOf(r)' \in DOMAIN data'
    BY DEF CacheInv
  <2>1. r \in dcache[p] /\ r \in RegionIds
    BY DEF DataTypeOK
  <2>2. dregions'[r] = dregions[r]
    BY <2>1, ReleaseKeeps
  <2>3. KeyOf(r) \in DOMAIN data
    BY <2>1 DEF Inv, CacheInv
  <2>. QED  BY <2>2, <2>3 DEF KeyOf
<1>3. Logged'
  <2>. SUFFICES ASSUME NEW c \in Cycles, NEW x \in PublishedIn(c)'
                PROVE  /\ x \in Tickets /\ x[2] <= started'[x[1]]
                       /\ state'[x[1]] = "open" => x[2] < started'[x[1]]
    BY DEF Logged
  <2>1. /\ x \in Tickets /\ x[2] <= started[x[1]]
        /\ state[x[1]] = "open" => x[2] < started[x[1]]
    BY DEF Inv, Logged, PublishedIn
  <2>2. x[1] \in Writers
    BY <2>1 DEF Tickets
  <2>. QED  BY <2>1, <2>2
<1>4. ASSUME NEW a \in Writers, dheld'[a] # NoRegion
      PROVE  /\ UNCHANGED <<inFinish[a], state[a], cycle[a], thr[a], dataNo[a], dheld[a], buf[a]>>
             /\ dregions'[dheld[a]] = dregions[dheld[a]]
             /\ KeyOf(dheld[a])' = KeyOf(dheld[a])
  <2>1. UNCHANGED <<inFinish[a], state[a], cycle[a], thr[a], dataNo[a], dheld[a], buf[a]>>
    BY <1>4
  <2>2. dheld'[a] \in RegionIds
    BY <1>4 DEF DataTypeOK
  <2>3. dregions'[dheld[a]] = dregions[dheld[a]]
    BY <2>1, <2>2, ReleaseKeeps
  <2>. QED  BY <2>1, <2>3 DEF KeyOf
<1>5. ASSUME NEW a \in Writers  PROVE Holds(a)' /\ Contents(a)'
  <2>1. Holds(a) /\ Contents(a)
    BY DEF Inv
  <2>2. CASE dheld'[a] = NoRegion
    <3>1. state'[a] = "none" \/ UNCHANGED <<inFinish[a], state[a], dheld[a]>>
      OBVIOUS
    <3>2. state'[a] \notin {"open", "logged"} /\ ~ inFinish'[a]
      BY <2>1, <2>2, <3>1 DEF Holds
    <3>. QED  BY <2>2, <3>2 DEF Holds, Contents
  <2>3. CASE dheld'[a] # NoRegion
    BY <1>4, <2>1, <2>3 DEF Holds, Contents
  <2>. QED  BY <2>2, <2>3
<1>6. PlacedInv'
  <2>1. \A a \in Writers, k \in DOMAIN data, at \in Nat, n \in Nat :
            Clear(a, k, at, n) => Clear(a, k, at, n)'
    BY <1>4 DEF Clear
  <2>2. PlacedInv
    BY DEF Inv
  <2>. QED  BY <2>1, <2>2, PlacedKept
<1>. QED  BY <1>1, <1>2, <1>3, <1>5, <1>6 DEF Inv, TypeInv

LEMMA FreshInv ==
    ASSUME Inv, NEW A \in SUBSET Writers, Fresh(A),
           dcache' \in [Procs -> SUBSET RegionIds],
           \A p \in Procs : dcache'[p] \subseteq dcache[p]
    PROVE  Inv'
<1>1. TypeInv
  BY DEF Inv
<1>2. LogTypeOK'
  BY <1>1 DEF Fresh, Restart, TypeInv, LogTypeOK
<1>3. DataTypeOK'
  <2>1. dregions' \in [RegionIds -> DataRegion]
    BY <1>1, ReleaseType DEF Fresh, TypeInv, DataTypeOK
  <2>2. buf' \in [Writers -> [at : 0..DataBlockSize, position : 0..DataBlockSize,
                              capacity : 0..DataBlockSize]]
    BY <1>1, DataAssumption DEF Fresh, TypeInv, DataTypeOK, NoBuffer
  <2>3. /\ inFinish' \in [Writers -> BOOLEAN]
        /\ thr' \in [Writers -> Threads \cup {-1}]
        /\ dataNo' \in [Writers -> DataFiles \cup {-1}]
        /\ dheld' \in [Writers -> RegionIds \cup {NoRegion}]
    BY <1>1 DEF Fresh, TypeInv, DataTypeOK
  <2>. QED  BY <1>1, <2>1, <2>2, <2>3 DEF Fresh, TypeInv, DataTypeOK
<1>4. /\ DataRelease(dregions)
      /\ UNCHANGED <<now, log, started, data, value>>
  BY DEF Fresh, Restart
<1>5. ASSUME NEW a \in Writers
      PROVE  \/ UNCHANGED <<inFinish[a], state[a], cycle[a], thr[a], dataNo[a], dheld[a], buf[a]>>
             \/ ~ inFinish'[a] /\ state'[a] = "none" /\ dheld'[a] = NoRegion
  <2>1. inFinish[a] \in BOOLEAN
    BY <1>1 DEF TypeInv, DataTypeOK
  <2>. QED  BY <2>1 DEF Fresh, Restart
<1>. QED  BY <1>2, <1>3, <1>4, <1>5, DropInv

LEMMA EvictInv ==
    ASSUME Inv, NEW p \in Procs, Evict(p)
    PROVE  Inv'
<1>1. PICK r \in dcache[p] : dcache' = [dcache EXCEPT ![p] = @ \ {r}]
  BY DEF Evict
<1>2. /\ DataRelease(dregions)
      /\ UNCHANGED <<now, log, state, cycle, started>>
      /\ UNCHANGED <<inFinish, data, thr, dataNo, dheld, buf, value>>
  BY DEF Evict, vars
<1>3. TypeInv
  BY DEF Inv
<1>4. dcache' \in [Procs -> SUBSET RegionIds] /\ \A q \in Procs : dcache'[q] \subseteq dcache[q]
  BY <1>1, <1>3 DEF TypeInv, DataTypeOK
<1>5. LogTypeOK' /\ DataTypeOK'
  <2>1. dregions' \in [RegionIds -> DataRegion]
    BY <1>2, <1>3, ReleaseType DEF TypeInv, DataTypeOK
  <2>. QED  BY <1>2, <1>3, <1>4, <2>1 DEF TypeInv, LogTypeOK, DataTypeOK
<1>. QED  BY <1>2, <1>4, <1>5, DropInv

(* The time, or nothing, changes.                                          *)
LEMMA TimeInv ==
    ASSUME Inv, UNCHANGED <<log, state, cycle, started>>, UNCHANGED dataVars, now' \in Cycles
    PROVE  Inv'
<1>1. UNCHANGED <<inFinish, data, dregions, dcache, thr, dataNo, dheld, buf, value>>
  BY DEF dataVars
<1>2. \A r : KeyOf(r)' = KeyOf(r)
  BY <1>1 DEF KeyOf
<1>3. TypeInv' /\ OwnThreads' /\ CacheInv' /\ Logged'
  BY <1>1, <1>2 DEF Inv, TypeInv, LogTypeOK, DataTypeOK, OwnThreads, CacheInv, Logged, PublishedIn
<1>4. ASSUME NEW a \in Writers  PROVE Holds(a)' /\ Contents(a)'
  <2>1. Holds(a) /\ Contents(a)
    BY DEF Inv
  <2>. QED  BY <1>1, <1>2, <2>1 DEF Holds, Contents
<1>5. PlacedInv'
  <2>1. \A a \in Writers, k \in DOMAIN data, at \in Nat, n \in Nat :
            Clear(a, k, at, n) => Clear(a, k, at, n)'
    BY <1>1, <1>2 DEF Clear
  <2>2. PlacedInv
    BY DEF Inv
  <2>. QED  BY <1>1, <2>1, <2>2, PlacedKept
<1>. QED  BY <1>3, <1>4, <1>5 DEF Inv

LEMMA NextInv == Inv /\ [AppenderNext]_allVars => Inv'
<1>. SUFFICES ASSUME Inv, [AppenderNext]_allVars  PROVE Inv'
  OBVIOUS
<1>1. ASSUME NEW a \in Writers, NEW t \in ThreadsOf[a], NEW n \in Capacities,
             StartExcerpt(a, t, n)
      PROVE  Inv'
  BY <1>1, StartExcerptInv
<1>2. ASSUME NEW a \in Writers, NEW n \in Capacities, Write(a, n)  PROVE Inv'
  BY <1>2, WriteInv
<1>3. ASSUME NEW a \in Writers, Finish(a)  PROVE Inv'
  BY <1>3, FinishInv
<1>4. ASSUME NEW a \in Writers, PublishIndex(a)  PROVE Inv'
  BY <1>4, PublishInv
<1>5. ASSUME NEW a \in Writers, AppendThrows(a)  PROVE Inv'
  BY <1>5, AppendThrowsInv
<1>6. ASSUME NEW a \in Writers, FinishReturns(a)  PROVE Inv'
  BY <1>6, FinishReturnsInv
<1>7. ASSUME NEW a \in Writers, CreateAppender(a)  PROVE Inv'
  <2>1. Fresh({a}) /\ dcache' = dcache /\ {a} \in SUBSET Writers
    BY <1>7 DEF CreateAppender
  <2>2. dcache' \in [Procs -> SUBSET RegionIds]
    BY <2>1 DEF Inv, TypeInv, DataTypeOK
  <2>. QED  BY <2>1, <2>2, FreshInv
<1>8. ASSUME NEW p \in Procs, Crash(p)  PROVE Inv'
  <2>1. PICK A \in SUBSET Writers : Fresh(A) /\ dcache' = [dcache EXCEPT ![p] = {}]
    BY <1>8 DEF Crash
  <2>2. dcache' \in [Procs -> SUBSET RegionIds] /\ \A q \in Procs : dcache'[q] \subseteq dcache[q]
    BY <2>1 DEF Inv, TypeInv, DataTypeOK
  <2>. QED  BY <2>1, <2>2, FreshInv
<1>9. ASSUME NEW p \in Procs, Evict(p)  PROVE Inv'
  BY <1>9, EvictInv
<1>10. CASE Tick /\ UNCHANGED dataVars
  <2>1. now' \in Cycles /\ UNCHANGED <<log, state, cycle, started>>
    BY <1>10, WritersAssumption DEF Tick, Inv, TypeInv, LogTypeOK, Cycles
  <2>. QED  BY <1>10, <2>1, TimeInv
<1>11. CASE UNCHANGED allVars
  <2>1. now' \in Cycles /\ UNCHANGED <<log, state, cycle, started>> /\ UNCHANGED dataVars
    BY <1>11 DEF allVars, vars, Inv, TypeInv, LogTypeOK
  <2>. QED  BY <2>1, TimeInv
<1>. QED
  BY <1>1, <1>2, <1>3, <1>4, <1>5, <1>6, <1>7, <1>8, <1>9, <1>10, <1>11 DEF AppenderNext

-----------------------------------------------------------------------------
LEMMA InvImpliesIntact == Inv => PublishedIntact
<1>. SUFFICES ASSUME Inv, NEW c \in Cycles, NEW e \in PublishedIn(c)
              PROVE  LET v == value[e]
                         key == <<c, ThreadOfValue(v), FileOfValue(v)>>
                         at == OffsetOfValue(v)
                     IN  /\ key \in DOMAIN data
                         /\ at >= 4
                         /\ \E n \in 0..(DataBlockSize - at) :
                              /\ \A o \in (at - 4)..(at - 1) : data[key][o] = Length(n)
                              /\ \A o \in at..(at + n - 1) : data[key][o] = e
  BY DEF PublishedIntact
<1>1. PICK key \in DOMAIN data, at \in 4..DataBlockSize, n \in Nat : PlacedAt(c, e, key, at, n)
  BY DEF Inv, PlacedInv, Placed
<1>2. n \in 0..(DataBlockSize - at) /\ at >= 4
  BY <1>1, DataAssumption DEF PlacedAt
<1>. QED  BY <1>1, <1>2 DEF PlacedAt, Stands

LEMMA InvImpliesFits == Inv => BufferFits
<1>. SUFFICES ASSUME Inv, NEW a \in Writers, state[a] = "open"
              PROVE  /\ buf[a].at % 4 = 0 /\ buf[a].at >= 4
                     /\ buf[a].at + buf[a].capacity <= DataBlockSize
  BY DEF BufferFits
<1>1. /\ dregions[dheld[a]].position \in 0..DataBlockSize
      /\ dregions[dheld[a]].position % 4 = 0
      /\ buf[a].at = dregions[dheld[a]].position + 4
      /\ buf[a].at + buf[a].capacity <= DataBlockSize
  BY OpenBuffer
<1>. QED  BY <1>1, DataAssumption

(* The invariant is inductive: it holds of every behaviour in which no     *)
(* thread uses two appenders.                                              *)
LEMMA InvCorrect == AppenderSpec /\ OwnThreads => []Inv
<1>1. OwnThreads /\ AppenderInit => Inv
  BY InitInv
<1>2. Inv /\ [AppenderNext]_allVars => Inv'
  BY NextInv
<1>. QED  BY <1>1, <1>2, PTL DEF AppenderSpec

(* The variables of the data half keep their types: positions stay within  *)
(* a block, file numbers below MaxDataFiles, files whole.                  *)
THEOREM AppenderTypeCorrect == AppenderSpec /\ OwnThreads => []DataTypeOK
<1>1. Inv => DataTypeOK
  BY DEF Inv, TypeInv
<1>. QED  BY <1>1, InvCorrect, PTL

(* finish() publishes an excerpt where its bytes are, and no later write,  *)
(* of any thread, process or incarnation of either, touches them again.    *)
THEOREM PublishedIntactCorrect == AppenderSpec /\ OwnThreads => []PublishedIntact
<1>. QED  BY InvCorrect, InvImpliesIntact, PTL

(* start_excerpt hands out a buffer that lies within the block, behind an  *)
(* aligned length word.                                                    *)
THEOREM BufferFitsCorrect == AppenderSpec /\ OwnThreads => []BufferFits
<1>. QED  BY InvCorrect, InvImpliesFits, PTL

(* Whatever the data half does, the logs see nothing of it but the steps   *)
(* ChronicleLog allows: an excerpt goes to the end of the log of the cycle *)
(* it was started in, once, and no crash or eviction takes it back.  No    *)
(* assumption on the threads is needed.                                    *)
THEOREM AppenderUsesLog == AppenderSpec => Spec
<1>1. AppenderInit => Init
  BY DEF AppenderInit
<1>2. [AppenderNext]_allVars => [Next]_vars
  <2> SUFFICES ASSUME [AppenderNext]_allVars
               PROVE  Next \/ UNCHANGED vars
    OBVIOUS
  <2>1. ASSUME NEW a \in Writers, NEW t \in ThreadsOf[a], NEW n \in Capacities,
               StartExcerpt(a, t, n)
        PROVE  Next
    BY <2>1 DEF StartExcerpt, Next
  <2>2. ASSUME NEW a \in Writers, NEW n \in Capacities, Write(a, n)
        PROVE  UNCHANGED vars
    BY <2>2 DEF Write
  <2>3. ASSUME NEW a \in Writers, Finish(a) \/ AppendThrows(a)
        PROVE  UNCHANGED vars
    BY <2>3 DEF Finish, AppendThrows
  <2>4. ASSUME NEW a \in Writers, PublishIndex(a) \/ FinishReturns(a)
        PROVE  Next
    BY <2>4 DEF PublishIndex, FinishReturns, Next
  <2>5. ASSUME NEW a \in Writers, CreateAppender(a)
        PROVE  Next
    <3>1. Restart({a}) /\ {a} \in SUBSET Writers
      BY <2>5 DEF CreateAppender, Fresh
    <3> QED  BY <3>1 DEF Next
  <2>6. ASSUME NEW p \in Procs, Crash(p)
        PROVE  Next
    <3>1. /\ Restart({a \in Writers : ProcOf[a] = p})
          /\ {a \in Writers : ProcOf[a] = p} \in SUBSET Writers
      BY <2>6 DEF Crash, Fresh
    <3> QED  BY <3>1 DEF Next
  <2>7. ASSUME NEW p \in Procs, Evict(p)
        PROVE  UNCHANGED vars
    BY <2>7 DEF Evict
  <2>8. CASE Tick /\ UNCHANGED dataVars
    BY <2>8 DEF Next
  <2>9. CASE UNCHANGED allVars
    BY <2>9 DEF allVars
  <2> QED
    BY <2>1, <2>2, <2>3, <2>4, <2>5, <2>6, <2>7, <2>8, <2>9 DEF AppenderNext
<1>. QED  BY <1>1, <1>2, PTL DEF AppenderSpec, Spec
=============================================================================
