--------------------------- MODULE ExcerptAppender ---------------------------
(***************************************************************************)
(* The data files: vanilla_data and the data half of excerpt_appender.     *)
(* start_excerpt reserves room in a data file of the calling thread,       *)
(* write() fills it, finish() stores the length in front of it, publishes  *)
(* its location through the index and only then moves the position of the  *)
(* data region on.                                                         *)
(*                                                                         *)
(* The index is the abstract ChronicleLog, which VanillaIndex implements:  *)
(* one atomic Publish stands for the CAS.  A data file belongs to one      *)
(* cycle and one thread; nothing but that convention, and the choice of    *)
(* file numbers, keeps two excerpts apart.                                 *)
(***************************************************************************)
EXTENDS ChronicleLog, FiniteSets

CONSTANTS
    Procs, ProcOf,  \* processes, and the process of each writer (appender)
    Threads,        \* native thread ids
    ThreadsOf,      \* the threads on which each appender's owner calls it
    DataBlockSize,  \* settings.data_block_size(), in bytes
    ThreadRange,    \* 2 ^ settings.thread_id_bits()
    OffsetRange,    \* 2 ^ settings.index_data_offset_bits()
    MaxDataFiles,   \* bound on the data files of one thread and cycle
    Capacities,     \* the capacities callers ask for, and the lengths they write
    RegionIds,      \* identities of data region objects
    NoEntry         \* a byte nobody has written

NoRegion == 0       \* the null region_ptr

ASSUME WritersAssumption ==
    /\ ProcOf \in [Writers -> Procs]
    /\ MaxCycle \in Nat /\ MaxExcerpts \in Nat
(* start_excerpt asserts that a thread id fits its bits, in debug builds.   *)
ASSUME ThreadAssumption ==
    /\ ThreadRange \in Nat /\ Threads \subseteq 0..(ThreadRange - 1)
    /\ ThreadsOf \in [Writers -> SUBSET Threads]
(* Regions have the largest power of two up to the block size, offsets are *)
(* packed with the size itself: nothing but a power of two will do, that   *)
(* is a number without an odd divisor.                                     *)
ASSUME DataAssumption ==
    /\ DataBlockSize \in Nat \ {0} /\ DataBlockSize % 4 = 0
    /\ \A d \in 2..DataBlockSize : DataBlockSize % d = 0 => d % 2 = 0
    /\ OffsetRange \in Nat \ {0}
    /\ MaxDataFiles \in Nat \ {0}
    /\ MaxDataFiles * DataBlockSize <= OffsetRange
    /\ OffsetRange % DataBlockSize = 0
    /\ RegionIds \subseteq Nat \ {NoRegion}
(* start_excerpt does not check that an excerpt fits in a block at all.  A  *)
(* capacity of zero would put an excerpt behind the last byte of a block,  *)
(* where its index value names the next one.                               *)
ASSUME CapacityAssumption ==
    \A n \in Capacities : n \in Nat \ {0} /\ n + 4 <= DataBlockSize

Cycles    == 0..MaxCycle
Tickets   == Writers \X (1..MaxExcerpts)
DataFiles == 0..(MaxDataFiles - 1)
DataKeys  == Cycles \X Threads \X DataFiles
Offsets   == 0..(DataBlockSize - 1)

(* What a byte holds: nothing, a part of a length header, or a part of the *)
(* payload of an excerpt.                                                  *)
Length(n) == <<"length", n>>

VARIABLES
    inFinish,  \* per appender: is it executing finish()?
    data,      \* the data files that exist, and what their bytes hold
    dregions,  \* region objects of data files
    dcache,    \* per process, the regions in vanilla_data::m_cache
    thr,       \* m_last_thread_id
    dataNo,    \* m_last_data_file_number
    dheld,     \* m_data_region
    buf,       \* m_buffer: where its data() is in the file, and its position
    value      \* per excerpt, the index_value that finish() computed (0: none)

dataVars == <<inFinish, data, dregions, dcache, thr, dataNo, dheld, buf, value>>
allVars  == <<vars, dataVars>>

NoBuffer   == [at |-> 0, position |-> 0, capacity |-> 0]
DataRegion == [cycle : Cycles, thread : Threads \cup {-1}, file : DataFiles,
               position : 0..DataBlockSize]
NoDataRegion == [cycle |-> 0, thread |-> -1, file |-> 0, position |-> 0]

DataTypeOK ==
    /\ inFinish \in [Writers -> BOOLEAN]
    /\ DOMAIN data \subseteq DataKeys
    /\ \A k \in DOMAIN data : DOMAIN data[k] = Offsets
    /\ dregions \in [RegionIds -> DataRegion]
    /\ dcache \in [Procs -> SUBSET RegionIds]
    /\ thr \in [Writers -> Threads \cup {-1}]
    /\ dataNo \in [Writers -> DataFiles \cup {-1}]
    /\ dheld \in [Writers -> RegionIds \cup {NoRegion}]
    /\ buf \in [Writers -> [at : 0..DataBlockSize, position : 0..DataBlockSize,
                              capacity : 0..DataBlockSize]]
    /\ value \in [Tickets -> Nat]

AppenderInit ==
    /\ Init
    /\ inFinish = [a \in Writers |-> FALSE]
    /\ data = <<>>
    /\ dregions = [r \in RegionIds |-> NoDataRegion]
    /\ dcache = [p \in Procs |-> {}]
    /\ thr = [a \in Writers |-> -1]
    /\ dataNo = [a \in Writers |-> -1]
    /\ dheld = [a \in Writers |-> NoRegion]
    /\ buf = [a \in Writers |-> NoBuffer]
    /\ value = [e \in Tickets |-> 0]

-----------------------------------------------------------------------------
\* The file a region maps, and the one an open excerpt is in.
KeyOf(r) == <<dregions[r].cycle, dregions[r].thread, dregions[r].file>>

DataReferenced == (UNION {dcache[p] : p \in Procs}) \cup {dheld[a] : a \in Writers}

DataRelease(objects) ==
    dregions' = [r \in RegionIds |-> IF r \in DataReferenced' THEN objects[r] ELSE NoDataRegion]

\* find_next_data_file_number: one more than the last file of the thread.
LastDataFileNumber(c, t) ==   \* mutant: the last file is used again
    LET taken == {k[3] : k \in {k \in DOMAIN data : k[1] = c /\ k[2] = t}}
    IN  CHOOSE n \in 0..MaxDataFiles :
          /\ n = 0 \/ n \in taken
          /\ \A m \in taken : m <= n
FindNextDataFileNumber(c, t) ==
    LET taken == {k[3] : k \in {k \in DOMAIN data : k[1] = c /\ k[2] = t}}
    IN  CHOOSE n \in 0..MaxDataFiles :
          /\ n = 0 \/ n - 1 \in taken
          /\ \A m \in taken : m < n

\* m_cache.get: the region this process has cached for a file, if any.
CachedData(p, key) == {r \in dcache[p] : KeyOf(r) = key}

(* data_for(cycle, thread, file, true), under the spin lock: a cached      *)
(* region or a new one with position 0, its file created if absent.        *)
DataFor(a, c, t, f) ==
    LET p == ProcOf[a]
        key == <<c, t, f>>
        cached == CachedData(p, key)
        new == CHOOSE r \in RegionIds : r \notin DataReferenced
    IN  /\ f < MaxDataFiles
        /\ dataNo' = [dataNo EXCEPT ![a] = f]
        /\ \/ \E r \in cached :
                /\ dheld' = [dheld EXCEPT ![a] = r]
                /\ UNCHANGED <<data, dcache>>
                /\ DataRelease(dregions)
           \/ /\ cached = {}
              /\ RegionIds \ DataReferenced # {}
              /\ dheld' = [dheld EXCEPT ![a] = new]
              /\ dcache' = [dcache EXCEPT ![p] = @ \cup {new}]
              /\ DataRelease([dregions EXCEPT ![new] =
                   [cycle |-> c, thread |-> t, file |-> f, position |-> 0]])
              /\ data' = [k \in DOMAIN data \cup {key} |->
                            IF k \in DOMAIN data THEN data[k]
                            ELSE [o \in Offsets |-> NoEntry]]

(* The data half of start_excerpt: a new file after a change of cycle or   *)
(* thread, the next one when the excerpt does not fit, else the same.      *)
NeverTooSmall(r, capacity) == FALSE  \* mutant: the room left is not looked at
TooSmallForPayload(r, capacity) ==   \* mutant: the length is not counted
    DataBlockSize - dregions[r].position < capacity
\* region.remaining() < capacity + 4
TooSmallFor(r, capacity) == DataBlockSize - dregions[r].position < capacity + 4

\* The region of the previous excerpt is used again.
KeepsAcrossThreads(a, t) ==   \* mutant: a new thread is not noticed
    cycle[a] = now /\ dheld[a] # NoRegion
KeepsDataRegion(a, t) == cycle[a] = now /\ thr[a] = t /\ dheld[a] # NoRegion
ChooseDataFile(a, t, capacity) ==
    \/ /\ ~ KeepsDataRegion(a, t)
       /\ DataFor(a, now, t, FindNextDataFileNumber(now, t))
    \/ /\ KeepsDataRegion(a, t)
       /\ TooSmallFor(dheld[a], capacity)
       /\ DataFor(a, now, t, dataNo[a] + 1)
    \/ /\ KeepsDataRegion(a, t)
       /\ ~ TooSmallFor(dheld[a], capacity)
       /\ UNCHANGED <<data, dregions, dcache, dataNo, dheld>>

\* A thread runs one call at a time.
ThreadFree(a, t) == \A b \in Writers \ {a} : inFinish[b] => thr[b] # t

StartExcerpt(a, t, capacity) ==
    /\ Start(a)
    /\ ~ inFinish[a] /\ ThreadFree(a, t)
    /\ ChooseDataFile(a, t, capacity)
    /\ thr' = [thr EXCEPT ![a] = t]
    /\ buf' = [buf EXCEPT ![a] = [at |-> dregions'[dheld'[a]].position + 4,
                                  position |-> 0, capacity |-> capacity]]
    /\ UNCHANGED <<inFinish, value>>

(* The write() calls for an excerpt, taken together: n bytes of it are     *)
(* stored.  It is the caller's business to stay within the capacity.       *)
Write(a, n) ==
    LET at == buf[a].at
        key == KeyOf(dheld[a])
    IN  /\ state[a] = "open" /\ ~ inFinish[a]
        /\ ThreadFree(a, thr[a])
        /\ buf[a].position = 0
        /\ n <= buf[a].capacity
        /\ data' = [data EXCEPT ![key] = [o \in Offsets |->
                      IF o \in at..(at + n - 1) THEN <<a, started[a]>> ELSE @[o]]]
        /\ buf' = [buf EXCEPT ![a].position = n]
        /\ UNCHANGED <<vars, inFinish, dregions, dcache, thr, dataNo, dheld, value>>

\* index_value, a word of 64 bits: the thread, and the offset over all its
\* data files.
IndexValue(t, f, at) ==
    (t * OffsetRange + f * DataBlockSize + at) % (ThreadRange * OffsetRange)

(* finish, before it turns to the index: the length goes in front of the   *)
(* payload.                                                                *)
Finish(a) ==
    LET key == KeyOf(dheld[a])
        at == buf[a].at
    IN  /\ state[a] = "open" /\ ~ inFinish[a]
        /\ ThreadFree(a, thr[a])
        /\ inFinish' = [inFinish EXCEPT ![a] = TRUE]
        /\ data' = [data EXCEPT ![key] = [o \in Offsets |->
                      IF o \in (at - 4)..(at - 1) THEN Length(buf[a].position) ELSE @[o]]]
        /\ value' = [value EXCEPT ![<<a, started[a]>>] =
                       IndexValue(thr[a], dregions[dheld[a]].file, at)]
        /\ UNCHANGED <<vars, dregions, dcache, thr, dataNo, dheld, buf>>

\* The index takes the value, or append throws because the cycle is full;
\* the excerpt can then be finished again.
PublishIndex(a) ==
    /\ inFinish[a]
    /\ Publish(a)
    /\ UNCHANGED dataVars
AppendThrows(a) ==
    /\ inFinish[a] /\ state[a] = "open"
    /\ inFinish' = [inFinish EXCEPT ![a] = FALSE]
    /\ UNCHANGED <<vars, data, dregions, dcache, thr, dataNo, dheld, buf, value>>

\* region.position(p) ignores a position past the end.
Positioned(old, p) == IF p <= DataBlockSize THEN p ELSE old
Align4(n) == ((n + 3) \div 4) * 4

(* The last lines of finish: the data region's position moves behind the   *)
(* excerpt and is aligned.                                                 *)
MoveOn(a) ==
    LET old == dregions[dheld[a]].position
        moved == Positioned(old, old + buf[a].position + 4)
    IN  dregions' = [dregions EXCEPT ![dheld[a]].position =
                       Positioned(moved, Align4(moved))]

FinishReturns(a) ==
    /\ Return(a)
    /\ MoveOn(a)
    /\ inFinish' = [inFinish EXCEPT ![a] = FALSE]
    /\ buf' = [buf EXCEPT ![a] = NoBuffer]
    /\ UNCHANGED <<data, dcache, thr, dataNo, dheld, value>>

-----------------------------------------------------------------------------
\* Appenders are constructed anew; their excerpts are lost.
Fresh(A) ==
    /\ Restart(A)
    /\ inFinish' = [a \in Writers |-> a \notin A /\ inFinish[a]]
    /\ thr' = [a \in Writers |-> IF a \in A THEN -1 ELSE thr[a]]
    /\ dataNo' = [a \in Writers |-> IF a \in A THEN -1 ELSE dataNo[a]]
    /\ dheld' = [a \in Writers |-> IF a \in A THEN NoRegion ELSE dheld[a]]
    /\ buf' = [a \in Writers |-> IF a \in A THEN NoBuffer ELSE buf[a]]
    /\ UNCHANGED <<data, value>>
    /\ DataRelease(dregions)

CreateAppender(a) ==
    /\ ~ inFinish[a]
    /\ UNCHANGED dcache
    /\ Fresh({a})

Crash(p) ==
    /\ dcache' = [dcache EXCEPT ![p] = {}]
    /\ Fresh({a \in Writers : ProcOf[a] = p})

\* The LRU cache, which tailers use too, drops a region.
Evict(p) ==
    /\ \E r \in dcache[p] : dcache' = [dcache EXCEPT ![p] = @ \ {r}]
    /\ UNCHANGED <<vars, inFinish, data, thr, dataNo, dheld, buf, value>>
    /\ DataRelease(dregions)

AppenderNext ==
    \/ \E a \in Writers :
         \/ \E t \in ThreadsOf[a], n \in Capacities : StartExcerpt(a, t, n)
         \/ \E n \in Capacities : Write(a, n)
         \/ Finish(a) \/ PublishIndex(a) \/ AppendThrows(a) \/ FinishReturns(a)
         \/ CreateAppender(a)
    \/ \E p \in Procs : Crash(p) \/ Evict(p)
    \/ Tick /\ UNCHANGED dataVars

AppenderSpec == AppenderInit /\ [][AppenderNext]_allVars

-----------------------------------------------------------------------------
\* Excerpts that are in the index of cycle c, and where the index says they are.
PublishedIn(c) == {log[c][i] : i \in 1..Len(log[c])}

ThreadOfValue(v) == v \div OffsetRange
FileOfValue(v)   == (v % OffsetRange) \div DataBlockSize
OffsetOfValue(v) == (v % OffsetRange) % DataBlockSize

(* An excerpt that is in the index can be read for ever after: at the      *)
(* place its index value names there is a length, and behind it that many  *)
(* bytes of this excerpt, which no later excerpt, of any appender, ever    *)
(* overwrites.                                                             *)
PublishedIntact ==
    \A c \in Cycles : \A e \in PublishedIn(c) :
        LET v == value[e]
            key == <<c, ThreadOfValue(v), FileOfValue(v)>>
            at == OffsetOfValue(v)
        IN  /\ key \in DOMAIN data
            /\ at >= 4
            /\ \E n \in 0..(DataBlockSize - at) :
                 /\ \A o \in (at - 4)..(at - 1) : data[key][o] = Length(n)
                 /\ \A o \in at..(at + n - 1) : data[key][o] = e

(* The buffer handed to the caller lies within the block, its length word  *)
(* included, and is aligned as read_ordered32 demands of the length.       *)
BufferFits ==
    \A a \in Writers :
        state[a] = "open" =>
            /\ buf[a].at % 4 = 0
            /\ buf[a].at >= 4
            /\ buf[a].at + buf[a].capacity <= DataBlockSize
=============================================================================
