---------------------------- MODULE VanillaIndex ----------------------------
(***************************************************************************)
(* How appenders publish excerpts through the memory-mapped index files    *)
(* of a chronicle: vanilla_index (index_for, append, the directory scan),  *)
(* the index half of excerpt_appender::start_excerpt and finish, and the   *)
(* chronicle's shared m_last_written_index.                                *)
(*                                                                         *)
(* Index entries live in files, one sequence of files per cycle; any       *)
(* number of appenders (threads), in any number of processes, claim slots  *)
(* with a CAS.  A region is the in-memory object a process maps a file     *)
(* through; its position is only a hint for where to start looking, it is  *)
(* shared by the appenders of the process and it may move backwards.       *)
(* Offsets into an index file are counted in slots (of 8 bytes).           *)
(***************************************************************************)
EXTENDS Integers, FiniteSets

CONSTANTS
    Appenders,       \* appenders, each used by one thread at a time
    Procs,           \* processes; one vanilla_chronicle object each
    ProcOf,          \* the process of each appender
    MaxCycle,        \* bound of the clock: cycles 0..MaxCycle
    MaxIndexFiles,   \* files per cycle (10000 in vanilla_index::append)
    SlotsPerFile,    \* entries per index file (index_block_size / 8)
    EntriesPerCycle, \* settings.entries_per_cycle()
    RegionIds,       \* identities of region objects
    MaxExcerpts,     \* bound on the excerpts each appender starts
    NoEntry          \* the zero of a slot nobody has claimed

NoRegion == 0        \* the null region_ptr

ASSUME ProcAssumption == ProcOf \in [Appenders -> Procs]
ASSUME BoundsAssumption ==
    /\ MaxCycle \in Nat /\ MaxExcerpts \in Nat
    /\ MaxIndexFiles \in Nat \ {0} /\ SlotsPerFile \in Nat \ {0}
ASSUME RegionAssumption == RegionIds \subseteq Nat \ {NoRegion}
(* The defaults have 2^40 entries per cycle, 10000 files of 2^21 slots.    *)
(* The code shifts and masks: both sizes are powers of two there.          *)
ASSUME EntriesAssumption ==
    /\ EntriesPerCycle \in Nat
    /\ EntriesPerCycle >= MaxIndexFiles * SlotsPerFile
    /\ EntriesPerCycle % SlotsPerFile = 0
ASSUME EntryAssumption == NoEntry \notin Appenders \X (1..MaxExcerpts)

Cycles  == 0..MaxCycle
Files   == 0..(MaxIndexFiles - 1)
Slots   == 0..(SlotsPerFile - 1)
Tickets == Appenders \X (1..MaxExcerpts)   \* an excerpt: who, and its how-many-th

VARIABLES
    now,      \* the cycle of the wall clock (cycle_for_now)
    slots,    \* contents of the index files; an absent file reads as zeros
    files,    \* per cycle, the index files that exist
    regions,  \* the region objects: which file, and m_position_offset
    cache,    \* per process, the regions in vanilla_index::m_cache
    lwi,      \* per process, vanilla_chronicle::m_last_written_index
    pc,       \* per appender, where its thread is
    cyc,      \* m_last_cycle
    fileNo,   \* m_last_index_file_number
    held,     \* m_index_region
    written,  \* excerpt_appender::m_last_written_index
    cur,      \* the region vanilla_index::append(region &) works on
    count,    \* index_count, the loop variable of vanilla_index::append
    pos,      \* position, the loop variable of append(region &)
    seen,     \* lwi, the local of set_last_written_index
    seq       \* ghost: the number of excerpts started so far

disk      == <<slots, files>>
shared    == <<regions, cache>>
registers == <<cyc, fileNo, held, written, cur, count, pos, seen>>
vars      == <<now, disk, shared, lwi, pc, registers, seq>>

Labels == {"idle", "open", "find", "load", "cas", "store", "loadLwi", "casLwi"}
\* Inside finish(), before and after the CAS that publishes the excerpt.
Claiming  == {"find", "load", "cas"}
Recording == {"store", "loadLwi", "casLwi"}

Region   == [cycle : Cycles, file : Files, position : 0..SlotsPerFile]
Unmapped == [cycle |-> 0, file |-> 0, position |-> 0]   \* an id not in use

TypeOK ==
    /\ now \in Cycles
    /\ slots \in [Cycles -> [Files -> [Slots -> Tickets \cup {NoEntry}]]]
    /\ files \in [Cycles -> SUBSET Files]
    /\ regions \in [RegionIds -> Region]
    /\ cache \in [Procs -> SUBSET RegionIds]
    /\ lwi \in [Procs -> Int]
    /\ pc \in [Appenders -> Labels]
    /\ cyc \in [Appenders -> Cycles \cup {-1}]
    /\ fileNo \in [Appenders -> (0..MaxIndexFiles) \cup {-1}]
    /\ held \in [Appenders -> RegionIds \cup {NoRegion}]
    /\ written \in [Appenders -> Int]
    /\ cur \in [Appenders -> RegionIds \cup {NoRegion}]
    /\ count \in [Appenders -> 0..MaxIndexFiles]
    /\ pos \in [Appenders -> 0..SlotsPerFile]
    /\ seen \in [Appenders -> Int]
    /\ seq \in [Appenders -> 0..MaxExcerpts]

Init ==
    /\ now = 0
    /\ slots = [c \in Cycles |-> [f \in Files |-> [s \in Slots |-> NoEntry]]]
    /\ files = [c \in Cycles |-> {}]
    /\ regions = [r \in RegionIds |-> Unmapped]
    /\ cache = [p \in Procs |-> {}]
    /\ lwi = [p \in Procs |-> -1]
    /\ pc = [a \in Appenders |-> "idle"]
    /\ cyc = [a \in Appenders |-> -1]
    /\ fileNo = [a \in Appenders |-> -1]
    /\ held = [a \in Appenders |-> NoRegion]
    /\ written = [a \in Appenders |-> -1]
    /\ cur = [a \in Appenders |-> NoRegion]
    /\ count = [a \in Appenders |-> 0]
    /\ pos = [a \in Appenders |-> 0]
    /\ seen = [a \in Appenders |-> 0]
    /\ seq = [a \in Appenders |-> 0]

-----------------------------------------------------------------------------
Goto(a, label) == pc' = [pc EXCEPT ![a] = label]

Ticket(a) == <<a, seq[a]>>

\* The scan of a cycle's directory.  The number is parsed with the dash in
\* front of it, so "index-f" counts as -f: only index-0 beats the initial -1.
LastIndexFileNumber(c, default) == IF 0 \in files[c] THEN 0 ELSE default

\* excerpt_appender::index_from, with the shifts as multiplications.
IndexAfter(c, f, s) == c * EntriesPerCycle + f * SlotsPerFile + s + 1  \* mutant
IndexFrom(c, f, s) == c * EntriesPerCycle + f * SlotsPerFile + s

\* How excerpt_tailer::index takes an index apart again.
CycleOf(i) == i \div EntriesPerCycle
FileOf(i)  == (i % EntriesPerCycle) \div SlotsPerFile
SlotOf(i)  == i % SlotsPerFile

\* Regions some shared_ptr refers to.
Referenced == (UNION {cache[p] : p \in Procs})
                \cup {held[a] : a \in Appenders} \cup {cur[a] : a \in Appenders}

\* The objects left after a step that drops references to some of them.
Release(objects) ==
    regions' = [r \in RegionIds |-> IF r \in Referenced' THEN objects[r] ELSE Unmapped]

\* index_for: the cached regions of a file, at most one per process.
Cached(p, c, f) == {r \in cache[p] : regions[r].cycle = c /\ regions[r].file = f}

-----------------------------------------------------------------------------
\* A changed cycle drops the index region and rescans the directory.
NewCycleKeepsRegion(a) ==   \* mutant: no m_index_region.reset()
    /\ cyc' = [cyc EXCEPT ![a] = now]
    /\ fileNo' = [fileNo EXCEPT ![a] = LastIndexFileNumber(now, 0)]
    /\ UNCHANGED held
NewCycle(a) ==
    /\ cyc' = [cyc EXCEPT ![a] = now]
    /\ fileNo' = [fileNo EXCEPT ![a] = LastIndexFileNumber(now, 0)]
    /\ held' = [held EXCEPT ![a] = NoRegion]

(* start_excerpt may also be called on an excerpt that was never finished, *)
(* which is thereby abandoned.                                             *)
StartExcerpt(a) ==
    /\ pc[a] \in {"idle", "open"}
    /\ seq[a] < MaxExcerpts
    /\ seq' = [seq EXCEPT ![a] = @ + 1]
    /\ Goto(a, "open")
    /\ IF cyc[a] # now THEN NewCycle(a) ELSE UNCHANGED <<cyc, fileNo, held>>
    /\ UNCHANGED <<now, disk, cache, lwi, written, cur, count, pos, seen>>
    /\ Release(regions)

\* if(m_finished) throw: an excerpt is finished once.
MayFinishAgain(a) == pc[a] \in {"idle", "open"} /\ cyc[a] # -1   \* mutant
MayFinish(a) == pc[a] = "open"

\* finish: append to the region held since the last excerpt, if there is one.
BeginFinish(a) ==
    /\ MayFinish(a)
    /\ IF held[a] # NoRegion
       THEN /\ Goto(a, "load")
            /\ cur' = [cur EXCEPT ![a] = held[a]]
            /\ UNCHANGED count
       ELSE /\ Goto(a, "find")
            /\ count' = [count EXCEPT ![a] = fileNo[a]]
            /\ UNCHANGED cur
    /\ UNCHANGED <<now, disk, shared, lwi, cyc, fileNo, held, written, pos, seen, seq>>

(* index_for(cycle, count, true), under the spin lock: a cached region, or *)
(* a new one with position 0, its file created full of zeros if absent.    *)
IndexFor(a) ==
    LET p == ProcOf[a]
        c == cyc[a]
        f == count[a]
    IN  /\ pc[a] = "find"
        /\ f < MaxIndexFiles
        /\ \/ \E r \in Cached(p, c, f) :
                /\ cur' = [cur EXCEPT ![a] = r]
                /\ UNCHANGED <<files, regions, cache>>
           \/ /\ Cached(p, c, f) = {}
              /\ RegionIds \ Referenced # {}
              /\ LET r == CHOOSE r \in RegionIds : r \notin Referenced
                 IN  /\ regions' = [regions EXCEPT ![r] =
                                      [cycle |-> c, file |-> f, position |-> 0]]
                     /\ cache' = [cache EXCEPT ![p] = @ \cup {r}]
                     /\ cur' = [cur EXCEPT ![a] = r]
              /\ files' = [files EXCEPT ![c] = @ \cup {f}]
        /\ Goto(a, "load")
        /\ UNCHANGED <<now, slots, lwi, cyc, fileNo, held, written, count, pos, seen, seq>>

\* Every file number was tried: std::logic_error, the excerpt stays open.
AppendThrows(a) ==
    /\ pc[a] = "find"
    /\ count[a] >= MaxIndexFiles
    /\ Goto(a, "open")
    /\ count' = [count EXCEPT ![a] = 0]
    /\ UNCHANGED <<now, disk, shared, lwi, cyc, fileNo, held, written, cur, pos, seen, seq>>

\* append(region &): start from the position other appenders left behind.
LoadPosition(a) ==
    /\ pc[a] = "load"
    /\ pos' = [pos EXCEPT ![a] = regions[cur[a]].position]
    /\ Goto(a, "cas")
    /\ UNCHANGED <<now, disk, shared, lwi, cyc, fileNo, held, written, cur, count, seen, seq>>

\* cas64 of a zero slot succeeds and publishes the excerpt.
CasSucceeds(a) ==
    LET r == regions[cur[a]]
    IN  /\ pc[a] = "cas"
        /\ pos[a] < SlotsPerFile
        /\ slots[r.cycle][r.file][pos[a]] = NoEntry
        /\ slots' = [slots EXCEPT ![r.cycle][r.file][pos[a]] = Ticket(a)]
        /\ Goto(a, "store")
        /\ UNCHANGED <<now, files, shared, lwi, registers, seq>>

\* cas64 fails, somebody was faster: try the next slot.
CasFails(a) ==
    LET r == regions[cur[a]]
    IN  /\ pc[a] = "cas"
        /\ pos[a] < SlotsPerFile
        /\ slots[r.cycle][r.file][pos[a]] # NoEntry
        /\ pos' = [pos EXCEPT ![a] = @ + 1]
        /\ UNCHANGED <<now, disk, shared, lwi, pc, cyc, fileNo, held, written, cur, count, seen, seq>>

\* The file to go on with when a region is full.
NextFileStays(a) == IF held[a] # NoRegion THEN regions[held[a]].file ELSE count[a]          \* mutant
NextFile(a) == IF held[a] # NoRegion THEN regions[held[a]].file + 1 ELSE count[a] + 1

(* The region is full.  If it was the held one, finish drops it and looks  *)
(* from the next file on; if not, the loop of append moves on.             *)
RegionFull(a) ==
    /\ pc[a] = "cas"
    /\ pos[a] = SlotsPerFile
    /\ Goto(a, "find")
    /\ count' = [count EXCEPT ![a] = NextFile(a)]
    /\ IF held[a] # NoRegion
       THEN /\ fileNo' = [fileNo EXCEPT ![a] = NextFile(a)]
            /\ held' = [held EXCEPT ![a] = NoRegion]
       ELSE UNCHANGED <<fileNo, held>>
    /\ cur' = [cur EXCEPT ![a] = NoRegion]
    /\ pos' = [pos EXCEPT ![a] = 0]
    /\ UNCHANGED <<now, disk, cache, lwi, cyc, written, seen, seq>>
    /\ Release(regions)

\* position + 8, stored in the region once the slot has been won.
PositionTooFar(a) == pos[a] + 2   \* mutant
PositionAfter(a) == pos[a] + 1

(* region.position(position + 8), an unconditional store that can undo the *)
(* store of a faster appender; finish then holds on to the region.         *)
StorePosition(a) ==
    /\ pc[a] = "store"
    /\ regions' = [regions EXCEPT ![cur[a]].position = PositionAfter(a)]
    /\ held' = [held EXCEPT ![a] = cur[a]]
    /\ fileNo' = [fileNo EXCEPT ![a] = IF held[a] = NoRegion THEN regions[cur[a]].file ELSE @]
    /\ written' = [written EXCEPT ![a] =
                     IndexFrom(cyc[a], regions[cur[a]].file, pos[a])]
    /\ Goto(a, "loadLwi")
    /\ cur' = [cur EXCEPT ![a] = NoRegion]
    /\ count' = [count EXCEPT ![a] = 0]
    /\ pos' = [pos EXCEPT ![a] = 0]
    /\ UNCHANGED <<now, disk, cache, lwi, cyc, seen, seq>>

\* set_last_written_index: nothing to do when the chronicle is ahead already.
LoadLwi(a) ==
    LET lwi0 == lwi[ProcOf[a]]
    IN  /\ pc[a] = "loadLwi"
        /\ IF lwi0 >= written[a]
           THEN Goto(a, "idle") /\ UNCHANGED seen
           ELSE Goto(a, "casLwi") /\ seen' = [seen EXCEPT ![a] = lwi0]
        /\ UNCHANGED <<now, disk, shared, lwi, cyc, fileNo, held, written, cur, count, pos, seq>>

CasLwiOnce(a) ==   \* mutant: no second attempt
    LET p == ProcOf[a]
    IN  /\ pc[a] = "casLwi"
        /\ lwi' = IF lwi[p] = seen[a] THEN [lwi EXCEPT ![p] = written[a]] ELSE lwi
        /\ Goto(a, "idle")
        /\ seen' = [seen EXCEPT ![a] = 0]
        /\ UNCHANGED <<now, disk, shared, cyc, fileNo, held, written, cur, count, pos, seq>>
StoreLwi(a) ==     \* mutant: a plain store
    /\ pc[a] = "casLwi"
    /\ lwi' = [lwi EXCEPT ![ProcOf[a]] = written[a]]
    /\ Goto(a, "idle")
    /\ seen' = [seen EXCEPT ![a] = 0]
    /\ UNCHANGED <<now, disk, shared, cyc, fileNo, held, written, cur, count, pos, seq>>

\* compare_exchange of the value loaded: installed, or loaded again.
CasLwi(a) ==
    LET p == ProcOf[a]
    IN  /\ pc[a] = "casLwi"
        /\ IF lwi[p] = seen[a]
           THEN lwi' = [lwi EXCEPT ![p] = written[a]] /\ Goto(a, "idle")
           ELSE UNCHANGED lwi /\ Goto(a, "loadLwi")
        /\ seen' = [seen EXCEPT ![a] = 0]
        /\ UNCHANGED <<now, disk, shared, cyc, fileNo, held, written, cur, count, pos, seq>>

-----------------------------------------------------------------------------
\* The registers of an appender that has just been constructed.
Fresh(A) ==
    /\ pc' = [a \in Appenders |-> IF a \in A THEN "idle" ELSE pc[a]]
    /\ cyc' = [a \in Appenders |-> IF a \in A THEN -1 ELSE cyc[a]]
    /\ fileNo' = [a \in Appenders |-> IF a \in A THEN -1 ELSE fileNo[a]]
    /\ held' = [a \in Appenders |-> IF a \in A THEN NoRegion ELSE held[a]]
    /\ written' = [a \in Appenders |-> IF a \in A THEN -1 ELSE written[a]]
    /\ cur' = [a \in Appenders |-> IF a \in A THEN NoRegion ELSE cur[a]]
    /\ count' = [a \in Appenders |-> IF a \in A THEN 0 ELSE count[a]]
    /\ pos' = [a \in Appenders |-> IF a \in A THEN 0 ELSE pos[a]]
    /\ seen' = [a \in Appenders |-> IF a \in A THEN 0 ELSE seen[a]]

\* A thread throws its appender away and creates another one.
CreateAppender(a) ==
    /\ pc[a] \in {"idle", "open"}
    /\ Fresh({a})
    /\ UNCHANGED <<now, disk, cache, lwi, seq>>
    /\ Release(regions)

(* A process dies anywhere and is started again.  The index files are     *)
(* mapped shared, so what was written stays; the objects are gone.         *)
Crash(p) ==
    /\ Fresh({a \in Appenders : ProcOf[a] = p})
    /\ cache' = [cache EXCEPT ![p] = {}]
    /\ lwi' = [lwi EXCEPT ![p] = -1]
    /\ UNCHANGED <<now, disk, seq>>
    /\ Release(regions)

(* The LRU cache drops a region.  Tailers of the process use the same      *)
(* cache, so from here any entry may go at any time.                       *)
Evict(p) ==
    /\ \E r \in cache[p] : cache' = [cache EXCEPT ![p] = @ \ {r}]
    /\ UNCHANGED <<now, disk, lwi, pc, registers, seq>>
    /\ Release(regions)

\* The wall clock enters the next cycle.
Tick ==
    /\ now < MaxCycle
    /\ now' = now + 1
    /\ UNCHANGED <<disk, shared, lwi, pc, registers, seq>>

\* What a thread does by itself once it has entered finish().
FinishStep(a) ==
    \/ IndexFor(a) \/ AppendThrows(a)
    \/ LoadPosition(a) \/ CasSucceeds(a) \/ CasFails(a) \/ RegionFull(a)
    \/ StorePosition(a) \/ LoadLwi(a) \/ CasLwi(a)

Next ==
    \/ \E a \in Appenders :
         StartExcerpt(a) \/ BeginFinish(a) \/ FinishStep(a) \/ CreateAppender(a)
    \/ \E p \in Procs : Crash(p) \/ Evict(p)
    \/ Tick

Spec == Init /\ [][Next]_vars

\* The scheduler runs every thread, and the spin lock is released (its
\* critical section has no loop).
Fairness == \A a \in Appenders : WF_vars(FinishStep(a))

FairSpec == Spec /\ Fairness

-----------------------------------------------------------------------------
\* Every slot of cycle c in front of slot s of file f has been claimed.
FilledBelow(mem, c, f, s) ==
    \A f1 \in Files, s1 \in Slots :
        f1 < f \/ (f1 = f /\ s1 < s) => mem[c][f1][s1] # NoEntry

\* The entry in a slot, if any, is an excerpt of appender a.
IsBy(e, a) == e # NoEntry /\ e[1] = a

(* The entries of a cycle form one sequence without holes, across its      *)
(* files: append never leaves a slot behind for good, whatever the shared  *)
(* position hints say, so a tailer that stops at the first zero slot has   *)
(* not overlooked anything.                                                *)
NoGaps ==
    \A c \in Cycles, f \in Files, s \in Slots :
        slots[c][f][s] # NoEntry => FilledBelow(slots, c, f, s)

(* The position of a region is a sound hint even though appenders store it *)
(* unconditionally and out of order (region.position(position + 8)) and    *)
(* every region starts from 0: nothing below it is still free.             *)
HintsSound ==
    \A r \in RegionIds :
        FilledBelow(slots, regions[r].cycle, regions[r].file, regions[r].position)

(* finish() enters an excerpt in the index at most once, even if it was    *)
(* retried after a throw or moved on to the next file under contention.    *)
PublishedOnce ==
    \A c1, c2 \in Cycles, f1, f2 \in Files, s1, s2 \in Slots :
        slots[c1][f1][s1] # NoEntry /\ slots[c1][f1][s1] = slots[c2][f2][s2]
          => <<c1, f1, s1>> = <<c2, f2, s2>>

(* Reading in index order yields the excerpts of each appender in the      *)
(* order it wrote them, over index files and cycles, abandoned and lost    *)
(* ones left out (the multi-writer test: counts[idx]++ == val).            *)
WriterOrder ==
    \A a \in Appenders, c1, c2 \in Cycles, f1, f2 \in Files, s1, s2 \in Slots :
        /\ IsBy(slots[c1][f1][s1], a)
        /\ IsBy(slots[c2][f2][s2], a)
        /\ \/ c1 < c2
           \/ c1 = c2 /\ f1 < f2
           \/ c1 = c2 /\ f1 = f2 /\ s1 < s2
        => slots[c1][f1][s1][2] < slots[c2][f2][s2][2]

(* finish() gives up with std::logic_error only when the cycle really has  *)
(* no free slot in any of its files.                                       *)
ThrowsOnlyWhenFull ==
    \A a \in Appenders :
        pc[a] = "find" /\ count[a] >= MaxIndexFiles
          => \A f \in Files, s \in Slots : slots[cyc[a]][f][s] # NoEntry

(* Once finish() has returned, the chronicle's last_written_index() is at  *)
(* least the appender's own, although appenders race to raise it.          *)
LwiCoversFinished ==
    \A a \in Appenders :
        pc[a] \notin {"loadLwi", "casLwi"} => lwi[ProcOf[a]] >= written[a]

(* last_written_index() always names a slot that holds an entry, and so do *)
(* all slots in front of it in that cycle: a reader may index() to it.     *)
LwiIsReadable ==
    \A p \in Procs :
        lwi[p] >= 0 =>
            LET c == CycleOf(lwi[p])  f == FileOf(lwi[p])  s == SlotOf(lwi[p])
            IN  /\ slots[c][f][s] # NoEntry
                /\ FilledBelow(slots, c, f, s)

(* last_written_index() never decreases in the life of a process: the CAS  *)
(* loop is a maximum.                                                      *)
LwiMonotonic ==
    [][\A p \in Procs : lwi'[p] >= lwi[p] \/ Crash(p)]_vars

(* finish() returns, normally or with a throw, however long other          *)
(* appenders keep winning the CAS.                                         *)
FinishReturns ==
    \A a \in Appenders :
        pc[a] \in Claiming \cup Recording ~> pc[a] \in {"idle", "open"}

-----------------------------------------------------------------------------
\* The entries of a cycle in index order, as one sequence.
LogOf(c) ==
    LET entry(i) == slots[c][(i - 1) \div SlotsPerFile][(i - 1) % SlotsPerFile]
        length == Cardinality({x \in Files \X Slots : slots[c][x[1]][x[2]] # NoEntry})
    IN  [i \in 1..length |-> entry(i)]

StateOf(a) ==
    CASE pc[a] = "idle" -> "none"
      [] pc[a] \in {"open"} \cup Claiming -> "open"
      [] pc[a] \in Recording -> "logged"

Log == INSTANCE ChronicleLog WITH
    Writers <- Appenders,
    log     <- [c \in Cycles |-> LogOf(c)],
    state   <- [a \in Appenders |-> StateOf(a)],
    cycle   <- cyc,
    started <- seq

(* The index files, shared by racing appenders, implement the abstract     *)
(* logs: each CAS that succeeds is the atomic append of one excerpt to the *)
(* end of the log of the cycle its start_excerpt saw.                      *)
ImplementsLog == Log!Spec
=============================================================================
