---------------------------- MODULE ExcerptTailer ----------------------------
(***************************************************************************)
(* Reading a chronicle: excerpt_tailer (next_index, index, to_start,       *)
(* to_end), and the scans of the directory it relies on (find_first_cycle, *)
(* find_last_cycle, last_index).                                           *)
(*                                                                         *)
(* What is read is the abstract ChronicleLog, cut into index files of      *)
(* SlotsPerFile entries, and data files of ExcerptsPerFile excerpts, one   *)
(* sequence of them per cycle and writer.  One tailer reads while the      *)
(* writers go on; each call of index() is one step (files and entries only *)
(* ever appear, so its look at the slot decides), next_index() as many as  *)
(* it has calls of index() and readings of the clock.                      *)
(***************************************************************************)
EXTENDS ChronicleLog, FiniteSets, SequencesExt

CONSTANTS
    FirstCycle,       \* the cycle number of cycle 0: days since 1970, say
    MaxIndexFiles,    \* bound on the index files of a cycle
    SlotsPerFile,     \* entries per index file
    EntriesPerCycle,  \* settings.entries_per_cycle()
    ExcerptsPerFile,  \* excerpts per data file
    Calls             \* the member functions the owner of the tailer calls

ASSUME TailerAssumption ==
    /\ FirstCycle \in Nat \ {0}     \* cycle 0 would be in 1970
    /\ MaxIndexFiles \in Nat \ {0} /\ SlotsPerFile \in Nat \ {0}
    /\ ExcerptsPerFile \in Nat \ {0}
    /\ MaxCycle \in Nat /\ MaxExcerpts \in Nat
    /\ EntriesPerCycle \in Nat /\ EntriesPerCycle >= MaxIndexFiles * SlotsPerFile
    /\ EntriesPerCycle % SlotsPerFile = 0
    /\ Calls \subseteq {"next_index", "to_start", "to_end", "index"}

Cycles   == 0..MaxCycle
Excerpts == Writers \X (1..MaxExcerpts)
Nothing  == <<>>         \* a null region_ptr, a slot or a length that is zero

VARIABLES
    dirs,        \* cycles that have a directory
    indexFiles,  \* the index files that exist, as <<cycle, number>>
    pc,          \* where the tailer is: "idle", "look" or "clock" in
                 \* next_index(), "seek" in index()
    next,        \* the index to look up, a local of next_index()
    index,       \* m_index
    lastCycle,   \* m_last_cycle
    lastFile,    \* m_last_index_file_number
    indexRegion, \* m_index_region: the file it maps
    lastThread,  \* m_last_thread_id
    lastData,    \* m_last_data_file_number
    dataRegion,  \* m_data_region: <<cycle, thread, number>> of the file
    buffer,      \* m_buffer: the excerpt it shows
    returned,    \* what the last call returned
    delivered    \* ghost: per cycle, what next_index() gave since the tailer
                 \* was last moved by another call

store      == <<vars, dirs, indexFiles>>
tailer     == <<lastCycle, lastFile, indexRegion, lastThread, lastData, dataRegion>>
tailerVars == <<store, pc, next, index, tailer, buffer, returned, delivered>>

TailerInit ==
    /\ Init
    /\ dirs = {} /\ indexFiles = {}
    /\ pc = "idle" /\ next = 0 /\ index = -1
    /\ lastCycle = -1 /\ lastFile = -1 /\ indexRegion = Nothing
    /\ lastThread = Nothing /\ lastData = -1 /\ dataRegion = Nothing
    /\ buffer = Nothing /\ returned = FALSE
    /\ delivered = [c \in Cycles |-> <<>>]

-----------------------------------------------------------------------------
\* The index of the k-th entry of cycle c (from 0), and its parts.
IndexOf(c, k) == (c + FirstCycle) * EntriesPerCycle + k
CycleOf(i)    == i \div EntriesPerCycle - FirstCycle
NumberOf(i)   == i % EntriesPerCycle
FileOf(i)     == NumberOf(i) \div SlotsPerFile

SlotOf(i)     == i % SlotsPerFile

\* What a slot of an index file holds: an entry, or zero.
SlotAt(file, slot) ==
    LET k == file[2] * SlotsPerFile + slot
    IN  IF file[1] \in Cycles /\ k < Len(log[file[1]]) THEN log[file[1]][k + 1] ELSE Nothing

\* The entry that has been published with an index.
EntryAt(i) == SlotAt(<<CycleOf(i), FileOf(i)>>, SlotOf(i))

(* Where the data of an excerpt is: each writer has a thread of its own    *)
(* and fills file after file of its cycle.                                 *)
NthInCycle(e, c) == Cardinality({i \in 1..Len(log[c]) : log[c][i][1] = e[1] /\ log[c][i][2] < e[2]})
DataFileOf(e, c) == NthInCycle(e, c) \div ExcerptsPerFile
OffsetOf(e, c)   == NthInCycle(e, c) % ExcerptsPerFile

\* The excerpt whose length is at an offset of a data file, if it is there.
ContentAt(region, offset) ==
    LET there == {e \in ToSet(log[region[1]]) :
                    /\ e[1] = region[2]
                    /\ DataFileOf(e, region[1]) = region[3]
                    /\ OffsetOf(e, region[1]) = offset}
    IN  IF there = {} THEN Nothing ELSE CHOOSE e \in there : TRUE

-----------------------------------------------------------------------------
(* The writers, as far as a tailer can tell: start_excerpt reads the clock *)
(* and later, when it gets its data region, makes the cycle's directory;   *)
(* finish() makes the index file it needs and then publishes.  In between  *)
(* other writers may be ahead, in the next cycle even.                     *)
NextIndexFile(w) == <<cycle[w], Len(log[cycle[w]]) \div SlotsPerFile>>

\* start_excerpt has what it needs: it returns, and the excerpt may be
\* finished, or given up for another.
Started(w) == state[w] = "open" /\ cycle[w] \in dirs

StartExcerpt(w) ==
    /\ state[w] = "open" => Started(w)
    /\ Start(w)
    /\ UNCHANGED <<dirs, indexFiles>>
MakeDirectory(w) ==
    /\ state[w] = "open" /\ cycle[w] \notin dirs
    /\ dirs' = dirs \cup {cycle[w]}
    /\ UNCHANGED <<vars, indexFiles>>
OpenIndexFile(w) ==
    /\ Started(w)
    /\ NextIndexFile(w)[2] < MaxIndexFiles
    /\ NextIndexFile(w) \notin indexFiles
    /\ indexFiles' = indexFiles \cup {NextIndexFile(w)}
    /\ UNCHANGED <<vars, dirs>>
PublishIndex(w) ==
    /\ Started(w)
    /\ NextIndexFile(w) \in indexFiles
    /\ Publish(w)
    /\ UNCHANGED <<dirs, indexFiles>>

WriterStep ==
    /\ \/ \E w \in Writers :
            \/ StartExcerpt(w) \/ MakeDirectory(w)
            \/ OpenIndexFile(w) \/ PublishIndex(w)
            \/ Return(w) /\ UNCHANGED <<dirs, indexFiles>>
       \/ Tick /\ UNCHANGED <<dirs, indexFiles>>
    /\ UNCHANGED <<pc, next, index, tailer, buffer, returned, delivered>>

-----------------------------------------------------------------------------
\* index(i), one action for each way it can end.
IndexFileChanges(i) ==
    \/ lastCycle # CycleOf(i) \/ lastFile # FileOf(i)
    \/ indexRegion = Nothing

\* There is no such index file: only the region is reset.
IndexFileMissing(i) ==
    /\ IndexFileChanges(i)
    /\ <<CycleOf(i), FileOf(i)>> \notin indexFiles
    /\ indexRegion' = Nothing
    /\ UNCHANGED <<index, lastCycle, lastFile, lastThread, lastData, dataRegion, buffer>>

\* The region of the index file is mapped, or it is still there.
MapsIndexFile(i) ==
    IF IndexFileChanges(i)
    THEN /\ <<CycleOf(i), FileOf(i)>> \in indexFiles
         /\ indexRegion' = <<CycleOf(i), FileOf(i)>>
         /\ lastCycle' = CycleOf(i)
         /\ lastFile' = FileOf(i)
    ELSE UNCHANGED <<indexRegion, lastCycle, lastFile>>

\* The slot is zero: what was mapped stays, the data region too.
SlotEmpty(i) ==
    /\ MapsIndexFile(i)
    /\ SlotAt(indexRegion', SlotOf(i)) = Nothing
    /\ UNCHANGED <<index, lastThread, lastData, dataRegion, buffer>>

\* The data region of the last excerpt is taken for that of entry e too.
KeepsWithinThread(i, e) ==   \* mutant: the file number is not compared
    lastThread = e[1] /\ ~ IndexFileChanges(i) /\ dataRegion # Nothing
KeepsDataRegion(i, e) ==
    /\ lastThread = e[1] /\ lastData = DataFileOf(e, indexRegion'[1])
    /\ ~ IndexFileChanges(i)
    /\ dataRegion # Nothing

MapsDataFile(i, e) ==
    LET number == DataFileOf(e, indexRegion'[1])
    IN  IF KeepsDataRegion(i, e)
        THEN UNCHANGED <<dataRegion, lastThread, lastData>>
        ELSE /\ dataRegion' = <<CycleOf(i), e[1], number>>
             /\ lastThread' = e[1]
             /\ lastData' = number

\* The slot is filled; the length word in the data region decides.
MapsEntry(i) ==
    LET e == SlotAt(indexRegion', SlotOf(i))
    IN  MapsIndexFile(i) /\ e # Nothing /\ MapsDataFile(i, e)
Content(i, file, region) ==
    ContentAt(region, OffsetOf(SlotAt(file, SlotOf(i)), file[1]))

LengthMissing(i) ==
    /\ MapsEntry(i)
    /\ Content(i, indexRegion', dataRegion') = Nothing
    /\ UNCHANGED <<index, buffer>>
Found(i) ==
    /\ MapsEntry(i)
    /\ Content(i, indexRegion', dataRegion') # Nothing
    /\ buffer' = Content(i, indexRegion', dataRegion')
    /\ index' = i

NotFound(i) == IndexFileMissing(i) \/ SlotEmpty(i) \/ LengthMissing(i)

-----------------------------------------------------------------------------
\* find_first_cycle, find_last_cycle: the least and the greatest directory.
FirstDir == CHOOSE c \in dirs : \A d \in dirs : c <= d
LastDir  == CHOOSE c \in dirs : \A d \in dirs : d <= c

\* count_index_entries of an index file: up to the first zero.
CountEntries(c, f) ==
    IF Len(log[c]) <= f * SlotsPerFile THEN 0
    ELSE IF Len(log[c]) >= (f + 1) * SlotsPerFile THEN SlotsPerFile
    ELSE Len(log[c]) - f * SlotsPerFile

\* last_index_file_number(c, -1): the dash is read as a sign, so that only
\* index-0 counts.
LastIndexFileNumber(c) == IF <<c, 0>> \in indexFiles THEN 0 ELSE -1

\* vanilla_chronicle::last_index; the file number is shifted by the bits of
\* the block size in bytes, 8 to an entry.
LastEntryNumber(n) == n   \* mutant
EntryNumber(n) == IF n > 0 THEN n - 1 ELSE 0
LastIndex ==
    IF dirs = {} \/ LastIndexFileNumber(LastDir) = -1 THEN -1
    ELSE LET f == LastIndexFileNumber(LastDir)
         IN  IndexOf(LastDir, f * SlotsPerFile * 8 + EntryNumber(CountEntries(LastDir, f)))

-----------------------------------------------------------------------------
StartTooEarly(c) == IndexOf(c, 0) - 2   \* mutant
StartOf(c) == IndexOf(c, 0) - 1

NoneDelivered == [c \in Cycles |-> <<>>]

\* to_start() moves m_index only, and only if there is a cycle.
ToStart ==
    /\ "to_start" \in Calls /\ pc = "idle"
    /\ dirs # {}
    /\ index' = StartOf(FirstDir)
    /\ returned' = FALSE
    /\ delivered' = NoneDelivered
    /\ UNCHANGED <<store, pc, next, tailer, buffer>>

\* to_end() calls index() for the last index, or to_start() if there is none.
ToEnd ==
    /\ "to_end" \in Calls /\ pc = "idle"
    /\ IF LastIndex >= 0
       THEN pc' = "seek" /\ next' = LastIndex /\ UNCHANGED index
       ELSE /\ UNCHANGED <<pc, next>>
            /\ index' = IF dirs = {} THEN index ELSE StartOf(FirstDir)
    /\ returned' = FALSE
    /\ delivered' = NoneDelivered
    /\ UNCHANGED <<store, tailer, buffer>>

CallIndex(i) ==
    /\ "index" \in Calls /\ pc = "idle"
    /\ pc' = "seek" /\ next' = i
    /\ returned' = FALSE
    /\ delivered' = NoneDelivered
    /\ UNCHANGED <<store, index, tailer, buffer>>

Seek ==
    /\ pc = "seek"
    /\ \/ Found(next) /\ returned' = TRUE
       \/ NotFound(next) /\ returned' = FALSE
    /\ pc' = "idle" /\ next' = 0
    /\ UNCHANGED <<store, delivered>>

\* next_index() begins, at the start if it has no place yet.
CallNextIndex ==
    LET from == IF index < 0 THEN StartOf(FirstDir) ELSE index
    IN  /\ "next_index" \in Calls /\ pc = "idle"
        /\ index >= 0 \/ dirs # {}
        /\ index' = from
        /\ next' = from + 1
        /\ pc' = "look"
        /\ returned' = FALSE
        /\ UNCHANGED <<store, tailer, buffer, delivered>>

Look ==
    /\ pc = "look"
    /\ \/ /\ Found(next)
          /\ pc' = "idle" /\ next' = 0 /\ returned' = TRUE
          /\ delivered' = [delivered EXCEPT ![CycleOf(next)] = Append(@, buffer')]
       \/ /\ NotFound(next)
          /\ pc' = "clock"
          /\ UNCHANGED <<next, returned, delivered>>
    /\ UNCHANGED store

\* Beyond the current cycle next_index() gives up, else it tries the next.
AfterNextCycleStart(i) == IndexOf(CycleOf(i) + 1, 1)   \* mutant
NextCycleStart(i) == IndexOf(CycleOf(i) + 1, 0)

GivesUp ==     \* mutant: no loop over the cycles
    /\ pc = "clock"
    /\ pc' = "idle" /\ next' = 0
    /\ UNCHANGED <<store, index, tailer, buffer, returned, delivered>>
ReadClock ==
    /\ pc = "clock"
    /\ IF CycleOf(next) > now
       THEN pc' = "idle" /\ next' = 0
       ELSE pc' = "look" /\ next' = NextCycleStart(next)
    /\ UNCHANGED <<store, index, tailer, buffer, returned, delivered>>

Indices == {IndexOf(c, k) : c \in Cycles, k \in 0..(MaxIndexFiles * SlotsPerFile - 1)}

TailerStep == CallNextIndex \/ Look \/ ReadClock \/ Seek
TailerNext ==
    \/ WriterStep
    \/ TailerStep
    \/ ToStart \/ ToEnd
    \/ \E i \in Indices : CallIndex(i)

TailerSpec == TailerInit /\ [][TailerNext]_tailerVars

\* A reader polls: it calls next_index() again and again, a call runs on, and
\* it does not go back to the start for ever.
PollingSpec == TailerSpec /\ WF_tailerVars(TailerStep) /\ <>[][~ ToStart]_tailerVars

-----------------------------------------------------------------------------
TailerTypeOK ==
    /\ dirs \subseteq Cycles
    /\ indexFiles \subseteq Cycles \X (0..(MaxIndexFiles - 1))
    /\ pc \in {"idle", "look", "clock", "seek"}
    /\ next \in Nat
    /\ index \in {-1} \cup Indices \cup {IndexOf(c, 0) - 1 : c \in Cycles}
    /\ lastCycle \in Cycles \cup {-1}
    /\ lastFile \in -1..(MaxIndexFiles - 1)
    /\ indexRegion = Nothing \/ indexRegion \in indexFiles
    /\ lastThread = Nothing \/ lastThread \in Writers
    /\ lastData \in -1..MaxExcerpts
    /\ dataRegion = Nothing \/ dataRegion \in Cycles \X Writers \X (0..MaxExcerpts)
    /\ buffer = Nothing \/ buffer \in Excerpts
    /\ returned \in BOOLEAN
    /\ delivered \in [Cycles -> Seq(Excerpts)]

(* When next_index() or index() has returned true, the buffer shows the    *)
(* excerpt that was published at that index, and not what happens to be at *)
(* its offset in a data file mapped earlier.                               *)
ReadsPublished ==
    pc = "idle" /\ returned => buffer = EntryAt(index)

(* What next_index() delivers of a cycle is a prefix of what is published  *)
(* in it: no repetition, nothing out of order, and nothing left out in     *)
(* between, over index files and data files and whatever the writers do.   *)
DeliversInOrder ==
    \A c \in Cycles : IsPrefix(delivered[c], log[c])

(* last_index(): "the very last index in the chronicle", when the newest   *)
(* cycle has an entry at all.                                              *)
LastIndexIsLast ==
    dirs # {} /\ log[LastDir] # <<>> =>
        LastIndex = IndexOf(LastDir, Len(log[LastDir]) - 1)

(* Every excerpt that is published is read in the end, unless the reader   *)
(* has its place behind the whole cycle, provided next_index() is called   *)
(* again and again: neither call nor reader gets stuck.  It is there if it *)
(* has found something in a later cycle, or if a later cycle had its       *)
(* directory first when the reader went to the start: a writer can be held *)
(* up between the clock and the directory of its cycle.                    *)
Behind(c) == index >= StartOf(c + 1)
CatchesUp ==
    \A c \in Cycles, e \in Excerpts :
        e \in ToSet(log[c]) ~> (e \in ToSet(delivered[c]) \/ Behind(c))
=============================================================================
