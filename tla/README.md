# TLA+ models of cornelich

cornelich reads and writes *chronicles*: persistent, unbounded queues in
memory-mapped files that any number of threads and processes may append to and read
from without further coordination. This directory holds TLA+ models of it, the TLC
configurations that check them, and proofs for TLAPS. Paths below are relative to
the sources in `src/cornelich` unless they say otherwise.

## 1. The system

A chronicle is a directory with one sub-directory per *cycle* (a day, say). In it
are index files `index-N` and data files `data-THREAD-N`, all of fixed size and zero
at first. An *excerpt* is a record: its bytes, behind a length word, are in a data
file of the thread that wrote it; an 8-byte entry in an index file says where. The
entry is claimed by compare-and-swap, and that is what publishes the excerpt.

| Part | Its state | Operations |
|---|---|---|
| `excerpt_appender` | cycle, index region and file number, data region and file number, thread id, buffer, `m_finished`, own last index | `start_excerpt`, `write`, `finish` |
| `vanilla_index` | cache of index regions, spin lock; the index files | `index_for`, `append` (two), `last_index_file_number`, `find_first_cycle`, `find_last_cycle`, `count_index_entries` |
| `vanilla_data` | cache of data regions, spin lock; the data files | `data_for`, `find_next_data_file_number` |
| `region` | the mapping, and a position shared by all who hold the region | `position`, `align_position`, `cas64`, ordered reads and writes |
| `vanilla_chronicle` | `m_last_written_index`, the sizes and masks | `last_index`, `last_written_index`, `create_appender`, `create_tailer` |
| `excerpt_tailer` | `m_index`, cycle, index region and file number, thread, data region and file number, buffer | `next_index`, `index`, `to_start`, `to_end`, `read` |
| `util::cache`, `util::spin_lock` | LRU list; a flag | `get`; `lock`, `unlock` |
| `util::create_mapping`, `make_file` | the file system | exists, touch, size, resize |
| `cycle_formatter` (`vanilla_date`) | a small cache of directory names, shared without a lock | `date_from_cycle`, `cycle_from_date` |
| `stop_bit`, `formatters` | the loops' locals; position and limit of the buffer | write and read numbers, strings, booleans, plain values |
| `vanilla_chronicle_settings`, `math_util`, `thread` | sizes | setters, shifts, `thread_id_bits` |

Appenders and tailers are used by one thread at a time; they meet in the
`vanilla_chronicle` object of their process (region objects and their positions,
caches, `m_last_written_index`) and, between processes, in the files alone. There
are no messages and no callbacks.

What is hard here, with the lines in `PROJECT.json` under `hazards`:

- the shared position of an index region is stored after the CAS, by whoever
  comes, and moves backwards; it must never run ahead of the entries;
- an index file fills up while several appenders are at its last slots; a cycle
  ends while an excerpt is open;
- a process dies between any two of these steps; positions in data files are
  lost, the files are not;
- regions are evicted and mapped again, with position 0;
- `m_last_written_index` is raised by a race;
- a tailer looks at slots, the clock and directories one after the other while
  all that goes on, and keeps regions from one call to the next;
- files are created in several steps;
- threads load and store names in the formatter's cache without a lock, and make
  directories while others list them;
- a reader of fields takes lengths from bytes, and is lost for the rest of the
  excerpt if it stops one byte early or late.

What makes each part correct: the index of a cycle has no holes, an excerpt is in it
once, in its writer's order, and stays readable; `last_written_index` is a maximum
of what has been finished; `finish` returns; a tailer delivers a prefix of each
cycle, shows what was published, and does not get stuck; mapping a file again loses
nothing; the cache keeps what was used last; a file is in the directory of its own
cycle, and the first and last cycle are found; what was written as a field is read
back.

## 2. The modules

    ChronicleLog         what the writing side promises: one log per cycle
      ^ implemented by (INSTANCE with a refinement mapping)
    VanillaIndex         the index files: finish() step by step    -- MCVanillaIndex
      ^ VanillaIndexProofs        its invariants
      ^ VanillaIndexRefines       it implements ChronicleLog

    ExcerptAppender      EXTENDS ChronicleLog: the data files      -- MCExcerptAppender
      ^ ExcerptAppenderProofs     what is published stays intact
    ExcerptTailer        EXTENDS ChronicleLog: reading             -- MCExcerptTailer
      ^ ExcerptTailerProofs       what is read is what was published

    RegionFiles          region cache, spin lock, new files        -- MCRegionFiles
      ^ RegionFilesProofs
    CycleDirs            directories, their names, their listing   -- MCCycleDirs
      ^ CycleDirsProofs
    ExcerptFields        what is in an excerpt: stop bits, fields  -- MCExcerptFields
      ^ ExcerptFieldsProofs

    NumberLemmas         arithmetic that the proofs share

The parts are joined at `ChronicleLog`. VanillaIndex shows that the index files
implement it; the data files and the tailer are then modelled on top of it, with one
atomic append in place of the CAS and its surroundings. Likewise the other modules
take `index_for` and `data_for` as one step; RegionFiles and CycleDirs have its
steps. ExcerptFields is one excerpt from within, between `start_excerpt` and
`finish` of its writer and in one call of `index` of a reader.

**ChronicleLog.** `Start`, `Publish`, `Return`, `Restart`, `Tick`. A started excerpt
goes to the end of the log of the cycle it was started in, at most once, while its
`finish()` runs.

**VanillaIndex.** Each appender has a program counter: `idle` and `open` outside
`finish()`; `find` (about to call `index_for`), `load` (about to read the region's
position), `cas` (in the loop of `append(region &)`), `store` (the CAS was won, the
position not yet stored), `loadLwi` and `casLwi` (in `set_last_written_index`).
Every access to memory that others share is a step of its own. `StartExcerpt` is the
index half of `start_excerpt`; `RegionFull` takes in both ways on from a full
region, `finish`'s own (the held region) and the loop of `vanilla_index::append`.
Regions are objects with an identity, because their position is part of the object:
an appender can hold a region which the cache has dropped while others use a new one
over the same file. `Release` frees objects without a reference, as `shared_ptr`
does; local variables are reset when they go out of scope. `LastIndexFileNumber` is
what the code computes: it parses the number with the dash in front of it, so only
`index-0` counts; an appender then starts its search at file 0 and passes the full
files one by one. `Evict` drops any cached region at any time: the tailers of the
process use the same cache. `Crash` is the end of a process at any point, and its
restart.

**ExcerptAppender.** Bytes of data files are modelled one by one; a byte is
untouched, part of a length word or part of a certain excerpt. `StartExcerpt`
chooses the file as `start_excerpt` does; `Write`, `Finish` (the length word and the
index value), `PublishIndex` (the abstract append) or `AppendThrows`, and
`FinishReturns` (the position moves and is aligned) follow, with `Evict`, `Crash`
and `CreateAppender` at any point.

**ExcerptTailer.** One tailer and any number of writers. A call of `index(i)` is one
step, with four ways to end (`IndexFileMissing`, `SlotEmpty`, `LengthMissing`,
`Found`). That is as fine as needed: index files, entries and data only ever appear,
so that its first look (does the file exist) may as well be taken when it looks at
the slot. `next_index` is `CallNextIndex`, then `Look` and `ReadClock` in turn. The
writers' side of it reads the clock (`StartExcerpt`) and makes directory, index file
and entry in this order, each in a step of its own: a writer that stalls in between
may find the next cycle's directory made before its own. Data files hold
`ExcerptsPerFile` excerpts, so that offsets of different files can be mistaken for
each other. The listing in `to_start` is one step here; CycleDirs has its steps.

**RegionFiles.** Threads that call `index_for`: the spin lock, the LRU list,
`make_file`, the four steps of `create_mapping`, and an entry stored through the
region one gets.

**CycleDirs.** `date_from_cycle` for the three formats, `Load`, `MakeNode` and
`Store` for the formatter's cache (a slot is an atomic `shared_ptr`), `MakeDir` and
`MakeFile` for the end of `data_for` or `index_for`, `NoFile` for a reader. A name
is the numbers that `parse_number` reads in it, and its spelling; the day of the
calendar is the date library's affair. The code reads many names that its formatters
never make: negative parts, 24 hours, 60 minutes, `1999121D` (as the first of the
month), and the model reads them in the same way. `Stray` makes directories with
such names, or with names that cannot be read; a date that the clock cannot hold
comes out as any cycle (`Overflowed`).
`find_first_cycle` and `find_last_cycle` are `List`, `EndOfList`, `Return`: what
they saw is all that was there at the start, and any part of what has been made
since.

**ExcerptFields.** The loops of `stop_bit::write` and `stop_bit::read`, one turn at
a time (`Group`, `FinalGroup`; `FirstByte`, `MoreBytes`, `LastByte`), around them
the formatters (`WriteNumber`, `WriteChars`, `WriteRaw`, `WriteBoolean`, `Take`),
the length word of `finish`, and `position(p)` of a tailer, which may go to any
field.

Left out everywhere: wording of names, formatting, logging, prefetching. Memory is
sequentially consistent. For the index that is what the code does (the CAS is a full
barrier, the slot is read with acquire); payload and length are written with plain
and relaxed stores (`region.h:123`), but in front of that CAS.

## 3. The runs

| Run | Question | Bounds |
|---|---|---|
| IndexRaces | two threads of one process: no holes, sound hints, at most once, in order; `last_written_index` readable, never falling, covering what is finished; VanillaIndex implements ChronicleLog | 2 cycles, 2 files of 2 slots, 2 excerpts each |
| IndexFull | two processes: no holes, `finish` throws only when the cycle is full, and always returns or throws | 1 cycle, 1 file of 3 slots, 2 excerpts each |
| AppenderAlone | published excerpts stay intact and buffers fit, also for an appender handed between threads | 2 cycles, threads 1 and 3 of ids below 4, 16-byte blocks, 3 excerpts of 1 or 5 bytes |
| AppenderShared | *violation*: two appenders on one thread | 2 excerpts each |
| TailerReads | `next_index` and `to_start`: the right contents, a prefix of each cycle, and everything in the end, unless the reader is behind it | 2 writers, 2 cycles, 2 files of 2 slots |
| TailerRolls | all calls, two cycles: `last_index` is the last | 1 file of 4 slots per cycle |
| TailerJumps | *violation*: `index` on a cycle that is still empty | 2 cycles |
| LastIndexFiles | *violation*: `last_index` with two index files | 1 cycle, 2 files |
| FilesOneProc | threads of one process create and map files safely, the cache holds what was got last, the lock is released | 2 threads, 2 gets each, 3 files, a cache of 2 |
| FilesTwoProcs | *violation*: two processes create one file | 1 file |
| CycleDirectories | files are in their own cycle's directory, `find_first_cycle` and `find_last_cycle` find theirs, the latter also next to foreign directories | hourly names, cycles 23 to 25, 2 threads, 2 slots in the cache, three foreign names: no date, hour -1 of a later day, a date beyond the clock |
| FieldsReadBack | the bytes are the stop-bit format, reads give back what was written and stay in the excerpt, nothing throws | base 4, 3 groups, all numbers from -64 to 63, 2 fields |

Why these bounds: the code compares a position with the end of a region, a file
number with its limit, one cycle with the next. Two slots give a first and a last
one; two files a crossing, with somebody ahead and somebody behind; two cycles a
rollover with an excerpt open. In IndexFull, four excerpts for three slots make one
of two appenders lose its CAS, sweep on and find the cycle full. In the data files
16 bytes hold one excerpt of five bytes or two of one, so that the same file, the
next file, the exact end and the alignment (5 + 4 is not a multiple of 4) all occur.
`RegionIds` is as large as can be referred to at once, or one less where an eviction
makes room. `MaxExcerpts`, `MaxCycle`, `MaxGets` and `MaxDataFiles` bound counters;
`MaxIndexFiles` is 10000 in the code and has the same effect there (`append`
throws). Hourly cycles 23, 24 and 25 are the last hour of a day and the first two of
the next, and in a cache of two slots the first and the last of them meet; the three
foreign names read as -1, as a cycle behind these, and below -1. The two threads
are alike, and declared symmetric. Base 4
with three groups has numbers of one, two and three groups, the short cuts, and the
edges at which the loops turn; the code has base 128 and nine groups, which the
loops treat in no other way. What the runs say of safety does not rest on these
bounds: section 5 has it for all values, each with the conditions it needs.

Runs switch deadlock checking off because their bounds let the system stop: when all
excerpts are written and the last cycle is reached nothing need happen.

**Fairness.** IndexFull assumes `WF_vars(FinishStep(a))`: a thread that is inside
`finish()` is run by the scheduler. Nothing is assumed of calls from outside,
evictions, crashes or the clock. The CAS loop needs no more, because a lost CAS
means that a slot has gone. TailerReads assumes that the reader polls and is run,
and that it does not go back to the start for ever. `CatchesUp` then has every
published excerpt delivered but those of a cycle that the reader's place is behind:
because the cycle was left (see below), or because it began at a later one, before
the directory of this one was made. FilesOneProc assumes that each
thread is run. The spin lock gives no turn to anybody: that every waiting thread
gets it at last does not follow, and is not claimed.

## 4. What the violations show

- **AppenderShared.** `excerpt_appender.cpp:78` goes on to `++m_last_data_file_number`
  without looking whether that file is taken. With two appenders on one thread it
  is, and both have excerpts at the same place.
- **TailerJumps.** `excerpt_tailer.cpp:98-105` remembers the new cycle although
  the call fails; when the call is repeated, the data region of the old cycle is
  kept. A tailer that only uses `next_index` and `to_start` is not affected (TailerReads): its
  failing calls end with a look at a cycle to come, which resets the region.
- **LastIndexFiles.** Two slips, `vanilla_index.cpp:111` and
  `vanilla_chronicle.cpp:60`, make `last_index()` wrong from the second index file on.
- **FilesTwoProcs.** `touch` truncates. The spin lock keeps the threads of a process
  apart (FilesOneProc), processes are not. IndexFull takes the creation of a file
  as one step: what it shows holds for processes that do not create a file at once.

Other things a reader of the code should know, which contradict no statement of it:

- `next_index()` leaves a cycle when it sees an empty slot and the clock has moved on; what
  a slow writer still publishes there is not delivered (`README.md:89` says so).
- The same is true of a tailer that begins between the clock read of a slow writer
  (`excerpt_appender.cpp:46`) and the making of its directory, if another one has
  made the next cycle's by then: `to_start()` puts it behind the slow one's cycle.
- A directory whose name is no date counts as cycle -1. `find_first_cycle` then says
  that there is no cycle at all (`vanilla_index.cpp:63`); to `find_last_cycle` it is
  as if it were not there.
- Foreign names that read as a date, a negative hour or one of `24` included, are
  cycles to both. `find_last_cycle` may then give a cycle that has no directory of
  its own name. It gives none before the last there is (`LastCycleFound`).
- The setters take a cycle length that is no multiple of the format's unit, such as an
  hour with `yyyymmdd`; several cycles then share a directory and its index files.
- `start_excerpt(0)` with four bytes left in a block puts the excerpt behind the
  block, where its index value names the next file (`excerpt_appender.cpp:79`).

## 5. What is proved

Everything here holds of every behaviour of the specifications, for all values of
the constants that satisfy the named assumptions, whatever their number of threads,
processes, files, crashes and evictions.

**VanillaIndexProofs**: the safety properties of IndexRaces and IndexFull (`TypeOK`,
`NoGaps`, `HintsSound`, `PublishedOnce`, `WriterOrder`, `ThrowsOnlyWhenFull`,
`LwiCoversFinished`, `LwiMonotonic`, `LwiIsReadable`). Assumed: bounds are natural
numbers, `NoEntry` is no excerpt, a cycle's number range holds all its files and is
a multiple of a file (powers of two in the code). The invariant has four layers,
each proved with the help of those before it, one step per action:

1. `TypeInv`: `TypeOK`, and what the program counter says of the registers (who
   is in `append(region &)` has a region, of its own cycle; who has started has a
   cycle; held regions are of the current file number). The registers are needed
   because regions are reached through them.
2. `SweepInv`: below the position of *every* region, and below every appender's
   place in its sweep over files and slots, all slots are taken. `HintsSound` is its
   first part. It is inductive because entries never go away: an appender starts
   from a region's position, moves on only over a slot it saw taken, and stores a
   position just behind the slot it took, with everything below it taken, even if
   that is behind where others are. `NoGaps` follows since an entry is made at the end
   of a sweep, and `ThrowsOnlyWhenFull` since the sweep is then at its end.
3. `OrderInv`: every entry is of an excerpt that has been started, and an appender that
   has not yet claimed a slot has no entry with its number. With the sweep, a new
   entry is behind all others of its cycle, and cycles of an appender do not
   decrease: `WriterOrder`, and `PublishedOnce` as a consequence.
4. `LwiInv`: `last_written_index`, and what an appender is about to raise it to,
   is the index of some entry. With `IndexDecodes` (the tailer's division and
   remainder undo the appender's sum) and `NoGaps` that gives `LwiIsReadable`.
   `LwiCoversFinished` and `LwiMonotonic` need only the register facts.

**VanillaIndexRefines**: `ImplementsLog`, that is `Spec => Log!Spec` for the log
that the index files hold. By `NoGaps` the taken slots of a cycle, numbered over all
its files (`PlaceOf` inverts that numbering), are the first so many (`PrefixCount`);
the slot a CAS takes is the next one (`CasAppends`); so the sequence of entries,
which the mapping picks from the slots, grows by that entry at its end. Every other
step leaves the logs alone and maps to `Start`, `Return`, `Restart`, `Tick` or a
stutter.

**ExcerptAppenderProofs**: `DataTypeOK`, `PublishedIntact` and `BufferFits`, under
`OwnThreads`: no two appenders are ever used by the same thread. AppenderShared
shows that the condition is needed. Assumed besides: block sizes are powers of two
of at least four (stated as: multiples of four without an odd divisor), the offset's
bits hold all files of a thread, thread ids fit theirs, an excerpt fits a block and
has at least one byte of room. The argument:

1. `ValueDecodes`: thread, file and offset can be taken back out of an index value,
   which the width of the word does not cut.
2. `Holds`: the region an appender holds is over the *last* file of its thread and
   cycle, its position is a multiple of four, and an open excerpt lies behind it.
   That file is nobody else's, since a file number is chosen above all that exist
   (`NextFileIsNew`) by the only appender of that thread.
3. `Contents`: what an open excerpt has put into its file so far is there.
4. `PlacedInv`: a published excerpt stands where its value says, and whoever holds a
   region over its file has the position behind it (`Clear`), or is in `finish()`
   of that very excerpt and has yet to move. A region mapped anew has position 0, but
   then over a new file: that is where crashes, evictions and new appenders go. Bytes are
   written at and behind the header of one's own open excerpt only (`WriteBehind`).

`AppenderUsesLog` here and `TailerFollowsLog` below say that the data half and the
reader do nothing to the logs but what ChronicleLog allows, each step by step and
without `OwnThreads` or `OnlyForward`: what the index files implement
(`ImplementsLog`) is all that the other two rely on.

**CycleDirsProofs**: `DirsTypeOK`, `OwnDirectory`, `FirstCycleFound`,
`LastCycleFound`. `NameLeadsBack` shows for each format that date and time of a
cycle's start lead back to the cycle, if a cycle is a number of whole units
(`CycleDirsAssumption`); so nodes of the cache, whoever stored them last, carry the
name of the cycle in them, which is compared before the name is used. The result of
a listing is bounded by what it had seen at its start, and directories do not go
away. `FirstCycleFound` is about chronicles without foreign directories.
`LastCycleFound` holds next to any of them: `StraysAssumption` says no more than that
the numbers behind the day are read from two characters, and that a cycle has 32
bits. The proof bounds what a name can read as (`StrayReads`), so that a listing has
a greatest cycle. The cycles of the chronicle itself are assumed to be within the
range of the clock they are read from, 64 bits of nanoseconds (`InClock`).

**RegionFilesProofs**: `RegionFilesTypeOK` and `KeepsMostRecent` for any processes
and threads; `EntriesKept` and `MappedFilesWhole` under `OneProcess`: all threads are
of the same process. FilesTwoProcs shows that the last two need it. Assumed: the
cache has room for one region, a file at least one entry. The argument:

1. `MutexInv`: who is between `lock()` and `unlock()` has set the flag of its
   process, and is the only one there. The crash of a process ends all its threads
   and clears the flag with them.
2. `CacheInv`: a thread that is making a region makes one that is not cached, which
   nobody else can change meanwhile. So a hit takes its entry out of the list and
   puts it at the end, a miss drops the first one if the list is full, and in both
   cases the list is the end of the one without bounds, `recent` (`RemoveAtFacts`,
   `LastOf`).
3. `PresentInv`: what is mapped or cached has been made.
4. `WholeInv`, with one process: a file about to be touched is still missing, for
   only the holder of the lock makes files, so that `touch` truncates nothing; and a
   file about to be mapped has its full size.

**ExcerptTailerProofs**: `TailerTypeOK` for any calls; `LastIndexIsLast` if
`MaxIndexFiles = 1` (LastIndexFiles shows what two do); `ReadsPublished` and
`DeliversInOrder` under `OnlyForward`: the calls are `next_index()` and `to_start()`
(TailerJumps shows that the first fails with `index()`). Assumed: sizes are at least
one, and the number range of a cycle is a multiple of a file and holds all files.

1. `LogInv`: the excerpts of a writer are in a log in the order of their numbers, so
   that the number of those in front of one in its data file is less than the number
   of excerpts there are (`NthBound`), and the offset of an excerpt leads back to it and
   no other of its file (`NthGrows`).
2. `RegionsInv`: next to a held index region, the data region is of the cycle that
   the tailer remembers, or that cycle is left behind before anything is read.
   This is not inductive call by call but step by step of `next_index()`: a failing look
   may leave the pair out of step, and the look at the cycle to come resets it.
   The invariant says at which step it may be so.
3. `DeliveredInv`: what has been delivered of a cycle is its log up to the slot that
   is looked at next; of later cycles nothing. Logs only grow at their ends.

**ExcerptFieldsProofs**: `FieldsTypeOK`, `WellEncoded`, `ReadsBack`, `StaysWithin`
and `NeverThrows`, for any base from 2 and any number of groups from 2 (in the code
128 and 9), all numbers which that many groups can hold, and any strings and plain
values of bytes; a string is shorter than the greatest number.

1. `DigitStep` and `LastDigit`: dividing by the base k times leaves the number divided
   by the k-th power, a remainder by the k-th power and one more digit is
   the remainder by the next, and the digit at the top is what is left and not zero.
   Powers are values of the constant `Pow`, and facts about them follow from the least
   exponent at which one would fail (`LeastNat`), without induction.
2. `WriterInv`: complete fields have their bytes, and in the loop of
   `stop_bit::write` the bytes behind the last of them are the digits so far and `rest`
   is the number divided (`InLoop`). `LoopTurn` and `LoopEnds` are a turn of the loop
   and the end; the short cuts for one and two bytes give the same (`EncodesOne`,
   `EncodesTwo`).
3. `ReaderInv`: in the loop of `stop_bit::read`, `low` is the number's remainder by
   the power of the bytes read, and the number goes on (`Half`). `ReadsFirst` and
   `ReadsOn` say what the next byte is: another digit, or the end of this number and
   no earlier, and that the limits on `count` are not hit.

**NumberLemmas** has the facts about least elements, quotients and remainders that
all of these share.

So every invariant and action property of the runs is proved, under the conditions
given here. Only model-checked, because liveness and fairness are out of the
prover's reach: `FinishReturns`, `CatchesUp` and `LockReleased`.

## 6. What is not modelled, and what comes next

Not modelled: the calendar within `vanilla_date.cpp` (the date library's), the
setters of the settings and `thread_id_bits`, which only give the constants their
values, printing and streaming helpers, the samples, vendored headers. The operating
system's mapping is external: a mapping shows the file, at once, to all who have it.

Preconditions the code leaves to its callers are assumptions of the modules:
`ThreadAssumption` (a thread id fits its bits: an `assert` only), `DataAssumption`
(the block size is a power of two), `CapacityAssumption` (an excerpt fits a block
and its capacity is not zero), `CycleDirsAssumption` (whole units),
`RegionFilesAssumption` (a cache has room for one entry). Those whose breach goes
unnoticed are listed as hazards, which no property covers: the assumption excludes
them.

Left of the plan:

1. A proof that joins the writer's halves: the steps of VanillaIndex in the place of
   ExcerptAppender's `PublishIndex`, with regions of both kinds in one cache.
2. Tailers and appenders of one process through one cache, so that evictions are
   those of the LRU list instead of any; a clock that goes backwards.
