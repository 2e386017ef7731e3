------------------------------ MODULE CycleDirs ------------------------------
(***************************************************************************)
(* The directories of a chronicle.  Each cycle has one, named by its date. *)
(* cycle_formatter makes the name of a cycle, through a small cache which  *)
(* all threads of a process share without a lock; make_file makes the      *)
(* directory; find_first_cycle and find_last_cycle list the directories,   *)
(* while others are being made, and turn the names back into cycles.       *)
(*                                                                         *)
(* A name is what is read in it, and how it is spelt.  What is read are    *)
(* numbers: the day (counted from 1970, which stands for year, month and   *)
(* day), the hour and the minute, as many as the format has.  The calendar *)
(* itself is the date library's.                                           *)
(***************************************************************************)
EXTENDS Integers, Sequences

CONSTANTS
    Threads, Procs,
    ProcOf,       \* the process of each thread
    Format,       \* 1: yyyymmdd, 2: yyyymmddhh, 3: yyyymmddhhmm
    CycleLength,  \* settings.cycle_length(), in milliseconds
    Slots,        \* CACHE_SIZE - 1: the slots of the formatter's cache in use
    FirstCycle, LastCycle,   \* the cycles the clock goes through
    Strays,       \* other directories that may turn up
    Overflowed    \* per stray whose date the clock cannot hold, the cycle
                  \* that it comes out as

Day    == 86400   \* in seconds
Hour   == 3600
Minute == 60
Unit   == <<Day, Hour, Minute>>[Format]   \* what names tell apart

VARIABLES
    now,     \* the current cycle
    dirs,    \* the names of the directories there are
    files,   \* the files there are, as <<name of directory, cycle>>, where
             \* the cycle is that of the region the file was made for
    cache,   \* per process, m_cache
    pc,      \* per thread, where it is, see Places
    cycle,   \* per thread, the cycle it was called with
    append,  \* per thread, whether the file is for writing
    node,    \* per thread, the node_t it has loaded or made
    seen,    \* ghost: per thread, the directories at the start of a listing
    found    \* per thread, the result of a listing

vars == <<now, dirs, files, cache, pc, cycle, append, node, seen, found>>

(* "load", "format", "store": in date_from_cycle; "dir", "file": in        *)
(* make_file and create_mapping; "first", "last": in find_first_cycle and  *)
(* find_last_cycle; "found_first", "found_last": behind them.              *)
Places == {"idle", "load", "format", "store", "dir", "file",
           "first", "last", "found_first", "found_last"}

Cycles == FirstCycle..LastCycle
NoNode == <<>>

(* The numbers come from parse_number, which reads as far as it can: "1D"  *)
(* is 1, "-1" and "+1" are numbers.  So names that are spelt differently   *)
(* may read the same, and 0 is the spelling of the formatters.  A name     *)
(* that has another length than the format demands, in which a number is   *)
(* not found or the date is none, has no numbers.                          *)
Names == [numbers : Seq(Int), spelling : Nat]
Formatted(numbers) == [numbers |-> numbers, spelling |-> 0]

-----------------------------------------------------------------------------
\* date_from_cycle_impl of the three formats
Seconds(c)    == (c * CycleLength) \div 1000
DayName(c)    == <<Seconds(c) \div Day>>
HourName(c)   == <<Seconds(c) \div Day, (Seconds(c) % Day) \div Hour>>
MinuteName(c) == <<Seconds(c) \div Day, (Seconds(c) % Day) \div Hour,
                   (Seconds(c) % Hour) \div Minute>>
DateFromCycle(c) ==
    Formatted(CASE Format = 1 -> DayName(c)
                [] Format = 2 -> HourName(c)
                [] Format = 3 -> MinuteName(c))

(* cycle_from_date_impl of the three formats: what a name must be, and the *)
(* seconds it stands for.  24 hours, 60 minutes and negative ones are let  *)
(* through.                                                                *)
IsHour(x)   == x[2] <= 24
IsMinute(x) == IsHour(x) /\ x[3] <= 60
Readable(name) ==
    /\ Len(name.numbers) = Format
    /\ Format = 2 => IsHour(name.numbers)
    /\ Format = 3 => IsMinute(name.numbers)
DaySeconds(x)    == x[1] * Day
HourSeconds(x)   == DaySeconds(x) + x[2] * Hour
MinuteSeconds(x) == HourSeconds(x) + x[3] * Minute
EpochSeconds(x) ==
    CASE Format = 1 -> DaySeconds(x)
      [] Format = 2 -> HourSeconds(x)
      [] Format = 3 -> MinuteSeconds(x)

(* The days that system_clock can hold, whatever hour is added: it counts  *)
(* nanoseconds in 64 bits.  Other dates overflow, and with a signed number *)
(* that may come out as anything.                                          *)
InClock(day) == -106751 <= day /\ day <= 106750

\* Integer division of the language: towards zero.
Quotient(a, b) == IF a < 0 THEN - ((- a) \div b) ELSE a \div b
CycleFromDate(name) ==
    IF ~ Readable(name) THEN -1
    ELSE IF InClock(name.numbers[1])
    THEN Quotient(EpochSeconds(name.numbers) * 1000, CycleLength)
    ELSE Overflowed[name]

(* Names tell cycles apart only if a cycle is a number of whole days,      *)
(* hours or minutes; the settings leave that to the caller.                *)
ASSUME CycleDirsAssumption ==
    /\ Format \in 1..3
    /\ CycleLength \in Nat \ {0} /\ CycleLength % (1000 * Unit) = 0
    /\ Slots \in Nat \ {0}
    /\ FirstCycle \in Nat /\ LastCycle \in Nat /\ FirstCycle <= LastCycle
    /\ InClock(Seconds(LastCycle) \div Day)   \* it is read from this clock
    /\ ProcOf \in [Threads -> Procs]
(* Hours and minutes are read from two characters, a cycle is a number of  *)
(* 32 bits.                                                                *)
TwoCharacters(x) == -9 <= x /\ x <= 99
IsInt32(x) == -2147483647 - 1 <= x /\ x <= 2147483647
ASSUME StraysAssumption ==
    /\ Strays \subseteq Names /\ Overflowed \in [Strays -> Int]
    /\ \A n \in Strays :
         /\ \A i \in 2..Len(n.numbers) : TwoCharacters(n.numbers[i])
         /\ IsInt32(Overflowed[n])

Node(c) == <<c, DateFromCycle(c)>>
Nodes == Cycles \X Names
SlotOf(c) == c % Slots

Init ==
    /\ now = FirstCycle
    /\ dirs = {} /\ files = {}
    /\ cache = [p \in Procs |-> [i \in 0..(Slots - 1) |-> NoNode]]
    /\ pc = [t \in Threads |-> "idle"]
    /\ cycle = [t \in Threads |-> FirstCycle]
    /\ append = [t \in Threads |-> FALSE]
    /\ node = [t \in Threads |-> NoNode]
    /\ seen = [t \in Threads |-> {}]
    /\ found = [t \in Threads |-> -1]

-----------------------------------------------------------------------------
From(t, place) == pc[t] = place
Goto(t, place) == pc' = [pc EXCEPT ![t] = place]
\* The calls of the threads in T are over, and their locals with them.
Over(T) ==
    /\ pc' = [t \in Threads |-> IF t \in T THEN "idle" ELSE pc[t]]
    /\ cycle' = [t \in Threads |-> IF t \in T THEN FirstCycle ELSE cycle[t]]
    /\ append' = [t \in Threads |-> IF t \in T THEN FALSE ELSE append[t]]
    /\ node' = [t \in Threads |-> IF t \in T THEN NoNode ELSE node[t]]
    /\ seen' = [t \in Threads |-> IF t \in T THEN {} ELSE seen[t]]
    /\ found' = [t \in Threads |-> IF t \in T THEN -1 ELSE found[t]]

\* A region is needed that the region cache does not have: for writing, of
\* the cycle an excerpt was started in; for reading, of any up to the next.
Open(t, c, forWriting) ==
    /\ From(t, "idle")
    /\ forWriting => c <= now
    /\ c <= now + 1
    /\ cycle' = [cycle EXCEPT ![t] = c]
    /\ append' = [append EXCEPT ![t] = forWriting]
    /\ Goto(t, "load")
    /\ UNCHANGED <<now, dirs, files, cache, node, seen, found>>

\* atomic_load of the slot: the node stays what it is, and the thread keeps it.
IsAnyNode(n, c) == n # NoNode     \* mutant: m_cycle is not compared
IsNodeOf(n, c) == n # NoNode /\ n[1] = c
Load(t) ==
    LET n == cache[ProcOf[t]][SlotOf(cycle[t])]
    IN  /\ From(t, "load")
        /\ IF IsNodeOf(n, cycle[t])
           THEN node' = [node EXCEPT ![t] = n] /\ Goto(t, "dir")
           ELSE Goto(t, "format") /\ UNCHANGED node
        /\ UNCHANGED <<now, dirs, files, cache, cycle, append, seen, found>>
\* A miss: a new node, and the atomic_store of it.
MakeNode(t) ==
    /\ From(t, "format")
    /\ node' = [node EXCEPT ![t] = Node(cycle[t])]
    /\ Goto(t, "store")
    /\ UNCHANGED <<now, dirs, files, cache, cycle, append, seen, found>>
Store(t) ==
    /\ From(t, "store")
    /\ cache' = [cache EXCEPT ![ProcOf[t]][SlotOf(cycle[t])] = node[t]]
    /\ Goto(t, "dir")
    /\ UNCHANGED <<now, dirs, files, cycle, append, node, seen, found>>

Name(t) == node[t][2]

\* make_file: a reader wants the file to be there, a writer makes the
\* directory, and in create_mapping the file.
NoFile(t) ==
    /\ From(t, "dir")
    /\ ~ append[t] /\ \A c \in Cycles : <<Name(t), c>> \notin files
    /\ Over({t})
    /\ UNCHANGED <<now, dirs, files, cache>>
MakeDir(t) ==
    /\ From(t, "dir")
    /\ append[t] \/ \E c \in Cycles : <<Name(t), c>> \in files
    /\ dirs' = dirs \cup {Name(t)}
    /\ Goto(t, "file")
    /\ UNCHANGED <<now, files, cache, cycle, append, node, seen, found>>
MakeFile(t) ==
    /\ From(t, "file")
    /\ files' = files \cup {<<Name(t), cycle[t]>>}
    /\ Over({t})
    /\ UNCHANGED <<now, dirs, cache>>

-----------------------------------------------------------------------------
\* The directory is opened.
List(t, place) ==
    /\ From(t, "idle") /\ place \in {"first", "last"}
    /\ seen' = [seen EXCEPT ![t] = dirs]
    /\ Goto(t, place)
    /\ UNCHANGED <<now, dirs, files, cache, cycle, append, node, found>>

(* The entries have been read: all that were there at the start, and those *)
(* made since or not, as it happens.                                       *)
FirstFromNone(S) ==     \* mutant: starts from -1, as find_last_cycle does
    LET C == {CycleFromDate(n) : n \in S} \cup {-1}
    IN  CHOOSE c \in C : \A d \in C : c <= d
FirstUnset(S) ==        \* mutant: the greatest number, if there is none
    IF S = {} THEN 2147483647
    ELSE CHOOSE c \in {CycleFromDate(n) : n \in S} : \A n \in S : c <= CycleFromDate(n)
FirstOf(S) ==
    IF S = {} THEN -1
    ELSE CHOOSE c \in {CycleFromDate(n) : n \in S} : \A n \in S : c <= CycleFromDate(n)
LastWithoutStart(S) ==     \* mutant: the last entry read wins
    IF S = {} THEN -1 ELSE CHOOSE c \in {CycleFromDate(n) : n \in S} : TRUE
LastOf(S) ==
    LET C == {CycleFromDate(n) : n \in S} \cup {-1}
    IN  CHOOSE c \in C : \A d \in C : d <= c
Listed(t) == {S \in SUBSET dirs : seen[t] \subseteq S}
EndOfList(t) ==
    /\ \E S \in Listed(t) :
         \/ /\ From(t, "first") /\ Goto(t, "found_first")
            /\ found' = [found EXCEPT ![t] = FirstOf(S)]
         \/ /\ From(t, "last") /\ Goto(t, "found_last")
            /\ found' = [found EXCEPT ![t] = LastOf(S)]
    /\ UNCHANGED <<now, dirs, files, cache, cycle, append, node, seen>>
Return(t) ==
    /\ pc[t] \in {"found_first", "found_last"}
    /\ Over({t})
    /\ UNCHANGED <<now, dirs, files, cache>>

-----------------------------------------------------------------------------
\* A process dies; the next one begins with an empty cache.
Crash(p) ==
    /\ cache' = [cache EXCEPT ![p] = [i \in 0..(Slots - 1) |-> NoNode]]
    /\ Over({t \in Threads : ProcOf[t] = p})
    /\ UNCHANGED <<now, dirs, files>>

Tick ==
    /\ now < LastCycle /\ now' = now + 1
    /\ UNCHANGED <<dirs, files, cache, pc, cycle, append, node, seen, found>>

\* Somebody else makes a directory.
Stray ==
    /\ \E n \in Strays : dirs' = dirs \cup {n}
    /\ UNCHANGED <<now, files, cache, pc, cycle, append, node, seen, found>>

ThreadStep(t) ==
    \/ Load(t) \/ MakeNode(t) \/ Store(t) \/ NoFile(t) \/ MakeDir(t) \/ MakeFile(t)
    \/ EndOfList(t) \/ Return(t)
Next ==
    \/ \E t \in Threads :
         \/ \E c \in Cycles, forWriting \in BOOLEAN : Open(t, c, forWriting)
         \/ \E place \in {"first", "last"} : List(t, place)
         \/ ThreadStep(t)
    \/ \E p \in Procs : Crash(p)
    \/ Tick \/ Stray

Spec == Init /\ [][Next]_vars

-----------------------------------------------------------------------------
DirsTypeOK ==
    /\ now \in Cycles
    /\ dirs \subseteq Names
    /\ files \subseteq Names \X Cycles
    /\ cache \in [Procs -> [0..(Slots - 1) -> Nodes \cup {NoNode}]]
    /\ pc \in [Threads -> Places]
    /\ cycle \in [Threads -> Cycles]
    /\ append \in [Threads -> BOOLEAN]
    /\ node \in [Threads -> Nodes \cup {NoNode}]
    /\ seen \in [Threads -> SUBSET dirs]
    /\ found \in [Threads -> Cycles \cup {-1} \cup {CycleFromDate(n) : n \in Strays}]

(* A file is in the directory of its own cycle, and the name of that       *)
(* directory reads as this cycle again, so that it is found.  Threads that *)
(* overwrite each other's nodes in the shared cache never mix up names,    *)
(* and no two cycles share a directory.                                    *)
OwnDirectory ==
    \A f \in files : f[1] \in dirs /\ CycleFromDate(f[1]) = f[2]

CyclesIn(S) == {c \in Cycles : DateFromCycle(c) \in S}

(* find_first_cycle finds a cycle that has a directory, and none before it *)
(* had one when it was called, if nobody else makes directories here: a    *)
(* tailer that starts there misses nothing.                                *)
FirstCycleFound ==
    \A t \in Threads :
        pc[t] = "found_first" /\ dirs \cap Strays = {} =>
            IF found[t] = -1 THEN seen[t] = {}
            ELSE /\ found[t] \in CyclesIn(dirs)
                 /\ \A c \in CyclesIn(seen[t]) : found[t] <= c

(* find_last_cycle never misses the last cycle that had a directory when   *)
(* it was called, whatever other directories there are; these may be taken *)
(* for a later cycle, but only for one that some name reads as, and one    *)
(* that cannot be read, or is from before 1970, is not seen at all.        *)
LastCycleFound ==
    \A t \in Threads :
        pc[t] = "found_last" =>
            /\ \A c \in CyclesIn(seen[t]) : c <= found[t]
            /\ \/ found[t] = -1 \/ found[t] \in CyclesIn(dirs)
               \/ /\ found[t] >= 0
                  /\ \E n \in dirs \cap Strays : Readable(n) /\ CycleFromDate(n) = found[t]
=============================================================================
