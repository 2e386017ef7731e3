----------------------------- MODULE RegionFiles -----------------------------
(***************************************************************************)
(* How a thread gets a mapped region: vanilla_index::index_for (and        *)
(* vanilla_data::data_for, which is the same) under its spin lock, the LRU *)
(* cache, make_file, and the steps of create_mapping on the file system.   *)
(* The other modules take all this as one step; here are its steps, for    *)
(* the threads of several processes that share a directory.                *)
(***************************************************************************)
EXTENDS Integers, Sequences, SequencesExt

CONSTANTS
    Threads, Procs,
    ProcOf,     \* the process of each thread: one chronicle object, one lock
    Keys,       \* the files
    FileSize,   \* entries in a file of full size
    Capacity,   \* settings.index_cache_size()
    MaxGets,    \* bound on the calls of a thread
    NoKey

ASSUME RegionFilesAssumption ==
    /\ ProcOf \in [Threads -> Procs]
    /\ FileSize \in Nat \ {0} /\ MaxGets \in Nat
    /\ Capacity \in Nat \ {0}   \* with 0, pop_front() would meet an empty list
    /\ NoKey \notin Keys

VARIABLES
    file,    \* per key that has a file, the entries in it up to its size
    lock,    \* per process, spin_lock::m_flag
    lru,     \* per process, the keys in m_container, least recently used first
    at,      \* per thread, where it is
    key,     \* the key it was called with
    append,  \* whether it was called for writing
    gets,    \* ghost: the number of its calls
    stored,  \* ghost: the entries that have been stored, as <<key, entry>>
    recent   \* ghost: per process, all keys got, least recently got first

vars == <<file, lock, lru, at, key, append, gets, stored, recent>>

Zero   == <<>>         \* what a slot holds at first
Entries == Threads \X (1..MaxGets)
Files   == UNION {[1..n -> Entries \cup {Zero}] : n \in {0, FileSize}}

Places == {"idle", "lock", "lookup", "make_file", "exists", "touch",
           "file_size", "resize", "map", "mapped"}

RegionFilesTypeOK ==
    /\ DOMAIN file \subseteq Keys /\ \A k \in DOMAIN file : file[k] \in Files
    /\ lock \in [Procs -> BOOLEAN]
    /\ lru \in [Procs -> Seq(Keys)] /\ \A p \in Procs : Len(lru[p]) <= Capacity
    /\ at \in [Threads -> Places]
    /\ key \in [Threads -> Keys \cup {NoKey}]
    /\ append \in [Threads -> BOOLEAN]
    /\ gets \in [Threads -> 0..MaxGets]
    /\ stored \subseteq Keys \X Entries
    /\ recent \in [Procs -> Seq(Keys)]

Init ==
    /\ file = [k \in {} |-> <<>>]
    /\ lock = [p \in Procs |-> FALSE]
    /\ lru = [p \in Procs |-> <<>>]
    /\ at = [t \in Threads |-> "idle"]
    /\ key = [t \in Threads |-> NoKey]
    /\ append = [t \in Threads |-> FALSE]
    /\ gets = [t \in Threads |-> 0]
    /\ stored = {}
    /\ recent = [p \in Procs |-> <<>>]

-----------------------------------------------------------------------------
Goto(t, place) == at' = [at EXCEPT ![t] = place]

Without(s, k) ==
    IF Contains(s, k) THEN RemoveAt(s, CHOOSE i \in 1..Len(s) : s[i] = k) ELSE s

\* A hit relocates the key to the end of the sequence.
LeavesInPlace(s, k) == s   \* mutant
Relocate(s, k) == Append(Without(s, k), k)

\* A miss drops the first key when the cache is full.
EvictsLate(s, k) == Append(IF Len(s) > Capacity THEN Tail(s) ELSE s, k)   \* mutant
Insert(s, k) == Append(IF Len(s) >= Capacity THEN Tail(s) ELSE s, k)

\* A get that yields a region ends: the guard unlocks.
Yields(t) ==
    /\ Goto(t, "mapped")
    /\ lock' = [lock EXCEPT ![ProcOf[t]] = FALSE]
    /\ recent' = [recent EXCEPT ![ProcOf[t]] = Append(Without(@, key[t]), key[t])]

\* A get that yields none, by its return value or an exception.
Fails(t) ==
    /\ Goto(t, "idle")
    /\ lock' = [lock EXCEPT ![ProcOf[t]] = FALSE]
    /\ key' = [key EXCEPT ![t] = NoKey]

-----------------------------------------------------------------------------
\* index_for(k, forWriting)
Get(t, k, forWriting) ==
    /\ at[t] = "idle" /\ gets[t] < MaxGets
    /\ gets' = [gets EXCEPT ![t] = @ + 1]
    /\ key' = [key EXCEPT ![t] = k]
    /\ append' = [append EXCEPT ![t] = forWriting]
    /\ Goto(t, "lock")
    /\ UNCHANGED <<file, lock, lru, stored, recent>>

\* test_and_set found the flag clear; a thread that does not spins.
LocksAnyway(t) ==   \* mutant: no lock
    /\ at[t] = "lock"
    /\ lock' = [lock EXCEPT ![ProcOf[t]] = TRUE]
    /\ Goto(t, "lookup")
    /\ UNCHANGED <<file, lru, key, append, gets, stored, recent>>
Lock(t) ==
    /\ at[t] = "lock"
    /\ ~ lock[ProcOf[t]]
    /\ lock' = [lock EXCEPT ![ProcOf[t]] = TRUE]
    /\ Goto(t, "lookup")
    /\ UNCHANGED <<file, lru, key, append, gets, stored, recent>>

Hit(t) ==
    LET p == ProcOf[t]
    IN  /\ at[t] = "lookup"
        /\ Contains(lru[p], key[t])
        /\ lru' = [lru EXCEPT ![p] = Relocate(@, key[t])]
        /\ Yields(t)
        /\ UNCHANGED <<file, key, append, gets, stored>>
Miss(t) ==
    /\ at[t] = "lookup"
    /\ ~ Contains(lru[ProcOf[t]], key[t])
    /\ Goto(t, "make_file")
    /\ UNCHANGED <<file, lock, lru, key, append, gets, stored, recent>>

\* make_file: a reader does not make a file; the null region is not cached.
MakeFile(t) ==
    /\ at[t] = "make_file"
    /\ append[t] \/ key[t] \in DOMAIN file
    /\ Goto(t, "exists")
    /\ UNCHANGED <<file, lock, lru, key, append, gets, stored, recent>>
NoSuchFile(t) ==
    /\ at[t] = "make_file"
    /\ ~ append[t] /\ key[t] \notin DOMAIN file
    /\ Fails(t)
    /\ UNCHANGED <<file, lru, append, gets, stored, recent>>

\* create_mapping: if(!exists) touch; if(file_size < size) resize_file.
Exists(t) ==
    /\ at[t] = "exists"
    /\ Goto(t, IF key[t] \in DOMAIN file THEN "file_size" ELSE "touch")
    /\ UNCHANGED <<file, lock, lru, key, append, gets, stored, recent>>

\* touch opens an ofstream, which truncates a file that is there by now.
Touch(t) ==
    /\ at[t] = "touch"
    /\ file' = [k \in DOMAIN file \cup {key[t]} |-> IF k = key[t] THEN <<>> ELSE file[k]]
    /\ Goto(t, "file_size")
    /\ UNCHANGED <<lock, lru, key, append, gets, stored, recent>>
\* It may fail: std::runtime_error, and the guard unlocks.
TouchThrowsLocked(t) ==   \* mutant: no guard
    /\ at[t] = "touch"
    /\ Goto(t, "idle")
    /\ key' = [key EXCEPT ![t] = NoKey]
    /\ UNCHANGED <<file, lock, lru, append, gets, stored, recent>>
TouchThrows(t) ==
    /\ at[t] = "touch"
    /\ Fails(t)
    /\ UNCHANGED <<file, lru, append, gets, stored, recent>>

NeverTooShort(f) == FALSE   \* mutant: the size is not looked at
TooShort(f) == Len(f) < FileSize
CheckSize(t) ==
    /\ at[t] = "file_size"
    /\ Goto(t, IF TooShort(file[key[t]]) THEN "resize" ELSE "map")
    /\ UNCHANGED <<file, lock, lru, key, append, gets, stored, recent>>

\* resize_file fills up with zeros.
Resize(t) ==
    /\ at[t] = "resize"
    /\ file' = [file EXCEPT ![key[t]] =
                  [i \in 1..FileSize |-> IF i <= Len(@) THEN @[i] ELSE Zero]]
    /\ Goto(t, "map")
    /\ UNCHANGED <<lock, lru, key, append, gets, stored, recent>>

\* The region is mapped, cached and returned.
Map(t) ==
    /\ at[t] = "map"
    /\ lru' = [lru EXCEPT ![ProcOf[t]] = Insert(@, key[t])]
    /\ Yields(t)
    /\ UNCHANGED <<file, key, append, gets, stored>>

(* What the caller does with the region: a writer stores an entry in the   *)
(* first free slot, if there is one (vanilla_index::append).               *)
Use(t) ==
    LET f == file[key[t]]
        free == {i \in DOMAIN f : f[i] = Zero}
        slot == CHOOSE i \in free : \A j \in free : i <= j
        entry == <<t, gets[t]>>
    IN  /\ at[t] = "mapped"
        /\ IF append[t] /\ free # {}
           THEN /\ file' = [file EXCEPT ![key[t]][slot] = entry]
                /\ stored' = stored \cup {<<key[t], entry>>}
           ELSE UNCHANGED <<file, stored>>
        /\ Goto(t, "idle")
        /\ key' = [key EXCEPT ![t] = NoKey]
        /\ UNCHANGED <<lock, lru, append, gets, recent>>

\* The process dies and is started again; files stay as they are.
Crash(p) ==
    LET mine == {t \in Threads : ProcOf[t] = p}
    IN  /\ at' = [t \in Threads |-> IF t \in mine THEN "idle" ELSE at[t]]
        /\ key' = [t \in Threads |-> IF t \in mine THEN NoKey ELSE key[t]]
        /\ lock' = [lock EXCEPT ![p] = FALSE]
        /\ lru' = [lru EXCEPT ![p] = <<>>]
        /\ recent' = [recent EXCEPT ![p] = <<>>]
        /\ UNCHANGED <<file, append, gets, stored>>

ThreadStep(t) ==
    \/ Lock(t) \/ Hit(t) \/ Miss(t) \/ MakeFile(t) \/ NoSuchFile(t) \/ Exists(t)
    \/ Touch(t) \/ TouchThrows(t) \/ CheckSize(t) \/ Resize(t) \/ Map(t) \/ Use(t)

Next ==
    \/ \E t \in Threads :
         \/ \E k \in Keys, forWriting \in BOOLEAN : Get(t, k, forWriting)
         \/ ThreadStep(t)
    \/ \E p \in Procs : Crash(p)

Spec == Init /\ [][Next]_vars

\* The scheduler runs every thread; the lock itself promises no turn.
FairSpec == Spec /\ \A t \in Threads : WF_vars(ThreadStep(t))

-----------------------------------------------------------------------------
(* No entry that was stored in a file is ever lost by mapping it again:    *)
(* neither a second mapping after an eviction or a restart, nor another    *)
(* thread that saw the file missing a moment ago, truncates it.            *)
EntriesKept ==
    \A s \in stored : \E i \in DOMAIN file[s[1]] : file[s[1]][i] = s[2]

(* A file has its full size whenever some thread has a region over it:     *)
(* an access beyond the end of the file would be a bus error.              *)
MappedFilesWhole ==
    \A t \in Threads : at[t] = "mapped" => Len(file[key[t]]) = FileSize

(* The cache holds the Capacity keys that were got last (all of them while *)
(* there are fewer), in the order in which it will drop them.              *)
KeepsMostRecent ==
    \A p \in Procs :
        LET n == Len(recent[p])
        IN  lru[p] = SubSeq(recent[p], IF n > Capacity THEN n - Capacity + 1 ELSE 1, n)

(* The lock of a process is always released again, also when creating the  *)
(* file throws.                                                            *)
LockReleased == \A p \in Procs : lock[p] ~> ~ lock[p]
=============================================================================
