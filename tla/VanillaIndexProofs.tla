------------------------- MODULE VanillaIndexProofs -------------------------
(***************************************************************************)
(* Proofs about VanillaIndex, for any number of appenders and processes    *)
(* and any size of the index files.                                        *)
(***************************************************************************)
EXTENDS VanillaIndex, NumberLemmas, TLAPS

(* What the registers of an appender have to do with each other and with   *)
(* the regions they refer to.                                              *)
Registers(a) ==
    /\ pc[a] # "idle" => cyc[a] \in Cycles /\ seq[a] # 0
    /\ cyc[a] <= now
    /\ cyc[a] \in Cycles => fileNo[a] \in 0..MaxIndexFiles
    /\ held[a] # NoRegion => cyc[a] \in Cycles /\ regions[held[a]].cycle = cyc[a]
    /\ pc[a] = "find" => held[a] = NoRegion
    /\ pc[a] \in {"load", "cas", "store"} =>
         /\ cur[a] \in RegionIds
         /\ regions[cur[a]].cycle = cyc[a]
         /\ held[a] = NoRegion => regions[cur[a]].file = count[a]
         /\ held[a] # NoRegion => cur[a] = held[a]
    /\ pc[a] = "store" => pos[a] < SlotsPerFile

RegistersOK == \A a \in Appenders : Registers(a)

TypeInv == TypeOK /\ RegistersOK

-----------------------------------------------------------------------------
(* The objects an appender refers to survive a release of others.          *)
LEMMA ReleaseKeeps ==
    ASSUME NEW objects, Release(objects), NEW a \in Appenders
    PROVE  /\ held'[a] \in RegionIds => regions'[held'[a]] = objects[held'[a]]
           /\ cur'[a] \in RegionIds => regions'[cur'[a]] = objects[cur'[a]]
BY DEF Release, Referenced

LEMMA ReleaseType ==
    ASSUME NEW objects \in [RegionIds -> Region], Release(objects)
    PROVE  regions' \in [RegionIds -> Region]
<1>1. Unmapped \in Region
  BY BoundsAssumption DEF Unmapped, Region, Cycles, Files
<1>. QED  BY <1>1 DEF Release

LEMMA InitTypeInv == Init => TypeInv
<1>1. Unmapped \in Region
  BY BoundsAssumption DEF Unmapped, Region, Cycles, Files
<1>. QED
  BY <1>1, BoundsAssumption, RegionAssumption
     DEF Init, TypeInv, TypeOK, RegistersOK, Registers, Cycles, Files, Slots,
         Labels, NoRegion

LEMMA StartExcerptTypeInv ==
    ASSUME TypeInv, NEW a \in Appenders, StartExcerpt(a)
    PROVE  TypeInv'
<1>. USE BoundsAssumption, RegionAssumption
<1>1. TypeOK'
  <2>1. regions' \in [RegionIds -> Region]
    BY ReleaseType DEF TypeInv, TypeOK, StartExcerpt
  <2>2. /\ pc' \in [Appenders -> Labels]
        /\ seq' \in [Appenders -> 0..MaxExcerpts]
    BY DEF TypeInv, TypeOK, StartExcerpt, Goto, Labels
  <2>3. cyc' \in [Appenders -> Cycles \cup {-1}]
    BY DEF TypeInv, TypeOK, StartExcerpt, NewCycle
  <2>4. fileNo' \in [Appenders -> (0..MaxIndexFiles) \cup {-1}]
    BY DEF TypeInv, TypeOK, StartExcerpt, NewCycle, LastIndexFileNumber
  <2>5. held' \in [Appenders -> RegionIds \cup {NoRegion}]
    BY DEF TypeInv, TypeOK, StartExcerpt, NewCycle
  <2>. QED
    BY <2>1, <2>2, <2>3, <2>4, <2>5 DEF TypeInv, TypeOK, StartExcerpt, disk
<1>2. ASSUME NEW b \in Appenders  PROVE Registers(b)'
  <2>1. /\ held'[b] \in RegionIds => regions'[held'[b]] = regions[held'[b]]
        /\ cur'[b] \in RegionIds => regions'[cur'[b]] = regions[cur'[b]]
    BY ReleaseKeeps DEF StartExcerpt
  <2>2. CASE b # a
    BY <2>1, <2>2 DEF TypeInv, TypeOK, RegistersOK, Registers, StartExcerpt, NewCycle,
         Goto, NoRegion
  <2>3. CASE b = a /\ cyc[a] = now
    BY <2>1, <2>3 DEF TypeInv, TypeOK, RegistersOK, Registers, StartExcerpt,
         Goto, NoRegion
  <2>4. CASE b = a /\ cyc[a] # now
    BY <2>1, <2>4 DEF TypeInv, TypeOK, RegistersOK, Registers, StartExcerpt, NewCycle,
         Goto, LastIndexFileNumber, Cycles, NoRegion
  <2>. QED
    BY <2>2, <2>3, <2>4
<1>. QED  BY <1>1, <1>2 DEF TypeInv, RegistersOK

(* Steps that leave the regions and the held references alone.             *)
LEMMA LocalTypeInv ==
    ASSUME TypeInv, NEW a \in Appenders,
           \/ BeginFinish(a) \/ AppendThrows(a) \/ LoadPosition(a)
           \/ CasSucceeds(a) \/ CasFails(a) \/ LoadLwi(a) \/ CasLwi(a)
    PROVE  TypeInv'
<1>. USE BoundsAssumption, RegionAssumption, ProcAssumption DEF TypeInv, TypeOK, Goto, Labels
<1>1. CASE BeginFinish(a)
  <2>. USE <1>1 DEF RegistersOK, Registers, BeginFinish, MayFinish, disk, shared, NoRegion
  <2>1. TypeOK'
    OBVIOUS
  <2>2. ASSUME NEW b \in Appenders  PROVE Registers(b)'
    OBVIOUS
  <2>. QED  BY <2>1, <2>2
<1>2. CASE AppendThrows(a)
  <2>. USE <1>2 DEF RegistersOK, Registers, AppendThrows, disk, shared
  <2>1. TypeOK'
    OBVIOUS
  <2>2. ASSUME NEW b \in Appenders  PROVE Registers(b)'
    OBVIOUS
  <2>. QED  BY <2>1, <2>2
<1>3. CASE LoadPosition(a)
  <2>. USE <1>3 DEF RegistersOK, Registers, LoadPosition, disk, shared, Region
  <2>1. TypeOK'
    OBVIOUS
  <2>2. ASSUME NEW b \in Appenders  PROVE Registers(b)'
    OBVIOUS
  <2>. QED  BY <2>1, <2>2
<1>4. CASE CasSucceeds(a)
  <2>. USE <1>4 DEF RegistersOK, Registers, CasSucceeds, shared, registers, Region
  <2>1. TypeOK'
    <3>1. slots' \in [Cycles -> [Files -> [Slots -> Tickets \cup {NoEntry}]]]
      <4>1. Ticket(a) \in Tickets
        BY DEF Ticket, Tickets
      <4>2. cur[a] \in RegionIds
        OBVIOUS
      <4>3. regions[cur[a]].cycle \in Cycles /\ regions[cur[a]].file \in Files
        BY <4>2
      <4>4. pos[a] \in Slots
        BY DEF Slots
      <4>. QED  BY <4>1, <4>3, <4>4
    <3>. QED  BY <3>1
  <2>2. ASSUME NEW b \in Appenders  PROVE Registers(b)'
    OBVIOUS
  <2>. QED  BY <2>1, <2>2
<1>5. CASE CasFails(a)
  <2>. USE <1>5 DEF RegistersOK, Registers, CasFails, disk, shared
  <2>1. TypeOK'
    OBVIOUS
  <2>2. ASSUME NEW b \in Appenders  PROVE Registers(b)'
    OBVIOUS
  <2>. QED  BY <2>1, <2>2
<1>6. CASE LoadLwi(a)
  <2>. USE <1>6 DEF RegistersOK, Registers, LoadLwi, disk, shared
  <2>1. TypeOK'
    OBVIOUS
  <2>2. ASSUME NEW b \in Appenders  PROVE Registers(b)'
    OBVIOUS
  <2>. QED  BY <2>1, <2>2
<1>7. CASE CasLwi(a)
  <2>. USE <1>7 DEF RegistersOK, Registers, CasLwi, disk, shared
  <2>1. TypeOK'
    <3>1. lwi' \in [Procs -> Int]
      OBVIOUS
    <3>2. pc' \in [Appenders -> Labels]
      OBVIOUS
    <3>. QED  BY <3>1, <3>2
  <2>2. ASSUME NEW b \in Appenders  PROVE Registers(b)'
    OBVIOUS
  <2>. QED  BY <2>1, <2>2
<1>. QED  BY <1>1, <1>2, <1>3, <1>4, <1>5, <1>6, <1>7

(* The appender gets a region of the file it asked for; regions that are   *)
(* in use are not given a new identity.                                    *)
LEMMA IndexForSpec ==
    ASSUME TypeInv, NEW a \in Appenders, IndexFor(a)
    PROVE  /\ cur'[a] \in RegionIds
           /\ cur' = [cur EXCEPT ![a] = cur'[a]]
           /\ regions' \in [RegionIds -> Region]
           /\ regions'[cur'[a]].cycle = cyc[a]
           /\ regions'[cur'[a]].file = count[a]
           /\ cache' \in [Procs -> SUBSET RegionIds]
           /\ files' \in [Cycles -> SUBSET Files]
           /\ \A r \in RegionIds :
                \/ regions'[r] = regions[r]
                \/ regions'[r] = [cycle |-> cyc[a], file |-> count[a], position |-> 0]
           /\ \A r \in Referenced : regions'[r] = regions[r]
<1>. DEFINE p == ProcOf[a]
            new == CHOOSE r \in RegionIds : r \notin Referenced
            fresh == [cycle |-> cyc[a], file |-> count[a], position |-> 0]
<1>0. p \in Procs /\ cyc[a] \in Cycles /\ count[a] \in Files
  BY ProcAssumption, BoundsAssumption DEF TypeInv, TypeOK, RegistersOK, Registers, IndexFor, Files
<1>1. CASE \E r \in Cached(p, cyc[a], count[a]) :
             cur' = [cur EXCEPT ![a] = r] /\ UNCHANGED <<files, regions, cache>>
  BY <1>0, <1>1 DEF TypeInv, TypeOK, Cached
<1>2. CASE /\ Cached(p, cyc[a], count[a]) = {}
           /\ RegionIds \ Referenced # {}
           /\ regions' = [regions EXCEPT ![new] = fresh]
           /\ cache' = [cache EXCEPT ![p] = @ \cup {new}]
           /\ cur' = [cur EXCEPT ![a] = new]
           /\ files' = [files EXCEPT ![cyc[a]] = @ \cup {count[a]}]
  <2>1. new \in RegionIds /\ new \notin Referenced
    <3>1. \E r \in RegionIds : r \notin Referenced
      BY <1>2
    <3>. QED  BY <3>1
  <2>2. fresh \in Region
    BY <1>0, BoundsAssumption DEF Region
  <2>. QED
    BY <1>0, <1>2, <2>1, <2>2 DEF TypeInv, TypeOK
<1>. QED  BY <1>1, <1>2 DEF IndexFor

LEMMA IndexForTypeInv ==
    ASSUME TypeInv, NEW a \in Appenders, IndexFor(a)
    PROVE  TypeInv'
<1>. USE BoundsAssumption, RegionAssumption, ProcAssumption
<1>1. TypeOK'
  BY IndexForSpec DEF TypeInv, TypeOK, IndexFor, Goto, Labels
<1>2. ASSUME NEW b \in Appenders  PROVE Registers(b)'
  <2>1. CASE b = a
    BY <2>1, IndexForSpec
    DEF TypeInv, TypeOK, RegistersOK, Registers, IndexFor, Goto
  <2>2. CASE b # a
    <3>1. /\ held[b] # NoRegion => regions'[held[b]] = regions[held[b]]
          /\ cur[b] \in RegionIds => regions'[cur[b]] = regions[cur[b]]
      BY IndexForSpec DEF Referenced
    <3>. QED
      BY <2>2, <3>1, IndexForSpec
      DEF TypeInv, TypeOK, RegistersOK, Registers, IndexFor, Goto
  <2>. QED  BY <2>1, <2>2
<1>. QED  BY <1>1, <1>2 DEF TypeInv, RegistersOK

LEMMA RegionFullTypeInv ==
    ASSUME TypeInv, NEW a \in Appenders, RegionFull(a)
    PROVE  TypeInv'
<1>. USE BoundsAssumption, RegionAssumption
<1>0. NextFile(a) \in 0..MaxIndexFiles
  <2>1. CASE held[a] # NoRegion
    <3>1. regions[held[a]] \in Region
      BY <2>1 DEF TypeInv, TypeOK
    <3>. QED  BY <2>1, <3>1 DEF NextFile, Region, Files
  <2>2. CASE held[a] = NoRegion
    <3>1. regions[cur[a]] \in Region /\ regions[cur[a]].file = count[a]
      BY <2>2 DEF TypeInv, TypeOK, RegistersOK, Registers, RegionFull
    <3>. QED  BY <2>2, <3>1 DEF NextFile, Region, Files
  <2>. QED  BY <2>1, <2>2
<1>1. TypeOK'
  <2>1. regions' \in [RegionIds -> Region]
    BY ReleaseType DEF TypeInv, TypeOK, RegionFull
  <2>2. /\ pc' \in [Appenders -> Labels]
        /\ count' \in [Appenders -> 0..MaxIndexFiles]
    BY <1>0 DEF TypeInv, TypeOK, RegionFull, Goto, Labels
  <2>3. fileNo' \in [Appenders -> (0..MaxIndexFiles) \cup {-1}]
    BY <1>0 DEF TypeInv, TypeOK, RegionFull
  <2>4. held' \in [Appenders -> RegionIds \cup {NoRegion}]
    BY DEF TypeInv, TypeOK, RegionFull
  <2>. QED
    BY <2>1, <2>2, <2>3, <2>4 DEF TypeInv, TypeOK, RegionFull, disk
<1>2. ASSUME NEW b \in Appenders  PROVE Registers(b)'
  <2>1. /\ held'[b] \in RegionIds => regions'[held'[b]] = regions[held'[b]]
        /\ cur'[b] \in RegionIds => regions'[cur'[b]] = regions[cur'[b]]
    BY ReleaseKeeps DEF RegionFull
  <2>2. CASE b # a
    BY <2>1, <2>2 DEF TypeInv, TypeOK, RegistersOK, Registers, RegionFull, Goto, NoRegion
  <2>3. CASE b = a
    BY <1>0, <2>1, <2>3 DEF TypeInv, TypeOK, RegistersOK, Registers, RegionFull, Goto, NoRegion
  <2>. QED  BY <2>2, <2>3
<1>. QED  BY <1>1, <1>2 DEF TypeInv, RegistersOK

LEMMA StorePositionTypeInv ==
    ASSUME TypeInv, NEW a \in Appenders, StorePosition(a)
    PROVE  TypeInv'
<1>. USE BoundsAssumption, RegionAssumption, EntriesAssumption
<1>0. /\ cur[a] \in RegionIds
      /\ regions[cur[a]].file \in Files
      /\ PositionAfter(a) \in 0..SlotsPerFile
      /\ cyc[a] \in Cycles
  BY DEF TypeInv, TypeOK, RegistersOK, Registers, StorePosition, PositionAfter, Region
<1>1. TypeOK'
  <2>1. regions' \in [RegionIds -> Region]
    <3>1. [regions[cur[a]] EXCEPT !.position = PositionAfter(a)] \in Region
      <4>1. regions[cur[a]] \in Region
        BY <1>0 DEF TypeInv, TypeOK
      <4>. QED  BY <1>0, <4>1 DEF Region
    <3>. QED  BY <1>0, <3>1 DEF TypeInv, TypeOK, StorePosition
  <2>2. IndexFrom(cyc[a], regions[cur[a]].file, pos[a]) \in Int
    BY <1>0 DEF TypeInv, TypeOK, IndexFrom, Cycles, Files
  <2>3. fileNo' \in [Appenders -> (0..MaxIndexFiles) \cup {-1}]
    <3>1. regions[cur[a]].file \in 0..MaxIndexFiles
      BY <1>0 DEF Files
    <3>2. fileNo \in [Appenders -> (0..MaxIndexFiles) \cup {-1}]
      BY DEF TypeInv, TypeOK
    <3>3. fileNo' = [fileNo EXCEPT ![a] = IF held[a] = NoRegion THEN regions[cur[a]].file ELSE @]
      BY DEF StorePosition
    <3>. QED  BY <3>1, <3>2, <3>3
  <2>. QED
    BY <1>0, <2>1, <2>2, <2>3 DEF TypeInv, TypeOK, StorePosition, Goto, Labels, disk, NoRegion
<1>2. \A r \in RegionIds : regions'[r].cycle = regions[r].cycle
                             /\ regions'[r].file = regions[r].file
  BY <1>0 DEF TypeInv, TypeOK, StorePosition, Region
<1>3. ASSUME NEW b \in Appenders  PROVE Registers(b)'
  <2>1. CASE b # a
    BY <1>2, <2>1 DEF TypeInv, TypeOK, RegistersOK, Registers, StorePosition, Goto, NoRegion
  <2>2. CASE b = a
    BY <1>0, <1>2, <2>2 DEF TypeInv, TypeOK, RegistersOK, Registers, StorePosition, Goto, Files, NoRegion
  <2>. QED  BY <2>1, <2>2
<1>. QED  BY <1>1, <1>3 DEF TypeInv, RegistersOK

LEMMA FreshTypeInv ==
    ASSUME TypeInv, NEW A, Fresh(A), Release(regions),
           cache' \in [Procs -> SUBSET RegionIds], lwi' \in [Procs -> Int],
           UNCHANGED <<now, disk, seq>>
    PROVE  TypeInv'
<1>. USE BoundsAssumption, RegionAssumption
<1>1. TypeOK'
  <2>1. regions' \in [RegionIds -> Region]
    BY ReleaseType DEF TypeInv, TypeOK
  <2>. QED
    BY <2>1 DEF TypeInv, TypeOK, Fresh, disk, Labels
<1>2. ASSUME NEW b \in Appenders  PROVE Registers(b)'
  <2>1. /\ held'[b] \in RegionIds => regions'[held'[b]] = regions[held'[b]]
        /\ cur'[b] \in RegionIds => regions'[cur'[b]] = regions[cur'[b]]
    BY ReleaseKeeps
  <2>2. CASE b \in A
    BY <2>1, <2>2 DEF TypeInv, TypeOK, RegistersOK, Registers, Fresh, Cycles, NoRegion
  <2>3. CASE b \notin A
    BY <2>1, <2>3 DEF TypeInv, TypeOK, RegistersOK, Registers, Fresh, NoRegion
  <2>. QED  BY <2>2, <2>3
<1>. QED  BY <1>1, <1>2 DEF TypeInv, RegistersOK

LEMMA EnvironmentTypeInv ==
    ASSUME TypeInv,
           \/ \E a \in Appenders : CreateAppender(a)
           \/ \E p \in Procs : Crash(p) \/ Evict(p)
           \/ Tick
    PROVE  TypeInv'
<1>. USE BoundsAssumption, RegionAssumption
<1>1. ASSUME NEW a \in Appenders, CreateAppender(a)  PROVE TypeInv'
  BY <1>1, FreshTypeInv DEF CreateAppender, TypeInv, TypeOK
<1>2. ASSUME NEW p \in Procs, Crash(p)  PROVE TypeInv'
  <2>1. /\ cache' \in [Procs -> SUBSET RegionIds]
        /\ lwi' \in [Procs -> Int]
    BY <1>2 DEF Crash, TypeInv, TypeOK
  <2>. QED  BY <1>2, <2>1, FreshTypeInv DEF Crash
<1>3. ASSUME NEW p \in Procs, Evict(p)  PROVE TypeInv'
  <2>1. regions' \in [RegionIds -> Region]
    BY <1>3, ReleaseType DEF TypeInv, TypeOK, Evict
  <2>2. cache' \in [Procs -> SUBSET RegionIds]
    BY <1>3 DEF TypeInv, TypeOK, Evict
  <2>3. TypeOK'
    BY <1>3, <2>1, <2>2 DEF TypeInv, TypeOK, Evict, disk, registers
  <2>4. ASSUME NEW b \in Appenders  PROVE Registers(b)'
    <3>1. /\ held'[b] \in RegionIds => regions'[held'[b]] = regions[held'[b]]
          /\ cur'[b] \in RegionIds => regions'[cur'[b]] = regions[cur'[b]]
      BY <1>3, ReleaseKeeps DEF Evict
    <3>. QED
      BY <1>3, <3>1 DEF TypeInv, TypeOK, RegistersOK, Registers, Evict, registers, NoRegion
  <2>. QED  BY <2>3, <2>4 DEF TypeInv, RegistersOK
<1>4. CASE Tick
  <2>1. TypeOK'
    BY <1>4 DEF TypeInv, TypeOK, Tick, disk, shared, registers, Cycles
  <2>2. ASSUME NEW b \in Appenders  PROVE Registers(b)'
    BY <1>4 DEF TypeInv, TypeOK, RegistersOK, Registers, Tick, disk, shared, registers, Cycles
  <2>. QED  BY <2>1, <2>2 DEF TypeInv, RegistersOK
<1>. QED  BY <1>1, <1>2, <1>3, <1>4

LEMMA NextTypeInv == TypeInv /\ [Next]_vars => TypeInv'
<1>. SUFFICES ASSUME TypeInv, [Next]_vars  PROVE TypeInv'
  OBVIOUS
<1>1. CASE UNCHANGED vars
  BY <1>1 DEF TypeInv, TypeOK, RegistersOK, Registers, vars, disk, shared, registers
<1>2. CASE Next
  BY <1>2, StartExcerptTypeInv, LocalTypeInv, IndexForTypeInv, RegionFullTypeInv,
     StorePositionTypeInv, EnvironmentTypeInv DEF Next, FinishStep
<1>. QED  BY <1>1, <1>2

THEOREM TypeInvariant == Spec => []TypeInv
BY InitTypeInv, NextTypeInv, PTL DEF Spec

(* Every variable of the index keeps its type: in particular no step of    *)
(* append() leaves a file or a region, for any sizes and any interleaving. *)
THEOREM TypeCorrect == Spec => []TypeOK
BY TypeInvariant, PTL DEF TypeInv

-----------------------------------------------------------------------------
(* The sweep: whatever an appender or a region has been told about how far *)
(* a cycle has been filled is true.  NoGaps follows from it, because a CAS *)
(* only ever tries the slot behind a filled stretch.                       *)
Sweep(a) ==
    /\ cyc[a] \in Cycles => FilledBelow(slots, cyc[a], fileNo[a], 0)
    /\ pc[a] = "find" => FilledBelow(slots, cyc[a], count[a], 0)
    /\ pc[a] = "cas" => FilledBelow(slots, cyc[a], regions[cur[a]].file, pos[a])
    /\ pc[a] = "store" => FilledBelow(slots, cyc[a], regions[cur[a]].file, pos[a] + 1)

SweepInv == NoGaps /\ HintsSound /\ \A a \in Appenders : Sweep(a)

\* No entry of the old memory is missing from the new one or changed in it.
Keeps(old, new) ==
    \A c \in Cycles, f \in Files, s \in Slots :
        old[c][f][s] # NoEntry => new[c][f][s] = old[c][f][s]

LEMMA FilledKept ==
    ASSUME NEW old, NEW new, Keeps(old, new),
           NEW c \in Cycles, NEW f, NEW s, FilledBelow(old, c, f, s)
    PROVE  FilledBelow(new, c, f, s)
BY DEF Keeps, FilledBelow

\* Nothing is in front of the first slot of file 0.
LEMMA FilledAtStart ==
    ASSUME NEW mem, NEW c
    PROVE  FilledBelow(mem, c, 0, 0)
BY BoundsAssumption DEF FilledBelow, Files, Slots

\* A file that is filled to its end is behind us.
LEMMA FilledToEnd ==
    ASSUME NEW mem, NEW c, NEW f \in Files, FilledBelow(mem, c, f, SlotsPerFile)
    PROVE  FilledBelow(mem, c, f + 1, 0)
BY BoundsAssumption DEF FilledBelow, Files, Slots

\* What is filled up to a slot is filled up to the start of its file.
LEMMA FilledFile ==
    ASSUME NEW mem, NEW c, NEW f \in Files, NEW s \in Nat, FilledBelow(mem, c, f, s)
    PROVE  FilledBelow(mem, c, f, 0)
BY BoundsAssumption DEF FilledBelow, Files, Slots

LEMMA FilledNext ==
    ASSUME NEW mem, NEW c, NEW f \in Files, NEW s \in Slots,
           FilledBelow(mem, c, f, s), mem[c][f][s] # NoEntry
    PROVE  FilledBelow(mem, c, f, s + 1)
BY BoundsAssumption DEF FilledBelow, Files, Slots

(* A store into one slot of a cycle's files leaves all others alone.       *)
LEMMA StoreInMemory ==
    ASSUME NEW C, NEW F, NEW S, NEW E, NEW mem \in [C -> [F -> [S -> E]]],
           NEW c0, NEW f0, NEW s0, NEW e,
           NEW c \in C, NEW f \in F, NEW s \in S
    PROVE  [mem EXCEPT ![c0][f0][s0] = e][c][f][s]
             = IF c = c0 /\ f = f0 /\ s = s0 THEN e ELSE mem[c][f][s]
<1>1. /\ mem[c] \in [F -> [S -> E]] /\ mem[c][f] \in [S -> E]
  OBVIOUS
<1>2. CASE c # c0
  BY <1>2
<1>3. CASE c = c0
  <2>1. [mem EXCEPT ![c0][f0][s0] = e][c] = [mem[c] EXCEPT ![f0][s0] = e]
    BY <1>3
  <2>2. CASE f # f0
    BY <1>1, <2>1, <2>2
  <2>3. CASE f = f0
    <3>1. [mem EXCEPT ![c0][f0][s0] = e][c][f] = [mem[c][f] EXCEPT ![s0] = e]
      BY <1>1, <2>1, <2>3
    <3>. QED  BY <1>1, <1>3, <2>3, <3>1
  <2>. QED  BY <2>2, <2>3
<1>. QED  BY <1>2, <1>3

(* What the CAS does to the memory.                                        *)
LEMMA CasEffect ==
    ASSUME TypeInv, NEW a \in Appenders, CasSucceeds(a)
    PROVE  /\ regions[cur[a]].cycle = cyc[a] /\ cyc[a] \in Cycles
           /\ regions[cur[a]].file \in Files /\ pos[a] \in Slots
           /\ slots[cyc[a]][regions[cur[a]].file][pos[a]] = NoEntry
           /\ slots'[cyc[a]][regions[cur[a]].file][pos[a]] = Ticket(a)
           /\ Ticket(a) # NoEntry
           /\ \A c \in Cycles, f \in Files, s \in Slots :
                <<c, f, s>> # <<cyc[a], regions[cur[a]].file, pos[a]>>
                  => slots'[c][f][s] = slots[c][f][s]
           /\ Keeps(slots, slots')
<1>1. cur[a] \in RegionIds /\ regions[cur[a]].cycle = cyc[a] /\ cyc[a] \in Cycles
  BY DEF TypeInv, TypeOK, RegistersOK, Registers, CasSucceeds
<1>2. regions[cur[a]].file \in Files
  BY <1>1 DEF TypeInv, TypeOK, Region
<1>3. pos[a] \in Slots
  BY BoundsAssumption DEF TypeInv, TypeOK, CasSucceeds, Slots
<1>4. Ticket(a) # NoEntry
  BY EntryAssumption, BoundsAssumption
  DEF TypeInv, TypeOK, RegistersOK, Registers, CasSucceeds, Ticket
<1>5. /\ slots[cyc[a]][regions[cur[a]].file][pos[a]] = NoEntry
      /\ slots' = [slots EXCEPT ![cyc[a]][regions[cur[a]].file][pos[a]] = Ticket(a)]
  BY <1>1 DEF CasSucceeds
<1>6. \A c \in Cycles, f \in Files, s \in Slots :
         slots'[c][f][s] = IF c = cyc[a] /\ f = regions[cur[a]].file /\ s = pos[a]
                             THEN Ticket(a) ELSE slots[c][f][s]
  <2>1. slots \in [Cycles -> [Files -> [Slots -> Tickets \cup {NoEntry}]]]
    BY DEF TypeInv, TypeOK
  <2>. QED  BY <1>2, <1>3, <1>5, <2>1, StoreInMemory
<1>7. \A c \in Cycles, f \in Files, s \in Slots :
         <<c, f, s>> # <<cyc[a], regions[cur[a]].file, pos[a]>>
           => slots'[c][f][s] = slots[c][f][s]
  BY <1>6
<1>8. slots'[cyc[a]][regions[cur[a]].file][pos[a]] = Ticket(a)
  BY <1>1, <1>2, <1>3, <1>6
<1>9. Keeps(slots, slots')
  BY <1>5, <1>6 DEF Keeps
<1>. QED  BY <1>1, <1>2, <1>3, <1>4, <1>5, <1>7, <1>8, <1>9

LEMMA InitSweep == Init => SweepInv
<1>. SUFFICES ASSUME Init  PROVE SweepInv
  OBVIOUS
<1>1. NoGaps
  BY DEF Init, NoGaps
<1>2. HintsSound
  BY FilledAtStart DEF Init, HintsSound, Unmapped
<1>3. ASSUME NEW a \in Appenders  PROVE Sweep(a)
  BY DEF Init, Sweep, Cycles
<1>. QED  BY <1>1, <1>2, <1>3 DEF SweepInv

LEMMA CasSweep ==
    ASSUME TypeInv, SweepInv, NEW a \in Appenders, CasSucceeds(a)
    PROVE  SweepInv'
<1>. DEFINE r == regions[cur[a]]
<1>0. /\ r.cycle = cyc[a] /\ cyc[a] \in Cycles /\ r.file \in Files /\ pos[a] \in Slots
      /\ Keeps(slots, slots')
  BY CasEffect
<1>1. FilledBelow(slots, cyc[a], r.file, pos[a])
  BY DEF SweepInv, Sweep, CasSucceeds
<1>2. FilledBelow(slots', cyc[a], r.file, pos[a])
  BY <1>0, <1>1, FilledKept
<1>3. FilledBelow(slots', cyc[a], r.file, pos[a] + 1)
  BY <1>0, <1>2, CasEffect, FilledNext
<1>4. NoGaps'
  <2>. SUFFICES ASSUME NEW c \in Cycles, NEW f \in Files, NEW s \in Slots,
                       slots'[c][f][s] # NoEntry
                PROVE  FilledBelow(slots', c, f, s)
    BY DEF NoGaps
  <2>1. CASE <<c, f, s>> = <<cyc[a], r.file, pos[a]>>
    BY <1>2, <2>1
  <2>2. CASE <<c, f, s>> # <<cyc[a], r.file, pos[a]>>
    <3>1. slots[c][f][s] # NoEntry
      BY <2>2, CasEffect
    <3>2. FilledBelow(slots, c, f, s)
      BY <3>1 DEF SweepInv, NoGaps
    <3>. QED  BY <1>0, <3>2, FilledKept
  <2>. QED  BY <2>1, <2>2
<1>5. HintsSound'
  <2>. SUFFICES ASSUME NEW x \in RegionIds
                PROVE  FilledBelow(slots', regions[x].cycle, regions[x].file, regions[x].position)
    BY DEF HintsSound, CasSucceeds, shared
  <2>1. regions[x].cycle \in Cycles
    BY DEF TypeInv, TypeOK, Region
  <2>2. FilledBelow(slots, regions[x].cycle, regions[x].file, regions[x].position)
    BY DEF SweepInv, HintsSound
  <2>. QED  BY <1>0, <2>1, <2>2, FilledKept
<1>6. ASSUME NEW b \in Appenders  PROVE Sweep(b)'
  <2>0. UNCHANGED <<regions, cyc, fileNo, cur, count, pos>>
    BY DEF CasSucceeds, shared, registers
  <2>1. cyc[b] \in Cycles => FilledBelow(slots', cyc[b], fileNo[b], 0)
    BY <1>0, FilledKept DEF SweepInv, Sweep
  <2>2. pc[b] # "idle" => cyc[b] \in Cycles
    BY DEF TypeInv, RegistersOK, Registers
  <2>3. CASE b = a
    BY <1>3, <2>0, <2>1, <2>3 DEF CasSucceeds, Goto, TypeInv, TypeOK, Sweep
  <2>4. CASE b # a
    <3>1. pc'[b] = pc[b]
      BY <2>4 DEF CasSucceeds, Goto, TypeInv, TypeOK
    <3>2. pc[b] = "find" => FilledBelow(slots', cyc[b], count[b], 0)
      BY <1>0, <2>2, FilledKept DEF SweepInv, Sweep
    <3>3. pc[b] = "cas" => FilledBelow(slots', cyc[b], regions[cur[b]].file, pos[b])
      BY <1>0, <2>2, FilledKept DEF SweepInv, Sweep
    <3>4. pc[b] = "store" => FilledBelow(slots', cyc[b], regions[cur[b]].file, pos[b] + 1)
      BY <1>0, <2>2, FilledKept DEF SweepInv, Sweep
    <3>. QED  BY <2>0, <2>1, <3>1, <3>2, <3>3, <3>4 DEF Sweep
  <2>. QED  BY <2>3, <2>4
<1>. QED  BY <1>4, <1>5, <1>6 DEF SweepInv

\* Regions that are released, or kept, keep their hints sound.
LEMMA ReleaseHints ==
    ASSUME HintsSound, Release(regions), UNCHANGED slots
    PROVE  HintsSound'
BY FilledAtStart DEF HintsSound, Release, Unmapped

LEMMA StartExcerptSweep ==
    ASSUME TypeInv, SweepInv, NEW a \in Appenders, StartExcerpt(a)
    PROVE  SweepInv'
<1>1. NoGaps' /\ HintsSound'
  BY ReleaseHints DEF SweepInv, NoGaps, StartExcerpt, disk
<1>2. ASSUME NEW b \in Appenders  PROVE Sweep(b)'
  <2>1. cur'[b] \in RegionIds => regions'[cur'[b]] = regions[cur'[b]]
    BY ReleaseKeeps DEF StartExcerpt
  <2>2. CASE b # a
    BY <2>1, <2>2 DEF TypeInv, TypeOK, RegistersOK, Registers, SweepInv, Sweep,
         StartExcerpt, NewCycle, Goto, disk
  <2>3. CASE b = a /\ cyc[a] = now
    BY <2>3 DEF TypeInv, TypeOK, SweepInv, Sweep, StartExcerpt, Goto, disk
  <2>4. CASE b = a /\ cyc[a] # now
    BY <2>4, FilledAtStart DEF TypeInv, TypeOK, SweepInv, Sweep, StartExcerpt, NewCycle,
         LastIndexFileNumber, Goto, disk
  <2>. QED  BY <2>2, <2>3, <2>4
<1>. QED  BY <1>1, <1>2 DEF SweepInv

LEMMA LocalSweep ==
    ASSUME TypeInv, SweepInv, NEW a \in Appenders,
           \/ BeginFinish(a) \/ AppendThrows(a) \/ LoadPosition(a)
           \/ CasFails(a) \/ LoadLwi(a) \/ CasLwi(a)
    PROVE  SweepInv'
<1>. USE DEF TypeInv, TypeOK, Goto, disk, shared
<1>1. UNCHANGED <<slots, regions>>
  BY DEF BeginFinish, AppendThrows, LoadPosition, CasFails, LoadLwi, CasLwi
<1>2. NoGaps' /\ HintsSound'
  BY <1>1 DEF SweepInv, NoGaps, HintsSound
<1>3. ASSUME NEW b \in Appenders  PROVE Sweep(b)'
  <2>1. CASE BeginFinish(a)
    BY <2>1 DEF RegistersOK, Registers, SweepInv, Sweep, BeginFinish, MayFinish
  <2>2. CASE AppendThrows(a)
    BY <2>2 DEF SweepInv, Sweep, AppendThrows
  <2>3. CASE LoadPosition(a)
    <3>1. /\ cur[a] \in RegionIds /\ regions[cur[a]].cycle = cyc[a]
          /\ FilledBelow(slots, cyc[a], regions[cur[a]].file, regions[cur[a]].position)
      BY <2>3 DEF RegistersOK, Registers, SweepInv, HintsSound, LoadPosition
    <3>. QED  BY <2>3, <3>1 DEF SweepInv, Sweep, LoadPosition
  <2>4. CASE CasFails(a)
    <3>1. /\ cur[a] \in RegionIds /\ regions[cur[a]].cycle = cyc[a] /\ cyc[a] \in Cycles
          /\ FilledBelow(slots, cyc[a], regions[cur[a]].file, pos[a])
          /\ slots[cyc[a]][regions[cur[a]].file][pos[a]] # NoEntry
      BY <2>4 DEF RegistersOK, Registers, SweepInv, Sweep, CasFails
    <3>2. regions[cur[a]].file \in Files /\ pos[a] \in Slots
      BY <2>4, <3>1, BoundsAssumption DEF CasFails, Region, Slots
    <3>3. FilledBelow(slots, cyc[a], regions[cur[a]].file, pos[a] + 1)
      BY <3>1, <3>2, FilledNext
    <3>. QED  BY <2>4, <3>3 DEF SweepInv, Sweep, CasFails
  <2>5. CASE LoadLwi(a)
    BY <2>5 DEF SweepInv, Sweep, LoadLwi
  <2>6. CASE CasLwi(a)
    BY <2>6 DEF SweepInv, Sweep, CasLwi
  <2>. QED  BY <2>1, <2>2, <2>3, <2>4, <2>5, <2>6
<1>. QED  BY <1>2, <1>3 DEF SweepInv

LEMMA IndexForSweep ==
    ASSUME TypeInv, SweepInv, NEW a \in Appenders, IndexFor(a)
    PROVE  SweepInv'
<1>0. /\ UNCHANGED <<slots, cyc, fileNo, held, count, pos>>
      /\ FilledBelow(slots, cyc[a], count[a], 0)
  BY DEF IndexFor, SweepInv, Sweep
<1>1. NoGaps'
  BY <1>0 DEF SweepInv, NoGaps
<1>2. HintsSound'
  <2>. SUFFICES ASSUME NEW r \in RegionIds
                PROVE  FilledBelow(slots, regions'[r].cycle, regions'[r].file, regions'[r].position)
    BY <1>0 DEF HintsSound
  <2>1. CASE regions'[r] = regions[r]
    BY <2>1 DEF SweepInv, HintsSound
  <2>2. CASE regions'[r] = [cycle |-> cyc[a], file |-> count[a], position |-> 0]
    BY <1>0, <2>2
  <2>. QED  BY <2>1, <2>2, IndexForSpec
<1>3. ASSUME NEW b \in Appenders  PROVE Sweep(b)'
  <2>1. CASE b = a
    BY <1>0, <2>1 DEF SweepInv, Sweep, IndexFor, Goto, TypeInv, TypeOK
  <2>2. CASE b # a
    <3>1. pc'[b] = pc[b] /\ cur'[b] = cur[b]
      BY <2>2, IndexForSpec DEF IndexFor, Goto, TypeInv, TypeOK
    <3>2. pc[b] \in {"cas", "store"} => regions'[cur[b]] = regions[cur[b]]
      BY IndexForSpec DEF Referenced
    <3>. QED  BY <1>0, <3>1, <3>2 DEF SweepInv, Sweep
  <2>. QED  BY <2>1, <2>2
<1>. QED  BY <1>1, <1>2, <1>3 DEF SweepInv

LEMMA RegionFullSweep ==
    ASSUME TypeInv, SweepInv, NEW a \in Appenders, RegionFull(a)
    PROVE  SweepInv'
<1>0. /\ UNCHANGED <<slots, cyc>>
      /\ cur[a] \in RegionIds
      /\ FilledBelow(slots, cyc[a], regions[cur[a]].file, SlotsPerFile)
      /\ NextFile(a) = regions[cur[a]].file + 1
  BY DEF TypeInv, RegistersOK, Registers, SweepInv, Sweep, RegionFull, NextFile, disk
<1>1. FilledBelow(slots, cyc[a], NextFile(a), 0)
  <2>1. regions[cur[a]].file \in Files
    BY <1>0 DEF TypeInv, TypeOK, Region
  <2>. QED  BY <1>0, <2>1, FilledToEnd
<1>2. NoGaps' /\ HintsSound'
  BY <1>0, ReleaseHints DEF SweepInv, NoGaps, RegionFull
<1>3. ASSUME NEW b \in Appenders  PROVE Sweep(b)'
  <2>1. cur'[b] \in RegionIds => regions'[cur'[b]] = regions[cur'[b]]
    BY ReleaseKeeps DEF RegionFull
  <2>2. CASE b # a
    BY <1>0, <2>1, <2>2 DEF TypeInv, TypeOK, RegistersOK, Registers, SweepInv, Sweep,
         RegionFull, Goto
  <2>3. CASE b = a
    BY <1>0, <1>1, <2>3 DEF TypeInv, TypeOK, SweepInv, Sweep, RegionFull, Goto
  <2>. QED  BY <2>2, <2>3
<1>. QED  BY <1>2, <1>3 DEF SweepInv

LEMMA StorePositionSweep ==
    ASSUME TypeInv, SweepInv, NEW a \in Appenders, StorePosition(a)
    PROVE  SweepInv'
<1>0. /\ UNCHANGED <<slots, cyc>>
      /\ cur[a] \in RegionIds /\ regions[cur[a]].cycle = cyc[a] /\ cyc[a] \in Cycles
      /\ regions[cur[a]].file \in Files
      /\ FilledBelow(slots, cyc[a], regions[cur[a]].file, pos[a] + 1)
  BY DEF TypeInv, TypeOK, Region, RegistersOK, Registers, SweepInv, Sweep, StorePosition, disk
<1>1. NoGaps'
  BY <1>0 DEF SweepInv, NoGaps
<1>2. \A r \in RegionIds :
         /\ regions'[r].cycle = regions[r].cycle
         /\ regions'[r].file = regions[r].file
         /\ regions'[r].position = IF r = cur[a] THEN pos[a] + 1 ELSE regions[r].position
  BY <1>0 DEF TypeInv, TypeOK, StorePosition, Region, PositionAfter
<1>3. HintsSound'
  BY <1>0, <1>2 DEF SweepInv, HintsSound
<1>4. ASSUME NEW b \in Appenders  PROVE Sweep(b)'
  <2>1. CASE b # a
    BY <1>0, <1>2, <2>1 DEF TypeInv, TypeOK, RegistersOK, Registers, SweepInv, Sweep,
         StorePosition, Goto
  <2>2. CASE b = a
    <3>1. FilledBelow(slots, cyc[a], regions[cur[a]].file, 0)
      <4>1. pos[a] + 1 \in Nat
        BY DEF TypeInv, TypeOK
      <4>. QED  BY <1>0, <4>1, FilledFile
    <3>. QED
      BY <1>0, <2>2, <3>1 DEF TypeInv, TypeOK, SweepInv, Sweep, StorePosition, Goto
  <2>. QED  BY <2>1, <2>2
<1>. QED  BY <1>1, <1>3, <1>4 DEF SweepInv

LEMMA EnvironmentSweep ==
    ASSUME TypeInv, SweepInv,
           \/ \E a \in Appenders : CreateAppender(a)
           \/ \E p \in Procs : Crash(p) \/ Evict(p)
           \/ Tick
    PROVE  SweepInv'
<1>1. ASSUME NEW A, Fresh(A), Release(regions), UNCHANGED slots  PROVE SweepInv'
  <2>1. NoGaps' /\ HintsSound'
    BY <1>1, ReleaseHints DEF SweepInv, NoGaps
  <2>2. ASSUME NEW b \in Appenders  PROVE Sweep(b)'
    <3>1. cur'[b] \in RegionIds => regions'[cur'[b]] = regions[cur'[b]]
      BY <1>1, ReleaseKeeps
    <3>2. CASE b \in A
      BY <1>1, <3>2 DEF Fresh, Sweep, Cycles
    <3>3. CASE b \notin A
      BY <1>1, <3>1, <3>3 DEF TypeInv, TypeOK, RegistersOK, Registers, SweepInv, Sweep, Fresh
    <3>. QED  BY <3>2, <3>3
  <2>. QED  BY <2>1, <2>2 DEF SweepInv
<1>2. ASSUME NEW a \in Appenders, CreateAppender(a)  PROVE SweepInv'
  BY <1>1, <1>2 DEF CreateAppender, disk
<1>3. ASSUME NEW p \in Procs, Crash(p)  PROVE SweepInv'
  BY <1>1, <1>3 DEF Crash, disk
<1>4. ASSUME NEW p \in Procs, Evict(p)  PROVE SweepInv'
  <2>1. NoGaps' /\ HintsSound'
    BY <1>4, ReleaseHints DEF SweepInv, NoGaps, Evict, disk
  <2>2. ASSUME NEW b \in Appenders  PROVE Sweep(b)'
    <3>1. cur'[b] \in RegionIds => regions'[cur'[b]] = regions[cur'[b]]
      BY <1>4, ReleaseKeeps DEF Evict
    <3>. QED
      BY <1>4, <3>1 DEF TypeInv, RegistersOK, Registers, SweepInv, Sweep, Evict, disk, registers
  <2>. QED  BY <2>1, <2>2 DEF SweepInv
<1>5. CASE Tick
  BY <1>5 DEF SweepInv, NoGaps, HintsSound, Sweep, Tick, disk, shared, registers
<1>. QED  BY <1>2, <1>3, <1>4, <1>5

LEMMA NextSweep == TypeInv /\ SweepInv /\ [Next]_vars => SweepInv'
<1>. SUFFICES ASSUME TypeInv, SweepInv, [Next]_vars  PROVE SweepInv'
  OBVIOUS
<1>1. CASE UNCHANGED vars
  BY <1>1 DEF SweepInv, NoGaps, HintsSound, Sweep, vars, disk, shared, registers
<1>2. CASE Next
  BY <1>2, StartExcerptSweep, LocalSweep, CasSweep, IndexForSweep, RegionFullSweep,
     StorePositionSweep, EnvironmentSweep DEF Next, FinishStep
<1>. QED  BY <1>1, <1>2

THEOREM SweepInvariant == Spec => []SweepInv
BY TypeInvariant, InitSweep, NextSweep, PTL DEF Spec

(* The entries of every cycle are one sequence without holes: readers that *)
(* stop at the first zero slot overlook nothing.                           *)
THEOREM NoGapsCorrect == Spec => []NoGaps
BY SweepInvariant, PTL DEF SweepInv

(* No free slot is ever below the position of a region, although appenders *)
(* store positions unconditionally and out of order.                       *)
THEOREM HintsSoundCorrect == Spec => []HintsSound
BY SweepInvariant, PTL DEF SweepInv

(* append() throws only if the cycle's last file is full.                  *)
THEOREM ThrowsOnlyWhenFullCorrect == Spec => []ThrowsOnlyWhenFull
<1>1. TypeInv /\ SweepInv => ThrowsOnlyWhenFull
  BY BoundsAssumption
  DEF TypeInv, TypeOK, SweepInv, Sweep, ThrowsOnlyWhenFull, FilledBelow, Files
<1>. QED  BY <1>1, TypeInvariant, SweepInvariant, PTL

-----------------------------------------------------------------------------
(* What is in the index was put there by an excerpt that has been started; *)
(* while its appender has a later excerpt open, everything the appender    *)
(* published before has a smaller number and a cycle no later.             *)
EntryInv ==
    \A c \in Cycles, f \in Files, s \in Slots :
        LET e == slots[c][f][s] IN
        e # NoEntry =>
            /\ c <= now
            /\ e[2] <= seq[e[1]]
            /\ pc[e[1]] \in {"open"} \cup Claiming =>
                 c <= cyc[e[1]] /\ e[2] < seq[e[1]]

OrderInv == EntryInv /\ WriterOrder

LEMMA InitOrder == Init => OrderInv
BY DEF Init, OrderInv, EntryInv, WriterOrder, IsBy

LEMMA CasOrder ==
    ASSUME TypeInv, SweepInv, OrderInv, NEW a \in Appenders, CasSucceeds(a)
    PROVE  OrderInv'
<1>. DEFINE IsNew(c, f, s) == c = cyc[a] /\ f = regions[cur[a]].file /\ s = pos[a]
<1>0. /\ cyc[a] \in Cycles /\ regions[cur[a]].file \in Files /\ pos[a] \in Slots
      /\ \A c \in Cycles, f \in Files, s \in Slots :
           IF IsNew(c, f, s)
           THEN slots[c][f][s] = NoEntry /\ slots'[c][f][s] = <<a, seq[a]>>
           ELSE slots'[c][f][s] = slots[c][f][s]
  BY CasEffect DEF Ticket
<1>1. /\ UNCHANGED <<now, seq, cyc>>
      /\ pc' = [pc EXCEPT ![a] = "store"]
      /\ pc[a] = "cas"
  BY DEF CasSucceeds, registers, Goto
<1>2. \A c \in Cycles, f \in Files, s \in Slots :
         slots[c][f][s] # NoEntry =>
             slots[c][f][s][1] \in Appenders /\ slots[c][f][s][2] \in Nat
  BY BoundsAssumption DEF TypeInv, TypeOK, Tickets
<1>3. EntryInv'
  <2>. SUFFICES ASSUME NEW c \in Cycles, NEW f \in Files, NEW s \in Slots,
                       slots'[c][f][s] # NoEntry
                PROVE  LET e == slots'[c][f][s] IN
                       /\ c <= now
                       /\ e[2] <= seq[e[1]]
                       /\ pc'[e[1]] \in {"open"} \cup Claiming =>
                            c <= cyc[e[1]] /\ e[2] < seq[e[1]]
    BY <1>1 DEF EntryInv
  <2>1. CASE IsNew(c, f, s)
    <3>1. slots'[c][f][s] = <<a, seq[a]>> /\ c = cyc[a]
      BY <1>0, <2>1
    <3>2. cyc[a] <= now /\ seq[a] \in Nat /\ pc'[a] = "store"
      BY <1>1, BoundsAssumption DEF TypeInv, TypeOK, RegistersOK, Registers
    <3>. QED  BY <3>1, <3>2 DEF Claiming
  <2>2. CASE ~ IsNew(c, f, s)
    <3>1. slots'[c][f][s] = slots[c][f][s]
      BY <1>0, <2>2
    <3>2. pc'[slots[c][f][s][1]] \in {"open"} \cup Claiming
            => pc[slots[c][f][s][1]] \in {"open"} \cup Claiming
      BY <1>1, <1>2, <3>1 DEF TypeInv, TypeOK, Claiming
    <3>. QED  BY <3>1, <3>2 DEF OrderInv, EntryInv
  <2>. QED  BY <2>1, <2>2
<1>4. WriterOrder'
  <2>. SUFFICES ASSUME NEW b \in Appenders,
                       NEW c1 \in Cycles, NEW f1 \in Files, NEW s1 \in Slots,
                       NEW c2 \in Cycles, NEW f2 \in Files, NEW s2 \in Slots,
                       IsBy(slots'[c1][f1][s1], b),
                       IsBy(slots'[c2][f2][s2], b),
                       \/ c1 < c2
                       \/ c1 = c2 /\ f1 < f2
                       \/ c1 = c2 /\ f1 = f2 /\ s1 < s2
                PROVE  slots'[c1][f1][s1][2] < slots'[c2][f2][s2][2]
    BY DEF WriterOrder
  <2>1. <<c1, f1, s1>> # <<c2, f2, s2>>
    BY DEF Cycles, Files, Slots
  <2>2. CASE ~ IsNew(c1, f1, s1) /\ ~ IsNew(c2, f2, s2)
    <3>1. /\ slots'[c1][f1][s1] = slots[c1][f1][s1]
          /\ slots'[c2][f2][s2] = slots[c2][f2][s2]
      BY <1>0, <2>2
    <3>. QED  BY <3>1 DEF OrderInv, WriterOrder
  <2>3. CASE ~ IsNew(c1, f1, s1) /\ IsNew(c2, f2, s2)
    <3>1. b = a /\ slots'[c2][f2][s2][2] = seq[a]
      BY <1>0, <2>3 DEF IsBy
    <3>2. slots'[c1][f1][s1] = slots[c1][f1][s1]
      BY <1>0, <2>3
    <3>. QED
      BY <1>1, <3>1, <3>2 DEF OrderInv, EntryInv, IsBy, Claiming
  <2>4. CASE IsNew(c1, f1, s1)
    <3>1. b = a
      BY <1>0, <2>4 DEF IsBy
    <3>2. slots'[c2][f2][s2] = slots[c2][f2][s2]
      BY <1>0, <2>1, <2>4
    <3>3. c2 <= cyc[a]
      BY <1>1, <3>1, <3>2 DEF OrderInv, EntryInv, IsBy, Claiming
    <3>4. c1 = c2 /\ (f1 < f2 \/ (f1 = f2 /\ s1 < s2))
      BY <2>4, <3>3 DEF Cycles
    <3>5. FilledBelow(slots, c2, f2, s2)
      BY <3>2 DEF SweepInv, NoGaps, IsBy
    <3>6. slots[c1][f1][s1] # NoEntry
      BY <3>4, <3>5 DEF FilledBelow
    <3>. QED  BY <1>0, <2>4, <3>6
  <2>. QED  BY <2>2, <2>3, <2>4
<1>. QED  BY <1>3, <1>4 DEF OrderInv

(* Every other step leaves the entries alone; an appender gets an excerpt  *)
(* open by starting a new one, in the cycle of the clock.                  *)
LEMMA OtherOrder ==
    ASSUME TypeInv, OrderInv, UNCHANGED slots, now' \in Cycles, now <= now',
           \A b \in Appenders :
               /\ seq[b] <= seq'[b] /\ seq'[b] \in Nat
               /\ \/ pc'[b] \notin {"open"} \cup Claiming
                  \/ /\ pc[b] \in {"open"} \cup Claiming
                     /\ cyc'[b] = cyc[b]
                  \/ seq[b] < seq'[b] /\ cyc'[b] = now
    PROVE  OrderInv'
<1>1. WriterOrder'
  BY DEF OrderInv, WriterOrder
<1>2. EntryInv'
  <2>. SUFFICES ASSUME NEW c \in Cycles, NEW f \in Files, NEW s \in Slots,
                       slots[c][f][s] # NoEntry
                PROVE  LET e == slots[c][f][s] IN
                       /\ c <= now'
                       /\ e[2] <= seq'[e[1]]
                       /\ pc'[e[1]] \in {"open"} \cup Claiming =>
                            c <= cyc'[e[1]] /\ e[2] < seq'[e[1]]
    BY DEF EntryInv
  <2>. DEFINE e == slots[c][f][s]
  <2>1. /\ e[1] \in Appenders /\ e[2] \in Nat
        /\ seq[e[1]] \in Nat /\ seq'[e[1]] \in Nat
        /\ c \in Int /\ now \in Int /\ now' \in Int
    BY BoundsAssumption DEF TypeInv, TypeOK, Tickets, Cycles
  <2>2. /\ c <= now
        /\ e[2] <= seq[e[1]]
        /\ pc[e[1]] \in {"open"} \cup Claiming => c <= cyc[e[1]] /\ e[2] < seq[e[1]]
    BY DEF OrderInv, EntryInv
  <2>. QED  BY <2>1, <2>2
<1>. QED  BY <1>1, <1>2 DEF OrderInv

LEMMA NextOrder == TypeInv /\ SweepInv /\ OrderInv /\ [Next]_vars => OrderInv'
<1>. SUFFICES ASSUME TypeInv, SweepInv, OrderInv, [Next]_vars  PROVE OrderInv'
  OBVIOUS
<1>. USE DEF TypeInv, TypeOK, Goto, Claiming, disk, shared, registers
<1>0. /\ now \in Cycles /\ now <= now
      /\ \A b \in Appenders : seq[b] <= seq[b] /\ seq[b] \in Nat
  BY BoundsAssumption DEF Cycles
<1>1. ASSUME NEW a \in Appenders, CasSucceeds(a)  PROVE OrderInv'
  BY <1>1, CasOrder
<1>2. ASSUME NEW a \in Appenders, StartExcerpt(a)  PROVE OrderInv'
  <2>1. /\ UNCHANGED <<slots, now>>
        /\ \A b \in Appenders :
             IF b = a THEN seq'[b] = seq[b] + 1 /\ cyc'[b] = now
             ELSE seq'[b] = seq[b] /\ pc'[b] = pc[b] /\ cyc'[b] = cyc[b]
    BY <1>2 DEF StartExcerpt, NewCycle
  <2>2. \A b \in Appenders :
          /\ seq[b] <= seq'[b] /\ seq'[b] \in Nat
          /\ b = a => seq[b] < seq'[b]
    BY <1>0, <2>1
  <2>. QED  BY <1>0, <2>1, <2>2, OtherOrder
<1>3. ASSUME NEW a \in Appenders,
             \/ BeginFinish(a) \/ IndexFor(a) \/ AppendThrows(a) \/ LoadPosition(a)
             \/ CasFails(a) \/ RegionFull(a) \/ StorePosition(a) \/ LoadLwi(a)
             \/ CasLwi(a)
      PROVE  OrderInv'
  <2>1. UNCHANGED <<slots, now, seq, cyc>>
    BY <1>3 DEF BeginFinish, IndexFor, AppendThrows, LoadPosition, CasFails, RegionFull,
         StorePosition, LoadLwi, CasLwi
  <2>2. ASSUME NEW b \in Appenders
        PROVE  \/ pc'[b] \notin {"open"} \cup Claiming
               \/ pc[b] \in {"open"} \cup Claiming
    <3>1. CASE BeginFinish(a) \/ IndexFor(a) \/ AppendThrows(a) \/ LoadPosition(a)
      BY <3>1 DEF BeginFinish, MayFinish, IndexFor, AppendThrows, LoadPosition
    <3>2. CASE CasFails(a) \/ RegionFull(a) \/ StorePosition(a) \/ LoadLwi(a) \/ CasLwi(a)
      BY <3>2 DEF CasFails, RegionFull, StorePosition, LoadLwi, CasLwi
    <3>. QED  BY <1>3, <3>1, <3>2
  <2>. QED  BY <1>0, <2>1, <2>2, OtherOrder
<1>4. ASSUME NEW A, Fresh(A), UNCHANGED <<slots, now, seq>>  PROVE OrderInv'
  BY <1>0, <1>4, OtherOrder DEF Fresh
<1>5. ASSUME NEW a \in Appenders, CreateAppender(a)  PROVE OrderInv'
  BY <1>4, <1>5 DEF CreateAppender
<1>6. ASSUME NEW p \in Procs, Crash(p)  PROVE OrderInv'
  BY <1>4, <1>6 DEF Crash
<1>7. ASSUME NEW p \in Procs, Evict(p)  PROVE OrderInv'
  BY <1>0, <1>7, OtherOrder DEF Evict
<1>8. CASE Tick
  <2>1. now' \in Cycles /\ now <= now'
    BY <1>8, BoundsAssumption DEF Tick, Cycles
  <2>. QED  BY <1>0, <1>8, <2>1, OtherOrder DEF Tick
<1>9. CASE UNCHANGED vars
  BY <1>0, <1>9, OtherOrder DEF vars
<1>. QED
  BY <1>1, <1>2, <1>3, <1>5, <1>6, <1>7, <1>8, <1>9 DEF Next, FinishStep

THEOREM OrderInvariant == Spec => []OrderInv
BY TypeInvariant, SweepInvariant, InitOrder, NextOrder, PTL DEF Spec

(* Over all files and cycles, the excerpts of an appender are in the index *)
(* in the order in which it started them.                                  *)
THEOREM WriterOrderCorrect == Spec => []WriterOrder
BY OrderInvariant, PTL DEF OrderInv

(* No excerpt is in the index twice.                                       *)
THEOREM PublishedOnceCorrect == Spec => []PublishedOnce
<1>1. TypeInv /\ OrderInv => PublishedOnce
  <2>. SUFFICES ASSUME TypeInv, WriterOrder,
                       NEW c1 \in Cycles, NEW f1 \in Files, NEW s1 \in Slots,
                       NEW c2 \in Cycles, NEW f2 \in Files, NEW s2 \in Slots,
                       slots[c1][f1][s1] # NoEntry, slots[c1][f1][s1] = slots[c2][f2][s2]
                PROVE  c1 = c2 /\ f1 = f2 /\ s1 = s2
    BY DEF OrderInv, PublishedOnce
  <2>. DEFINE e == slots[c1][f1][s1]
  <2>1. e[1] \in Appenders /\ ~ (e[2] < e[2])
    BY BoundsAssumption DEF TypeInv, TypeOK, Tickets
  <2>2. IsBy(slots[c1][f1][s1], e[1]) /\ IsBy(slots[c2][f2][s2], e[1])
    BY DEF IsBy
  <2>3. /\ ~ (c1 < c2) /\ ~ (c2 < c1)
        /\ c1 = c2 => ~ (f1 < f2) /\ ~ (f2 < f1)
        /\ c1 = c2 /\ f1 = f2 => ~ (s1 < s2) /\ ~ (s2 < s1)
    BY <2>1, <2>2 DEF WriterOrder
  <2>. QED  BY <2>3 DEF Cycles, Files, Slots
<1>. QED  BY <1>1, TypeInvariant, OrderInvariant, PTL

-----------------------------------------------------------------------------
(* m_last_written_index: what an appender is about to install is larger    *)
(* than what it has seen, and whatever is installed is the index of an     *)
(* entry.                                                                  *)
IsEntry(mem, i) ==
    \E c \in Cycles, f \in Files, s \in Slots :
        i = IndexFrom(c, f, s) /\ mem[c][f][s] # NoEntry

LwiInv ==
    /\ LwiCoversFinished
    /\ \A a \in Appenders :
         /\ pc[a] = "casLwi" => seen[a] < written[a]
         /\ pc[a] \in {"loadLwi", "casLwi"} => IsEntry(slots, written[a])
         /\ pc[a] = "store" => slots[cyc[a]][regions[cur[a]].file][pos[a]] # NoEntry
    /\ \A p \in Procs : lwi[p] >= -1 /\ (lwi[p] >= 0 => IsEntry(slots, lwi[p]))

LEMMA InitLwi == Init => LwiInv
BY ProcAssumption DEF Init, LwiInv, LwiCoversFinished

\* Entries are not taken away.
LEMMA EntriesKept ==
    ASSUME TypeInv, [Next]_vars
    PROVE  Keeps(slots, slots')
<1>1. ASSUME NEW a \in Appenders, CasSucceeds(a)  PROVE Keeps(slots, slots')
  BY <1>1, CasEffect
<1>2. CASE UNCHANGED slots
  BY <1>2 DEF Keeps
<1>. QED
  BY <1>1, <1>2 DEF Next, FinishStep, vars, disk, StartExcerpt, BeginFinish, IndexFor,
     AppendThrows, LoadPosition, CasFails, RegionFull, StorePosition, LoadLwi, CasLwi,
     CreateAppender, Crash, Evict, Tick

LEMMA IsEntryKept ==
    ASSUME NEW old, NEW new, Keeps(old, new), NEW i, IsEntry(old, i)
    PROVE  IsEntry(new, i)
BY DEF Keeps, IsEntry

(* Steps that touch neither lwi nor the registers LwiInv is about, except  *)
(* for leaving finish().                                                   *)
LEMMA LwiKept ==
    ASSUME TypeInv, LwiInv, Keeps(slots, slots'), UNCHANGED <<lwi, written, seen>>,
           \A b \in Appenders :
               /\ pc'[b] # pc[b] => pc'[b] \notin {"store", "loadLwi", "casLwi"}
                                      /\ pc[b] \notin {"loadLwi", "casLwi"}
               /\ pc'[b] = "store" =>
                    UNCHANGED <<cyc[b], cur[b], pos[b], regions[cur[b]].file>>
    PROVE  LwiInv'
<1>1. LwiCoversFinished'
  BY DEF LwiInv, LwiCoversFinished
<1>2. ASSUME NEW b \in Appenders
      PROVE  /\ pc'[b] = "casLwi" => seen[b] < written[b]
             /\ pc'[b] \in {"loadLwi", "casLwi"} => IsEntry(slots', written'[b])
  BY IsEntryKept DEF LwiInv
<1>3. ASSUME NEW b \in Appenders, pc'[b] = "store"
      PROVE  slots'[cyc'[b]][regions'[cur'[b]].file][pos'[b]] # NoEntry
  <2>1. pc[b] = "store"
    BY <1>3
  <2>2. cyc[b] \in Cycles /\ cur[b] \in RegionIds /\ pos[b] \in Slots
    BY <2>1, BoundsAssumption DEF TypeInv, TypeOK, RegistersOK, Registers, Slots
  <2>3. regions[cur[b]].file \in Files
    BY <2>2 DEF TypeInv, TypeOK, Region
  <2>. QED  BY <1>3, <2>1, <2>2, <2>3 DEF LwiInv, Keeps
<1>4. ASSUME NEW p \in Procs
      PROVE  lwi[p] >= -1 /\ (lwi[p] >= 0 => IsEntry(slots', lwi'[p]))
  BY <1>4, IsEntryKept DEF LwiInv
<1>. QED  BY <1>1, <1>2, <1>3, <1>4 DEF LwiInv

LEMMA StorePositionLwi ==
    ASSUME TypeInv, LwiInv, Keeps(slots, slots'), NEW a \in Appenders, StorePosition(a)
    PROVE  LwiInv'
<1>0. /\ UNCHANGED <<slots, lwi, seen, cyc>>
      /\ cur[a] \in RegionIds /\ regions[cur[a]].file \in Files
      /\ cyc[a] \in Cycles /\ pos[a] \in Slots
      /\ pc[a] = "store"
  BY BoundsAssumption DEF TypeInv, TypeOK, RegistersOK, Registers, Region, StorePosition, Slots, disk
<1>1. /\ pc' = [pc EXCEPT ![a] = "loadLwi"]
      /\ written' = [written EXCEPT ![a] = IndexFrom(cyc[a], regions[cur[a]].file, pos[a])]
  BY DEF StorePosition, Goto
<1>2. IsEntry(slots', written'[a])
  BY <1>0, <1>1 DEF LwiInv, IsEntry, TypeInv, TypeOK
<1>3. LwiCoversFinished'
  BY <1>0, <1>1 DEF LwiInv, LwiCoversFinished, TypeInv, TypeOK
<1>4. ASSUME NEW b \in Appenders
      PROVE  /\ pc'[b] = "casLwi" => seen[b] < written'[b]
             /\ pc'[b] \in {"loadLwi", "casLwi"} => IsEntry(slots', written'[b])
  BY <1>0, <1>1, <1>2 DEF LwiInv, TypeInv, TypeOK
<1>5. ASSUME NEW b \in Appenders, pc'[b] = "store"
      PROVE  slots'[cyc'[b]][regions'[cur'[b]].file][pos'[b]] # NoEntry
  <2>1. b # a /\ pc[b] = "store" /\ cur[b] \in RegionIds
    BY <1>1, <1>5 DEF TypeInv, TypeOK, RegistersOK, Registers
  <2>2. /\ pos'[b] = pos[b] /\ cur'[b] = cur[b]
        /\ regions'[cur[b]].file = regions[cur[b]].file
    BY <1>0, <2>1 DEF StorePosition, TypeInv, TypeOK, Region
  <2>. QED  BY <1>0, <2>1, <2>2 DEF LwiInv
<1>6. ASSUME NEW p \in Procs
      PROVE  lwi'[p] >= -1 /\ (lwi'[p] >= 0 => IsEntry(slots', lwi'[p]))
  BY <1>0 DEF LwiInv
<1>7. ASSUME NEW b \in Appenders
      PROVE  /\ pc'[b] = "casLwi" => seen'[b] < written'[b]
             /\ pc'[b] \in {"loadLwi", "casLwi"} => IsEntry(slots', written'[b])
             /\ pc'[b] = "store" =>
                  slots'[cyc'[b]][regions'[cur'[b]].file][pos'[b]] # NoEntry
  BY <1>0, <1>4, <1>5
<1>. QED  BY <1>3, <1>6, <1>7 DEF LwiInv

LEMMA SetLwi ==
    ASSUME TypeInv, LwiInv, NEW a \in Appenders, LoadLwi(a) \/ CasLwi(a)
    PROVE  /\ LwiInv'
           /\ \A p \in Procs : lwi'[p] >= lwi[p]
<1>1. /\ lwi \in [Procs -> Int] /\ written[a] \in Int /\ seen[a] \in Int
      /\ ProcOf[a] \in Procs
  BY ProcAssumption DEF TypeInv, TypeOK
<1>2. \/ UNCHANGED lwi
      \/ /\ seen[a] < written[a] /\ lwi[ProcOf[a]] = seen[a]
         /\ lwi' = [lwi EXCEPT ![ProcOf[a]] = written[a]]
  BY DEF LoadLwi, CasLwi, LwiInv
<1>3. \A p \in Procs : lwi'[p] >= lwi[p]
  <2>1. CASE UNCHANGED lwi
    BY <1>1, <2>1
  <2>2. CASE /\ seen[a] < written[a] /\ lwi[ProcOf[a]] = seen[a]
             /\ lwi' = [lwi EXCEPT ![ProcOf[a]] = written[a]]
    BY <1>1, <2>2
  <2>. QED  BY <1>2, <2>1, <2>2
<1>. USE ProcAssumption DEF TypeInv, TypeOK, Goto
<1>4. UNCHANGED <<slots, regions, cyc, cur, pos, written>>
  BY DEF LoadLwi, CasLwi, disk, shared
<1>5. \A b \in Appenders : b # a => pc'[b] = pc[b] /\ seen'[b] = seen[b]
  BY DEF LoadLwi, CasLwi
<1>6. pc'[a] \in {"idle", "loadLwi", "casLwi"} /\ pc[a] \in {"loadLwi", "casLwi"}
  BY DEF LoadLwi, CasLwi
<1>7. LwiCoversFinished'
  <2>1. pc'[a] \notin {"loadLwi", "casLwi"} => lwi'[ProcOf[a]] >= written[a]
    BY DEF LoadLwi, CasLwi
  <2>2. ASSUME NEW b \in Appenders, b # a, pc[b] \notin {"loadLwi", "casLwi"}
        PROVE  lwi'[ProcOf[b]] >= written[b]
    <3>1. lwi[ProcOf[b]] >= written[b] /\ ProcOf[b] \in Procs
      BY <2>2 DEF LwiInv, LwiCoversFinished
    <3>2. lwi'[ProcOf[b]] \in Int /\ lwi[ProcOf[b]] \in Int /\ written[b] \in Int
      BY <1>2, <3>1
    <3>. QED  BY <1>3, <3>1, <3>2
  <2>. QED  BY <1>4, <1>5, <2>1, <2>2 DEF LwiCoversFinished
<1>8. ASSUME NEW b \in Appenders
      PROVE  /\ pc'[b] = "casLwi" => seen'[b] < written'[b]
             /\ pc'[b] \in {"loadLwi", "casLwi"} => IsEntry(slots', written'[b])
             /\ pc'[b] = "store" =>
                  slots'[cyc'[b]][regions'[cur'[b]].file][pos'[b]] # NoEntry
  <2>1. pc'[a] = "casLwi" => seen'[a] < written[a]
    BY DEF LoadLwi, CasLwi
  <2>. QED  BY <1>4, <1>5, <1>6, <2>1 DEF LwiInv
<1>9. ASSUME NEW p \in Procs
      PROVE  lwi'[p] >= -1 /\ (lwi'[p] >= 0 => IsEntry(slots', lwi'[p]))
  <2>1. lwi'[p] = lwi[p] \/ (lwi'[p] = written[a] /\ lwi[p] < written[a])
    BY <1>2
  <2>2. lwi[p] >= -1 /\ (lwi[p] >= 0 => IsEntry(slots, lwi[p])) /\ IsEntry(slots, written[a])
    BY <1>6 DEF LwiInv
  <2>3. lwi[p] \in Int /\ written[a] \in Int
    OBVIOUS
  <2>. QED  BY <1>4, <2>1, <2>2, <2>3
<1>. QED  BY <1>3, <1>7, <1>8, <1>9 DEF LwiInv

LEMMA FreshLwi ==
    ASSUME TypeInv, LwiInv, NEW A, Fresh(A), Release(regions), UNCHANGED slots,
           \A p \in Procs : lwi'[p] = lwi[p] \/ lwi'[p] = -1,
           \A b \in Appenders \ A : lwi'[ProcOf[b]] = lwi[ProcOf[b]]
    PROVE  LwiInv'
<1>. USE ProcAssumption DEF TypeInv, TypeOK
<1>1. ASSUME NEW b \in Appenders
      PROVE  IF b \in A THEN pc'[b] = "idle" /\ written'[b] = -1
             ELSE UNCHANGED <<pc[b], cyc[b], cur[b], pos[b], seen[b], written[b]>>
  BY DEF Fresh
<1>2. ASSUME NEW p \in Procs
      PROVE  lwi'[p] \in Int /\ lwi'[p] >= -1 /\ (lwi'[p] >= 0 => IsEntry(slots', lwi'[p]))
  <2>1. lwi[p] \in Int /\ lwi[p] >= -1 /\ (lwi[p] >= 0 => IsEntry(slots, lwi[p]))
    BY DEF LwiInv
  <2>2. CASE lwi'[p] = lwi[p]
    BY <2>1, <2>2
  <2>3. CASE lwi'[p] = -1
    BY <2>3
  <2>. QED  BY <2>2, <2>3
<1>3. LwiCoversFinished'
  BY <1>1, <1>2 DEF LwiInv, LwiCoversFinished
<1>4. ASSUME NEW b \in Appenders
      PROVE  /\ pc'[b] = "casLwi" => seen'[b] < written'[b]
             /\ pc'[b] \in {"loadLwi", "casLwi"} => IsEntry(slots', written'[b])
             /\ pc'[b] = "store" =>
                  slots'[cyc'[b]][regions'[cur'[b]].file][pos'[b]] # NoEntry
  <2>1. CASE b \in A
    BY <1>1, <2>1
  <2>2. CASE b \notin A
    <3>1. cur'[b] \in RegionIds => regions'[cur'[b]] = regions[cur'[b]]
      BY ReleaseKeeps
    <3>. QED  BY <1>1, <2>2, <3>1 DEF LwiInv, RegistersOK, Registers
  <2>. QED  BY <2>1, <2>2
<1>. QED  BY <1>2, <1>3, <1>4 DEF LwiInv

LEMMA NextLwi ==
    ASSUME TypeInv, LwiInv, [Next]_vars
    PROVE  /\ LwiInv'
           /\ \A p \in Procs : lwi'[p] >= lwi[p] \/ Crash(p)
<1>. USE DEF TypeInv, TypeOK, Goto
<1>0. /\ Keeps(slots, slots')
      /\ \A p \in Procs : lwi[p] >= lwi[p]
  BY EntriesKept
<1>1. ASSUME NEW a \in Appenders,
             \/ StartExcerpt(a) \/ BeginFinish(a) \/ IndexFor(a) \/ AppendThrows(a)
             \/ LoadPosition(a) \/ CasFails(a) \/ RegionFull(a)
      PROVE  LwiInv' /\ UNCHANGED lwi
  <2>0. /\ UNCHANGED <<lwi, written, seen>>
        /\ pc'[a] \notin {"store", "loadLwi", "casLwi"}
        /\ pc[a] \notin {"store", "loadLwi", "casLwi"}
        /\ \A b \in Appenders : b # a => pc'[b] = pc[b]
    BY <1>1 DEF StartExcerpt, BeginFinish, MayFinish, IndexFor, AppendThrows, LoadPosition,
       CasFails, RegionFull, registers
  <2>1. ASSUME NEW b \in Appenders, b # a
        PROVE  UNCHANGED <<cyc[b], cur[b], pos[b]>>
    <3>1. CASE StartExcerpt(a)
      BY <2>1, <3>1 DEF StartExcerpt, NewCycle
    <3>2. CASE BeginFinish(a) \/ AppendThrows(a) \/ LoadPosition(a) \/ CasFails(a) \/ RegionFull(a)
      BY <2>1, <3>2 DEF BeginFinish, AppendThrows, LoadPosition, CasFails, RegionFull
    <3>3. CASE IndexFor(a)
      BY <2>1, <3>3, IndexForSpec DEF IndexFor
    <3>. QED  BY <1>1, <3>1, <3>2, <3>3
  <2>2. ASSUME NEW b \in Appenders, b # a, cur[b] \in RegionIds
        PROVE  regions'[cur[b]] = regions[cur[b]]
    <3>1. CASE StartExcerpt(a) \/ RegionFull(a)
      BY <2>1, <2>2, <3>1, ReleaseKeeps DEF StartExcerpt, RegionFull
    <3>2. CASE IndexFor(a)
      BY <2>2, <3>2, IndexForSpec DEF Referenced
    <3>3. CASE BeginFinish(a) \/ AppendThrows(a) \/ LoadPosition(a) \/ CasFails(a)
      BY <3>3 DEF BeginFinish, AppendThrows, LoadPosition, CasFails, shared
    <3>. QED  BY <1>1, <3>1, <3>2, <3>3
  <2>3. ASSUME NEW b \in Appenders, pc'[b] = "store"
        PROVE  UNCHANGED <<cyc[b], cur[b], pos[b], regions[cur[b]].file>>
    BY <2>0, <2>1, <2>2, <2>3 DEF RegistersOK, Registers
  <2>. QED  BY <1>0, <2>0, <2>3, LwiKept
<1>2. ASSUME NEW a \in Appenders, CasSucceeds(a)  PROVE LwiInv' /\ UNCHANGED lwi
  <2>1. /\ UNCHANGED <<lwi, written, seen, cyc, cur, pos, regions>>
        /\ pc' = [pc EXCEPT ![a] = "store"]
        /\ pc[a] = "cas"
    BY <1>2 DEF CasSucceeds, registers, shared
  <2>2. slots'[cyc[a]][regions[cur[a]].file][pos[a]] # NoEntry
    BY <1>2, CasEffect
  <2>3. LwiCoversFinished'
    BY <2>1 DEF LwiInv, LwiCoversFinished
  <2>4. ASSUME NEW b \in Appenders
        PROVE  /\ pc'[b] = "casLwi" => seen'[b] < written'[b]
               /\ pc'[b] \in {"loadLwi", "casLwi"} => IsEntry(slots', written'[b])
               /\ pc'[b] = "store" =>
                    slots'[cyc'[b]][regions'[cur'[b]].file][pos'[b]] # NoEntry
    <3>1. CASE b = a
      BY <2>1, <2>2, <3>1
    <3>2. CASE b # a
      <4>1. pc[b] = "store" => /\ cyc[b] \in Cycles /\ regions[cur[b]].file \in Files
                               /\ pos[b] \in Slots
        BY BoundsAssumption DEF RegistersOK, Registers, Region, Slots
      <4>. QED  BY <1>0, <2>1, <3>2, <4>1, IsEntryKept DEF LwiInv, Keeps
    <3>. QED  BY <3>1, <3>2
  <2>5. ASSUME NEW p \in Procs
        PROVE  lwi'[p] >= -1 /\ (lwi'[p] >= 0 => IsEntry(slots', lwi'[p]))
    BY <1>0, <2>1, IsEntryKept DEF LwiInv
  <2>. QED  BY <2>1, <2>3, <2>4, <2>5 DEF LwiInv
<1>3. ASSUME NEW a \in Appenders, StorePosition(a)  PROVE LwiInv' /\ UNCHANGED lwi
  BY <1>0, <1>3, StorePositionLwi DEF StorePosition
<1>4. ASSUME NEW a \in Appenders, CreateAppender(a)  PROVE LwiInv' /\ UNCHANGED lwi
  BY <1>4, FreshLwi DEF CreateAppender, disk
<1>5. ASSUME NEW p \in Procs, Crash(p)
      PROVE  LwiInv' /\ \A q \in Procs : lwi'[q] >= lwi[q] \/ Crash(q)
  <2>1. \A q \in Procs : lwi'[q] = IF q = p THEN -1 ELSE lwi[q]
    BY <1>5 DEF Crash
  <2>2. LwiInv'
    BY <1>5, <2>1, FreshLwi, ProcAssumption DEF Crash, disk
  <2>. QED  BY <1>0, <1>5, <2>1, <2>2
<1>6. ASSUME \/ \E p \in Procs : Evict(p)
             \/ Tick
             \/ UNCHANGED vars
      PROVE  LwiInv' /\ UNCHANGED lwi
  <2>1. UNCHANGED <<lwi, pc, registers>>
    BY <1>6 DEF Evict, Tick, vars
  <2>2. ASSUME NEW b \in Appenders, cur[b] \in RegionIds
        PROVE  regions'[cur[b]] = regions[cur[b]]
    BY <1>6, <2>1, <2>2, ReleaseKeeps DEF Evict, Tick, vars, shared, registers
  <2>3. ASSUME NEW b \in Appenders, pc'[b] = "store"
        PROVE  UNCHANGED <<cyc[b], cur[b], pos[b], regions[cur[b]].file>>
    BY <2>1, <2>2, <2>3 DEF RegistersOK, Registers, registers
  <2>. QED  BY <1>0, <2>1, <2>3, LwiKept DEF registers
<1>7. ASSUME NEW a \in Appenders, LoadLwi(a) \/ CasLwi(a)
      PROVE  LwiInv' /\ \A p \in Procs : lwi'[p] >= lwi[p]
  BY <1>7, SetLwi
<1>. QED
  BY <1>0, <1>1, <1>2, <1>3, <1>4, <1>5, <1>6, <1>7 DEF Next, FinishStep

THEOREM LwiInvariant == Spec => []LwiInv
<1>1. TypeInv /\ LwiInv /\ [Next]_vars => LwiInv'
  BY NextLwi
<1>. QED  BY <1>1, TypeInvariant, InitLwi, PTL DEF Spec

(* The chronicle's last written index has caught up with every appender    *)
(* whose finish() has returned.                                            *)
THEOREM LwiCoversFinishedCorrect == Spec => []LwiCoversFinished
BY LwiInvariant, PTL DEF LwiInv

(* The CAS loop of set_last_written_index never lowers the index.          *)
THEOREM LwiMonotonicCorrect == Spec => LwiMonotonic
<1>1. TypeInv /\ LwiInv /\ [Next]_vars
        => [\A p \in Procs : lwi'[p] >= lwi[p] \/ Crash(p)]_vars
  BY NextLwi
<1>. QED  BY <1>1, TypeInvariant, LwiInvariant, PTL DEF Spec, LwiMonotonic

-----------------------------------------------------------------------------
(* The tailer's CycleOf, FileOf and SlotOf invert the appender's IndexFrom *)
(* because a cycle has room for all its files, in whole files.             *)
THEOREM IndexDecodes ==
    ASSUME NEW c \in Cycles, NEW f \in Files, NEW s \in Slots
    PROVE  /\ CycleOf(IndexFrom(c, f, s)) = c
           /\ FileOf(IndexFrom(c, f, s)) = f
           /\ SlotOf(IndexFrom(c, f, s)) = s
<1>. DEFINE S == SlotsPerFile
            E == EntriesPerCycle
            k == E \div S
            i == IndexFrom(c, f, s)
            r == f * S + s
<1>1. /\ S \in Nat \ {0} /\ E \in Nat /\ MaxIndexFiles \in Nat \ {0}
      /\ MaxIndexFiles * S <= E /\ E % S = 0
      /\ c \in Nat /\ f \in Nat /\ s \in 0..(S - 1) /\ f + 1 <= MaxIndexFiles
  BY BoundsAssumption, EntriesAssumption DEF Cycles, Files, Slots
<1>2. /\ f * S \in Nat /\ c * E \in Nat
      /\ (f + 1) * S = f * S + S
      /\ (f + 1) * S <= MaxIndexFiles * S
  BY <1>1, ProductGrows, Z3
<1>3. r \in 0..(E - 1) /\ E \in Nat \ {0}
  BY <1>1, <1>2
<1>4. i = c * E + r
  BY <1>1, <1>2 DEF IndexFrom
<1>5. i \div E = c /\ i % E = r
  <2>. HIDE DEF r, i
  <2>1. (c * E + r) \div E = c /\ (c * E + r) % E = r
    BY <1>1, <1>3, DivUnique
  <2>. QED  BY <1>4, <2>1
<1>6. r \div S = f
  BY <1>1, DivUnique
<1>7. i % S = s
  <2>1. E = k * S /\ k \in Nat
    <3>1. E = k * S + (E % S) /\ k \in Int
      BY <1>1, DivMod
    <3>2. k \in Nat
      BY <1>1, Z3
    <3>. HIDE DEF k
    <3>. QED  BY <1>1, <3>1, <3>2
  <2>. DEFINE q == c * k + f
  <2>2. c * k \in Nat /\ q \in Nat
    BY <1>1, <2>1, Z3
  <2>3. i = q * S + s
    <3>. HIDE DEF i, k
    <3>1. c * E = (c * k) * S /\ q * S = (c * k) * S + f * S
      BY <1>1, <2>1, <2>2, Z3
    <3>. QED  BY <1>4, <3>1, <1>1, <1>2, <2>2
  <2>. HIDE DEF q, i
  <2>4. (q * S + s) % S = s
    BY <1>1, <2>2, DivUnique
  <2>. QED  BY <2>3, <2>4
<1>. QED  BY <1>5, <1>6, <1>7 DEF CycleOf, FileOf, SlotOf

(* Whatever last_written_index() returns can be read, and so can all of    *)
(* its cycle in front of it.                                               *)
THEOREM LwiIsReadableCorrect == Spec => []LwiIsReadable
<1>1. LwiInv /\ SweepInv => LwiIsReadable
  <2>. SUFFICES ASSUME LwiInv, SweepInv, NEW p \in Procs, lwi[p] >= 0
                PROVE  LET c == CycleOf(lwi[p])  f == FileOf(lwi[p])  s == SlotOf(lwi[p])
                       IN  slots[c][f][s] # NoEntry /\ FilledBelow(slots, c, f, s)
    BY DEF LwiIsReadable
  <2>1. PICK c \in Cycles, f \in Files, s \in Slots :
          lwi[p] = IndexFrom(c, f, s) /\ slots[c][f][s] # NoEntry
    BY DEF LwiInv, IsEntry
  <2>2. FilledBelow(slots, c, f, s)
    BY <2>1 DEF SweepInv, NoGaps
  <2>. QED  BY <2>1, <2>2, IndexDecodes
<1>. QED  BY <1>1, LwiInvariant, SweepInvariant, PTL
=============================================================================
