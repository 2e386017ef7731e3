---------------------------- MODULE ChronicleLog ----------------------------
(***************************************************************************)
(* What the writing side of a chronicle promises: one log per cycle, to    *)
(* which every writer appends the excerpts it has opened.  An excerpt goes *)
(* to the end of the log of the cycle it was started in, in one step, at   *)
(* most once, while its finish() is running; the logs only ever grow.      *)
(* Nothing is said of files, regions, hints or compare-and-swap:           *)
(* VanillaIndex is the implementation.                                     *)
(***************************************************************************)
EXTENDS Integers, Sequences

CONSTANTS Writers, MaxCycle, MaxExcerpts

VARIABLES
    now,      \* the current cycle
    log,      \* per cycle, the excerpts published in it
    state,    \* per writer: does it have an excerpt, and is it in the log?
    cycle,    \* per writer, the cycle it writes to (-1: none yet)
    started   \* per writer, the number of excerpts it has started

vars == <<now, log, state, cycle, started>>

Init ==
    /\ now = 0
    /\ log = [c \in 0..MaxCycle |-> <<>>]
    /\ state = [w \in Writers |-> "none"]
    /\ cycle = [w \in Writers |-> -1]
    /\ started = [w \in Writers |-> 0]

\* A new excerpt of the current cycle; an open one is given up.
Start(w) ==
    /\ state[w] \in {"none", "open"}
    /\ started[w] < MaxExcerpts
    /\ started' = [started EXCEPT ![w] = @ + 1]
    /\ state' = [state EXCEPT ![w] = "open"]
    /\ cycle' = [cycle EXCEPT ![w] = now]
    /\ UNCHANGED <<now, log>>

Publish(w) ==
    /\ state[w] = "open"
    /\ state' = [state EXCEPT ![w] = "logged"]
    /\ log' = [log EXCEPT ![cycle[w]] = Append(@, <<w, started[w]>>)]
    /\ UNCHANGED <<now, cycle, started>>

Return(w) ==
    /\ state[w] = "logged"
    /\ state' = [state EXCEPT ![w] = "none"]
    /\ UNCHANGED <<now, log, cycle, started>>

\* Some writers start afresh; what they had not published is lost.
Restart(W) ==
    /\ state' = [w \in Writers |-> IF w \in W THEN "none" ELSE state[w]]
    /\ cycle' = [w \in Writers |-> IF w \in W THEN -1 ELSE cycle[w]]
    /\ UNCHANGED <<now, log, started>>

Tick ==
    /\ now < MaxCycle
    /\ now' = now + 1
    /\ UNCHANGED <<log, state, cycle, started>>

Next ==
    \/ \E w \in Writers : Start(w) \/ Publish(w) \/ Return(w)
    \/ \E W \in SUBSET Writers : Restart(W)
    \/ Tick

Spec == Init /\ [][Next]_vars
=============================================================================
