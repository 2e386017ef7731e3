----------------------------- MODULE MCCycleDirs -----------------------------
(* Small instances of CycleDirs for TLC. *)
EXTENDS CycleDirs, TLC

CONSTANTS t1, t2, p1

TwoThreads == {t1, t2}
OneProc    == {p1}
SameProc   == [t \in TwoThreads |-> p1]
Symmetric  == Permutations(TwoThreads)

(* Names that nobody here made: one that cannot be read, an hour below     *)
(* zero of a later day, and a date beyond the clock, which comes out below *)
(* zero.                                                                   *)
Unreadable == [numbers |-> <<>>, spelling |-> 1]
Signed     == [numbers |-> <<2, -1>>, spelling |-> 1]
FarOff     == [numbers |-> <<200000, 0>>, spelling |-> 0]

OtherNames == {Unreadable, Signed, FarOff}
BelowZero  == [n \in OtherNames |-> -5]
=============================================================================
