--------------------------- MODULE MCRegionFiles ---------------------------
(* Small instances of RegionFiles for TLC. *)
EXTENDS RegionFiles

CONSTANTS t1, t2, p1, p2, k1, k2, k3

TwoThreads == {t1, t2}
OneProc  == {p1}
TwoProcs == {p1, p2}
SameProc == [t \in TwoThreads |-> p1]
OwnProc  == [t \in TwoThreads |-> IF t = t1 THEN p1 ELSE p2]
=============================================================================
