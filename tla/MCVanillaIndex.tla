--------------------------- MODULE MCVanillaIndex ---------------------------
(* Small instances of VanillaIndex for TLC. *)
EXTENDS VanillaIndex

CONSTANTS a1, a2, p1, p2

TwoAppenders == {a1, a2}
OneProc  == {p1}
TwoProcs == {p1, p2}
SameProc == [a \in TwoAppenders |-> p1]
EachItsProc == [a \in TwoAppenders |-> IF a = a1 THEN p1 ELSE p2]
=============================================================================
