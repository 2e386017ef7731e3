------------------------- MODULE MCExcerptAppender -------------------------
(* Small instances of ExcerptAppender for TLC. *)
EXTENDS ExcerptAppender

CONSTANTS a1, a2, p1

TwoAppenders == {a1, a2}
OneAppender == {a1}
OneProc  == {p1}
SameProc == [a \in TwoAppenders |-> p1]
Alone    == [a \in OneAppender |-> p1]
MovingAlone == [a \in OneAppender |-> {1, 3}]
SharedThread == [a \in TwoAppenders |-> {1}]
=============================================================================
