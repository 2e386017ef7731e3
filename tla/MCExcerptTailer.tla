-------------------------- MODULE MCExcerptTailer --------------------------
(* Small instances of ExcerptTailer for TLC. *)
EXTENDS ExcerptTailer

CONSTANTS w1, w2

OneWriter  == {w1}
TwoWriters == {w1, w2}
=============================================================================
