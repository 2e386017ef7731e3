-------------------------- MODULE MCExcerptFields --------------------------
(* Small instances of ExcerptFields for TLC. *)
EXTENDS ExcerptFields

Powers == [k \in 0..Groups |-> Base ^ k]
AllNumbers == (-(Base ^ Groups))..(Base ^ Groups - 1)
\* Lengths of one, and of two bytes.
SomeStrings == {<<>>, <<2 * Base - 1>>, [i \in 1..(Base + 1) |-> i % Base]}
SomeValues == {<<0, Base>>}
=============================================================================
