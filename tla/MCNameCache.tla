---------------------------- MODULE MCNameCache ----------------------------
(* Two slots for three ids, two of which share a slot.                         *)
EXTENDS NameCache

MCIds == {1, 2, 3}
MCNames == {"ann", "bob"}
MCListings == {<<1, 3, 1, 2>>, <<3, 0, 1, 3>>}
=============================================================================
