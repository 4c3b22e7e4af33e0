----------------------------- MODULE MCSorting ------------------------------
(* Three Files, whose names sort otherwise than they lie in the directory, or, *)
(* of an operand given twice, are equal.                                       *)
EXTENDS Sorting

MCNameRanks == {<<3, 1, 2>>, <<2, 1, 1>>}

\* Two Files on a file system without birth times.
MCNoBirthTimes == {}
MCTwoNames == {<<2, 1>>}
=============================================================================
