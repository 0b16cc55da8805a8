------------------------------ MODULE MCDropList ------------------------------
(***************************************************************************)
(* Instance of DropList for TLC: three prefixes that share a bucket, so    *)
(* that a record is removed from its head, middle and end, and a second    *)
(* bucket that stays empty.  The prefixes are alike, and every property is *)
(* a safety property, so symmetry is sound.                                *)
(***************************************************************************)
EXTENDS DropList, TLC

CONSTANTS p1, p2, p3

MCCidrs == {p1, p2, p3}
MCHash == [p \in MCCidrs |-> 1]
MCSymmetry == Permutations(MCCidrs)
=============================================================================
