------------------------------ MODULE MCRepair ------------------------------
(***************************************************************************)
(* Instances of Repair for TLC.                                            *)
(***************************************************************************)
EXTENDS Repair

\* Either end, within a gap of it, and between; moves are clamped to the range.
SomeValues == {0, 1, 7, 11, 12}
=============================================================================
