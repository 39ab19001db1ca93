---------------------------- MODULE MCClockQueue ----------------------------
(***************************************************************************)
(* Instances of ClockQueue for TLC.                                        *)
(***************************************************************************)
EXTENDS ClockQueue

\* The units are interchangeable.
Symmetry == Permutations(UNITS)
=============================================================================
