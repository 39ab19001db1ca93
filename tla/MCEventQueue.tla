---------------------------- MODULE MCEventQueue ----------------------------
(***************************************************************************)
(* Instances of EventQueue for TLC.                                        *)
(***************************************************************************)
EXTENDS EventQueue

\* Units other than the step timer are interchangeable.
Symmetry == Permutations(UNITS \ {StepUnit})
=============================================================================
