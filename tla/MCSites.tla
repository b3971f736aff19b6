------------------------------- MODULE MCSites -------------------------------
(***************************************************************************)
(* Instances of Sites for TLC.                                             *)
(***************************************************************************)
EXTENDS Sites, TLC

\* Each is told from another only by what is done with it.
Symmetry ==
    Permutations(Places) \cup Permutations(Labels)
    \cup Permutations(Pages) \cup Permutations(Saves)
=============================================================================
