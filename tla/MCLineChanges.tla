--------------------------- MODULE MCLineChanges ---------------------------
(***************************************************************************)
(* Instances of LineChanges for TLC.                                       *)
(***************************************************************************)
EXTENDS LineChanges, TLC

ChangingRemoving == {"change", "remove"}
All == {"change", "remove", "restore"}

\* Phones, connections, fields and values are told apart only by what they do.
Symmetry ==
    Permutations(Phones) \cup Permutations(Connections)
    \cup Permutations(Fields) \cup Permutations(Values)
=============================================================================
