---------------------------- MODULE MCDraftLines ----------------------------
(***************************************************************************)
(* Instances of DraftLines for TLC.                                        *)
(***************************************************************************)
EXTENDS DraftLines, TLC

\* Uuids, pages and connections are told apart only by what is done with them.
Symmetry ==
    Permutations(Drafts) \cup Permutations(Lines)
    \cup Permutations(Pages) \cup Permutations(Connections)
=============================================================================
