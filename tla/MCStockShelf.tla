---------------------------- MODULE MCStockShelf ----------------------------
(***************************************************************************)
(* Instances of StockShelf for TLC.                                        *)
(***************************************************************************)
EXTENDS StockShelf, TLC

Both == {"average", "oldest_first"}
\* Lines, drafts and connections are told apart only by what they do.
Symmetry == Permutations(Lines) \cup Permutations(Drafts) \cup Permutations(Connections)
=============================================================================
