------------------------------ MODULE MCPayroll ------------------------------
(***************************************************************************)
(* Instances of Payroll for TLC.                                           *)
(***************************************************************************)
EXTENDS Payroll, TLC

CONSTANTS p1, v1, v2
OneIsTheirs == v1 :> {p1} @@ v2 :> {}

\* Uuids and requests are told apart only by what they do.
Symmetry == Permutations(Uuids) \cup Permutations(Requests)
=============================================================================
