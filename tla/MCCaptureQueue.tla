--------------------------- MODULE MCCaptureQueue ---------------------------
(***************************************************************************)
(* Instances of CaptureQueue for TLC, and what they are checked against.   *)
(***************************************************************************)
EXTENDS CaptureQueue, TLC

\* A team's entry, which names a person the office may have let go.
Said == {"team"}
CrewOfBodies == [b \in Bodies |-> {"a"}]

\* Pages are told apart only by what they do.
PageSymmetry == Permutations(Pages)
=============================================================================
