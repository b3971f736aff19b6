------------------------------- MODULE MCTrips -------------------------------
(***************************************************************************)
(* Instances of Trips for TLC.                                             *)
(***************************************************************************)
EXTENDS Trips, TLC

CONSTANTS a, b

\* A building two clients share, and an errand nobody is charged for.
Stops == {[place |-> "shared", for |-> <<a, b>>], [place |-> "shop", for |-> <<>>]}

\* As Google has them, the shared one longer by one way than by the other.
RoadMiles(from, to) ==
    CASE {from, to} = {"base", "shared"} -> IF from = "base" THEN 210 ELSE 230
      [] {from, to} = {"base", "shop"} -> 90
      [] OTHER -> 50

LastDriven == {"base", "shop"} :> 101
HalfKnown == [p \in {"shared", "shop"} |-> IF p = "shared" THEN {250} ELSE {}]
=============================================================================
