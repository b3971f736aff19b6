----------------------------- MODULE MCRetainers -----------------------------
(***************************************************************************)
(* Instances of Retainers for TLC.                                         *)
(***************************************************************************)
EXTENDS Retainers, TLC

CONSTANTS site, wiring, cleaning

\* Two days' work of one pool, by a crew of two and, at the site, by nobody put down
\* for it yet, another service of the same period, and work not billable.
EveryWork ==
    {[site |-> {}, service |-> wiring, day |-> 1, seconds |-> 2, billable |-> TRUE, heads |-> 2],
     [site |-> {}, service |-> wiring, day |-> 2, seconds |-> 1, billable |-> FALSE, heads |-> 1],
     [site |-> {site}, service |-> wiring, day |-> 2, seconds |-> 2, billable |-> TRUE, heads |-> 0],
     [site |-> {}, service |-> cleaning, day |-> 1, seconds |-> 1, billable |-> TRUE, heads |-> 1]}

Nothing == wiring :> {} @@ cleaning :> {}
Some == wiring :> {[pool |-> {3}]} @@ cleaning :> {}
Both == wiring :> {[pool |-> {3}]} @@ cleaning :> {[pool |-> {}]}

EveryDeal ==
    [site: {{}, {site}}, starts: {1}, ends: {{}}, covers: {Nothing, Some}]
    \cup {[site |-> {}, starts |-> 2, ends |-> {}, covers |-> Some],
          [site |-> {}, starts |-> 1, ends |-> {1}, covers |-> Some],
          [site |-> {}, starts |-> 1, ends |-> {}, covers |-> Both]}

EveryCharge == {[start |-> 1, end |-> 2, charge |-> 10], [start |-> 2, end |-> 2, charge |-> 5]}

Symmetric == Permutations(Agreements)
=============================================================================
