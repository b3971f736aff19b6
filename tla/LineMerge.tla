----------------------------- MODULE LineMerge -----------------------------
(***************************************************************************)
(* A change made on a phone merged with what the server has, field by      *)
(* field, against what both began from (src/lib/line-merge.ts).  Values    *)
(* are equal here when same() says so.                                     *)
(***************************************************************************)
CONSTANTS Fields, Values

Words == [Fields -> Values]

Moved(base, words) == {f \in Fields : words[f] # base[f]}

Collided(base, phone, server) ==
    {f \in Moved(base, phone) \cap Moved(base, server) : phone[f] # server[f]}

\* What both moved to one value counts as the phone's.
FromPhone(base, phone, server) ==
    Moved(base, phone) \ Collided(base, phone, server)

Merged(base, phone, server) ==
    [f \in Fields |-> IF f \in FromPhone(base, phone, server) THEN phone[f] ELSE server[f]]
=============================================================================
