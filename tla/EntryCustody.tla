---------------------------- MODULE EntryCustody ----------------------------
(***************************************************************************)
(* What the capture queue promises of an entry: from the moment it is made *)
(* it is in somebody's keeping -- the phone's, or the book's once the      *)
(* server has it -- until a person lets it go.  How it travels is left     *)
(* out.                                                                    *)
(***************************************************************************)
CONSTANT Entries

VARIABLE keeper

Keepers == {"unmade", "phone", "book", "letgo"}

Init == keeper = [e \in Entries |-> "unmade"]

Pass(e, from, to) ==
    /\ keeper[e] \in from
    /\ keeper' = [keeper EXCEPT ![e] = to]

Make(e) == Pass(e, {"unmade"}, "phone")

\* It arrives; one let go of on the phone may have been on its way already.
Arrive(e) == Pass(e, {"phone", "letgo"}, "book")

LetGo(e) == Pass(e, {"phone", "book"}, "letgo")

\* Deleted from the book while the phone holds a copy still to be sent, or
\* saved again from a form that was open when it was let go.
ComeBack(e) == Pass(e, {"book", "letgo"}, "phone")

Next == \E e \in Entries : Make(e) \/ Arrive(e) \/ LetGo(e) \/ ComeBack(e)

Spec == Init /\ [][Next]_keeper
=============================================================================
