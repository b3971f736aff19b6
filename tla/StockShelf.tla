----------------------------- MODULE StockShelf -----------------------------
(***************************************************************************)
(* One material on the shelf: lots received, lines on drafts that draw     *)
(* from them, and what each line costs (src/lib/stock-draw.ts,             *)
(* src/lib/server/stock.ts, the handlers of src/lib/server/lines.ts, and   *)
(* the triggers of drizzle/0017).                                          *)
(*                                                                         *)
(* A draw locks its draft, then the material, reads the shelf and writes   *)
(* what it decided; stock arrives, and lines are taken off other drafts,   *)
(* between the read and the write.  Cost stands for the cost before tax;   *)
(* the tax paid is shared out the same way.  The unit of money is the      *)
(* fourth decimal place, the one the code rounds to.  What sending freezes *)
(* and how two changes of one line merge are in LineChanges.               *)
(***************************************************************************)
EXTENDS Integers, FiniteSets, Sequences, FiniteSetsExt

CONSTANTS
    Lines,          \* the lines there come to be
    Drafts,
    Connections,    \* bound: requests under way at once
    Costings,       \* the methods the operator may choose from
    Days,           \* days a lot may have arrived on
    Costs,          \* what a lot may have cost
    MaxQty,         \* bound: the quantity of a lot, or of a line
    MaxLots,        \* bound: lots received
    MaxSaves        \* bound: lines added and changed

ASSUME CostingsAssumption == Costings \subseteq {"average", "oldest_first"}
ASSUME LinesAssumption == IsFiniteSet(Lines)
ASSUME AmountsAssumption ==
    Days \cup Costs \cup {MaxQty, MaxLots, MaxSaves} \subseteq Nat

VARIABLES
    lots,       \* in the order they were entered
    line,       \* line: its row, if it is on a draft
    costing,    \* the operator's method
    call,       \* connection: the draw under way on it
    saves       \* bound's counter: draws written

vars == <<lots, line, costing, call, saves>>

Lot == [day: Days, received: 1..MaxQty, remaining: 0..MaxQty, cost: Costs]
Row == [draft: Drafts, qty: 1..MaxQty, cost: Int, draws: [1..MaxLots -> 0..MaxQty]]
Shelf == [left: [1..MaxLots -> 0..MaxQty], worth: Int]

\* A line added, or how much is on it changed; shelf is what was read.
Call == [line: Lines, draft: Drafts, qty: 1..MaxQty, adds: BOOLEAN, costing: Costings,
         stage: {"asked", "draft", "shelf"}, shelf: SUBSET Shelf]

TypeOK ==
    /\ lots \in Seq(Lot) /\ Len(lots) <= MaxLots
    /\ line \in [Lines -> SUBSET Row]
    /\ costing \in Costings
    /\ call \in [Connections -> SUBSET Call]
    /\ saves \in 0..MaxSaves
-----------------------------------------------------------------------------
(* The arithmetic of a draw.                                               *)

RoundDiv(n, d) == (2 * n + d) \div (2 * d)
Least(a, b) == IF a < b THEN a ELSE b
Entered == 1..Len(lots)
Total(f) == SumFunctionOnSet(f, Entered)

\* Oldest first: the day it arrived, then the order it was entered in.
Older(i, j) == lots[i].day < lots[j].day \/ (lots[i].day = lots[j].day /\ i < j)

\* What the receipts say that much of each lot cost, over Parts.
Parts == ProductSet({lots[i].received : i \in Entered})
ReceiptCost(f) ==
    Total([i \in Entered |-> lots[i].cost * f[i] * (Parts \div lots[i].received)])

\* What comes off each lot: what the older ones do not have.
Takes(shelf, want) ==
    [i \in 1..MaxLots |->
        IF i \notin Entered THEN 0
        ELSE LET older == SumFunctionOnSet(shelf.left, {j \in Entered : Older(j, i)})
             IN  IF older >= want THEN 0 ELSE Least(want - older, shelf.left[i])]

Average(shelf, want) == RoundDiv(shelf.worth * want, Total(shelf.left))

OldestFirst(shelf, want) ==
    LET all == ReceiptCost(shelf.left) IN
    IF all = 0 THEN Average(shelf, want)
    ELSE RoundDiv(ReceiptCost(Takes(shelf, want)) * shelf.worth, all)

By(method, shelf, want) ==
    IF method = "average" THEN Average(shelf, want) ELSE OldestFirst(shelf, want)

\* Wrong: costed by the unit, the last draw like any other.
DrawCostByUnit(shelf, want, method) ==
    IF method = "average" THEN RoundDiv(shelf.worth, Total(shelf.left)) * want
                          ELSE OldestFirst(shelf, want)
\* The draw that empties the shelf takes all of its worth.
DrawCost(shelf, want, method) ==
    IF want = Total(shelf.left) THEN shelf.worth ELSE By(method, shelf, want)

\* What is put back goes off the newest lot the line drew from first.
Kept(draws, want) ==
    [i \in 1..MaxLots |->
        IF i \notin Entered THEN 0
        ELSE LET older == SumFunctionOnSet(draws, {j \in Entered : Older(j, i)})
             IN  IF older >= want THEN 0 ELSE Least(want - older, draws[i])]

CostOf(l) == IF line[l] = {} THEN 0 ELSE (CHOOSE row \in line[l] : TRUE).cost
Paid == Total([i \in Entered |-> lots[i].cost])
Worth == Paid - SumFunctionOnSet([l \in Lines |-> CostOf(l)], Lines)

\* Lots and worth are of one moment.
ShelfNow ==
    [left |-> [i \in 1..MaxLots |-> IF i \in Entered THEN lots[i].remaining ELSE 0],
     worth |-> Worth]
-----------------------------------------------------------------------------
Init ==
    /\ lots = <<>>
    /\ line = [l \in Lines |-> {}]
    /\ costing \in Costings
    /\ call = [c \in Connections |-> {}]
    /\ saves = 0

\* Stock received, on any day up to today: entered late, it may be the oldest.
Receive(day, qty, cost) ==
    /\ Len(lots) < MaxLots
    /\ lots' = Append(lots, [day |-> day, received |-> qty, remaining |-> qty, cost |-> cost])
    /\ UNCHANGED <<line, costing, call, saves>>

ChooseCosting(method) ==
    /\ costing # method
    /\ costing' = method
    /\ UNCHANGED <<lots, line, call, saves>>

\* The costing is read before the transaction.
Ask(c, l, draft, qty) ==
    /\ call[c] = {} /\ saves + Cardinality({d \in Connections : call[d] # {}}) < MaxSaves
    /\ IF line[l] = {} THEN \A d \in Connections : \A other \in call[d] : other.line # l
                       ELSE \E row \in line[l] : row.draft = draft /\ row.qty # qty
    /\ call' = [call EXCEPT ![c] =
           {[line |-> l, draft |-> draft, qty |-> qty, adds |-> line[l] = {},
             costing |-> costing, stage |-> "asked", shelf |-> {}]}]
    /\ UNCHANGED <<lots, line, costing, saves>>

DraftFree(d) == \A c \in Connections : \A other \in call[c] :
                    other.draft = d => other.stage = "asked"
\* Wrong: read without waiting.
MaterialAnyhow == TRUE
MaterialFree == \A c \in Connections : \A other \in call[c] : other.stage # "shelf"

\* Still a draft, and locked while the line is written.
LockDraft(c) ==
    /\ \E now \in call[c] :
        /\ now.stage = "asked" /\ DraftFree(now.draft)
        /\ call' = [call EXCEPT ![c] = {[now EXCEPT !.stage = "draft"]}]
    /\ UNCHANGED <<lots, line, costing, saves>>

\* The material locked, then the shelf read as the draw before it left it.
LockMaterial(c) ==
    /\ \E now \in call[c] :
        /\ now.stage = "draft" /\ MaterialFree
        /\ call' = [call EXCEPT ![c] = {[now EXCEPT !.stage = "shelf", !.shelf = {ShelfNow}]}]
    /\ UNCHANGED <<lots, line, costing, saves>>

\* A draw's rows, and each lot less what they take.
Off(takes) == [i \in Entered |-> [lots[i] EXCEPT !.remaining = @ - takes[i]]]
\* Wrong: what a draw gives back never reaches its lot.
OnlyOff(takes) == Off([i \in 1..MaxLots |-> IF takes[i] > 0 THEN takes[i] ELSE 0])
StockFollows(takes) == Off(takes)
LotAllows(takes) == \A i \in Entered : takes[i] <= lots[i].remaining

Write(c, now, row) ==
    /\ line' = [line EXCEPT ![now.line] = {row}]
    /\ saves' = saves + 1
    /\ call' = [call EXCEPT ![c] = {}]
    /\ UNCHANGED costing

\* fromTheShelf: a new line, drawn off the oldest lots.
Draw(c) ==
    \E now \in call[c] : \E shelf \in now.shelf :
        /\ now.adds /\ now.qty <= Total(shelf.left)
        /\ LET takes == Takes(shelf, now.qty) IN
            /\ LotAllows(takes)
            /\ lots' = StockFollows(takes)
            /\ Write(c, now, [draft |-> now.draft, qty |-> now.qty, draws |-> takes,
                              cost |-> DrawCost(shelf, now.qty, now.costing)])

\* changeLine, more: the difference drawn, as any draw is.
DrawMore(c) ==
    \E now \in call[c] : \E shelf \in now.shelf, was \in line[now.line] :
        LET more == now.qty - was.qty
            takes == Takes(shelf, more) IN
            /\ ~now.adds /\ more > 0 /\ more <= Total(shelf.left)
            /\ LotAllows(takes)
            /\ lots' = StockFollows(takes)
            /\ Write(c, now, [draft |-> was.draft, qty |-> now.qty,
                              cost |-> was.cost + DrawCost(shelf, more, now.costing),
                              draws |-> [i \in 1..MaxLots |-> was.draws[i] + takes[i]]])

\* changeLine, fewer: put back at the line's own cost of one.
PutBack(c) ==
    \E now \in call[c] : now.stage = "shelf" /\ \E was \in line[now.line] :
        LET kept == Kept(was.draws, now.qty) IN
            /\ ~now.adds /\ now.qty <= was.qty
            /\ lots' = StockFollows([i \in 1..MaxLots |-> kept[i] - was.draws[i]])
            /\ Write(c, now, [draft |-> was.draft, qty |-> now.qty, draws |-> kept,
                              cost |-> RoundDiv(was.cost * now.qty, was.qty)])

\* Short: the shelf has less than is asked for; or the line is gone.
Refuse(c) ==
    /\ \E now \in call[c] : \E shelf \in now.shelf :
        \/ now.adds /\ now.qty > Total(shelf.left)
        \/ ~now.adds /\ line[now.line] = {}
        \/ ~now.adds /\ \E was \in line[now.line] : now.qty - was.qty > Total(shelf.left)
    /\ call' = [call EXCEPT ![c] = {}]
    /\ UNCHANGED <<lots, line, costing, saves>>

\* Its draws go with it, and each goes back to its lot.  Locks the draft alone.
TakeOff(l) ==
    /\ \E row \in line[l] :
        /\ DraftFree(row.draft)
        /\ lots' = StockFollows([i \in 1..MaxLots |-> 0 - row.draws[i]])
    /\ line' = [line EXCEPT ![l] = {}]
    /\ UNCHANGED <<costing, call, saves>>

Next ==
    \/ \E day \in Days, qty \in 1..MaxQty, cost \in Costs : Receive(day, qty, cost)
    \/ \E method \in Costings : ChooseCosting(method)
    \/ \E c \in Connections, l \in Lines, draft \in Drafts, qty \in 1..MaxQty :
           Ask(c, l, draft, qty)
    \/ \E c \in Connections :
           LockDraft(c) \/ LockMaterial(c) \/ Draw(c) \/ DrawMore(c) \/ PutBack(c) \/ Refuse(c)
    \/ \E l \in Lines : TakeOff(l)

Spec == Init /\ [][Next]_vars
-----------------------------------------------------------------------------
(* Safety.                                                                 *)

DrawnOff(l, i) == IF line[l] = {} THEN 0 ELSE (CHOOSE row \in line[l] : TRUE).draws[i]

\* Stock is never counted twice: a line's draws add up to its quantity, and
\* what is left of a lot is what arrived less what is drawn off it.
StockAddsUp ==
    /\ \A l \in Lines : \A row \in line[l] : Total(row.draws) = row.qty
    /\ \A i \in Entered :
        lots[i].received - lots[i].remaining
            = SumFunctionOnSet([l \in Lines |-> DrawnOff(l, i)], Lines)

\* What is drawn adds up to what was paid: the shelf is never worth less than
\* nothing, nor anything once empty, however draws, changes and removals were
\* costed and rounded, and whatever the method was at each.
WorthLeavesWithTheLast ==
    /\ Worth >= 0
    /\ Total(ShelfNow.left) = 0 => Worth = 0

\* Two people drawing the last of a lot are told so by the shelf each reads:
\* a draw it allows is never refused by the lot's own check.
LotNeverRefuses ==
    \A c \in Connections : \A now \in call[c] : \A shelf \in now.shelf :
        /\ now.adds /\ now.qty <= Total(shelf.left) => LotAllows(Takes(shelf, now.qty))
        /\ \A was \in line[now.line] :
            /\ ~now.adds /\ now.qty > was.qty /\ now.qty - was.qty <= Total(shelf.left)
            => LotAllows(Takes(shelf, now.qty - was.qty))
=============================================================================
