--------------------------- MODULE StockShelfProofs ---------------------------
(***************************************************************************)
(* What StockShelf keeps for any finite set of lines, any drafts,          *)
(* connections, days and costs, and any bounds.                            *)
(***************************************************************************)
EXTENDS StockShelf, Sums

USE CostingsAssumption, AmountsAssumption, LinesAssumption

Lone(S) == \A a, b \in S : a = b

Busy == {c \in Connections : call[c] # {}}
OneEach ==
    /\ \A l \in Lines : Lone(line[l])
    /\ \A c \in Connections : Lone(call[c]) /\ \A now \in call[c] : Lone(now.shelf)
    /\ IsFiniteSet(Busy) /\ saves + Cardinality(Busy) <= MaxSaves

\* A line is added by one request, and while it is not there.
AddsFit ==
    \A c \in Connections : \A now \in call[c] : now.adds =>
        /\ line[now.line] = {}
        /\ \A d \in Connections : \A other \in call[d] : other.line = now.line => d = c

\* The shelf is read under the material's lock, which one request holds.
Held ==
    /\ \A c \in Connections : \A now \in call[c] : now.stage = "shelf" <=> now.shelf # {}
    /\ \A c, d \in Connections : c # d =>
        \A now \in call[c], other \in call[d] : now.shelf = {} \/ other.shelf = {}

\* What a line draws, it draws off lots there are, and costs something or nothing.
RowsFit ==
    \A l \in Lines : \A row \in line[l] :
        /\ row.cost >= 0 /\ Total(row.draws) = row.qty
        /\ \A i \in 1..MaxLots : i \notin Entered => row.draws[i] = 0

\* A shelf read is no more than what is there now: lots only gain, while it is
\* held, and what it was worth then is what it is worth if they have not.
ShelfFits(shelf) ==
    /\ \A i \in 1..MaxLots : shelf.left[i] <= ShelfNow.left[i]
    /\ 0 <= shelf.worth /\ shelf.worth <= Worth
    /\ Total(shelf.left) = Total(ShelfNow.left) => shelf.worth = Worth

ShelvesFit == \A c \in Connections : \A now \in call[c] : \A shelf \in now.shelf : ShelfFits(shelf)

IInv ==
    /\ TypeOK /\ OneEach /\ AddsFit /\ Held
    /\ RowsFit /\ StockAddsUp /\ ShelvesFit /\ WorthLeavesWithTheLast
-----------------------------------------------------------------------------
(* The shelf's lots, in the order they are drawn from.                     *)

\* The bounds are naturals, and so are the days and costs.
LEMMA Bounds == MaxQty \in Nat /\ MaxLots \in Nat /\ MaxSaves \in Nat
                /\ Days \subseteq Nat /\ Costs \subseteq Nat
  OBVIOUS

\* A lot entered holds something, and no more than the bound.
LEMMA LotFits ==
    ASSUME TypeOK, NEW i \in Entered
    PROVE  /\ lots[i].day \in Nat /\ lots[i].cost \in Nat
           /\ lots[i].received \in 1..MaxQty /\ lots[i].remaining \in 0..MaxQty
  <1>1. lots[i] \in Lot
    BY DEF TypeOK, Entered
  <1> QED BY <1>1 DEF Lot

\* The lots entered are finitely many.
LEMMA EnteredFinite ==
    ASSUME TypeOK
    PROVE  IsFiniteSet(Entered) /\ Entered \subseteq 1..MaxLots
  <1>1. Len(lots) \in Nat /\ Len(lots) <= MaxLots
    BY DEF TypeOK
  <1>2. IsFiniteSet(Entered)
    BY <1>1, FS_Interval DEF Entered
  <1> QED BY <1>1, <1>2 DEF Entered

Order == {ij \in Entered \X Entered : Older(ij[1], ij[2])}

\* The older lots come first in an order of them all.
LEMMA OrderOrders ==
    ASSUME TypeOK
    PROVE  /\ Orders(Order, Entered)
           /\ \A i \in Entered : Ahead(Order, Entered, i) = {j \in Entered : Older(j, i)}
  <1>1. \A i, j \in Entered : <<i, j>> \in Order <=> Older(i, j)
    BY DEF Order
  <1>2. \A i \in Entered : lots[i].day \in Nat /\ i \in Nat
    BY LotFits DEF Entered
  <1>3. Orders(Order, Entered)
    BY <1>1, <1>2 DEF Orders, Older
  <1>4. \A i \in Entered : Ahead(Order, Entered, i) = {j \in Entered : Older(j, i)}
    BY <1>1 DEF Ahead
  <1> QED BY <1>3, <1>4

\* What a draw takes is no more than each lot has, and is what is wanted if
\* they have it between them.
LEMMA TakesFit ==
    ASSUME TypeOK, NEW shelf, \A i \in Entered : shelf.left[i] \in Nat,
           NEW want \in Nat
    PROVE  /\ \A i \in Entered : Takes(shelf, want)[i] \in Nat
                                 /\ Takes(shelf, want)[i] <= shelf.left[i]
           /\ \A i \in 1..MaxLots : i \notin Entered => Takes(shelf, want)[i] = 0
           /\ Total(shelf.left) \in Nat
           /\ Total(Takes(shelf, want)) = Lesser(want, Total(shelf.left))
  <1> DEFINE takes == Takes(shelf, want)
  <1>1. IsFiniteSet(Entered) /\ Entered \subseteq 1..MaxLots
    BY EnteredFinite
  <1>2. \A i \in Entered : takes[i] = Share(Order, Entered, shelf.left, want, i)
    BY <1>1, OrderOrders DEF Takes, Share, SumOf, Least, Lesser
  <1>4. \A i \in 1..MaxLots : i \notin Entered => takes[i] = 0
    BY DEF Takes
  <1>5. Total(shelf.left) \in Nat
    BY <1>1, SumNat DEF Total, SumOf
  <1> DEFINE left == shelf.left
  <1> HIDE DEF takes
  <1>6. /\ \A i \in Entered : takes[i] \in Nat /\ takes[i] <= left[i]
        /\ SumOf(takes, Entered) = Lesser(want, SumOf(left, Entered))
    <2>1. Nats(left, Entered) /\ Shared(Order, Entered, left, want, takes)
      BY <1>2 DEF Nats, Shared
    <2>2. Orders(Order, Entered)
      BY OrderOrders
    <2> HIDE DEF left
    <2> QED BY <1>1, <2>1, <2>2, Served
  <1> QED BY <1>4, <1>5, <1>6 DEF takes, Total, SumOf

\* What a line keeps is no more off any lot, and as much as it wants or has.
LEMMA KeptFits ==
    ASSUME TypeOK, NEW draws, \A i \in Entered : draws[i] \in Nat, NEW want \in Nat
    PROVE  /\ \A i \in Entered : Kept(draws, want)[i] \in Nat
                                 /\ Kept(draws, want)[i] <= draws[i]
           /\ \A i \in 1..MaxLots : i \notin Entered => Kept(draws, want)[i] = 0
           /\ Total(Kept(draws, want)) = Lesser(want, Total(draws))
  <1> DEFINE kept == Kept(draws, want)
  <1>1. IsFiniteSet(Entered) /\ Entered \subseteq 1..MaxLots
    BY EnteredFinite
  <1>2. \A i \in Entered : kept[i] = Share(Order, Entered, draws, want, i)
    BY <1>1, OrderOrders DEF Kept, Share, SumOf, Least, Lesser
  <1>3. \A i \in 1..MaxLots : i \notin Entered => kept[i] = 0
    BY DEF Kept
  <1> HIDE DEF kept
  <1>4. /\ \A i \in Entered : kept[i] \in Nat /\ kept[i] <= draws[i]
        /\ SumOf(kept, Entered) = Lesser(want, SumOf(draws, Entered))
    <2>1. Nats(draws, Entered) /\ Shared(Order, Entered, draws, want, kept)
      BY <1>2 DEF Nats, Shared
    <2> QED BY <1>1, <2>1, OrderOrders, Served
  <1> QED BY <1>3, <1>4 DEF kept, Total, SumOf
-----------------------------------------------------------------------------
(* What a draw costs.                                                      *)

\* The parts a receipt is counted in divide evenly.
LEMMA PartsFit ==
    ASSUME TypeOK
    PROVE  \A i \in Entered : Parts \div lots[i].received \in Nat
  <1> DEFINE received == {lots[i].received : i \in Entered}
  <1>1. received \in SUBSET (1..MaxQty)
    BY LotFits
  <1>2. IsFiniteSet(received) /\ received \in SUBSET Nat
    <2>1. IsFiniteSet(1..MaxQty)
      BY Bounds, FS_Interval
    <2>2. IsFiniteSet(received)
      BY <1>1, <2>1, FS_Subset
    <2> QED BY <1>1, <2>2, Bounds
  <1>3. Parts \in Nat
    <2> HIDE DEF received
    <2>1. ProductSet(received) \in Nat
      BY <1>2, ProductNat
    <2> QED BY <2>1 DEF received, Parts
  <1>4. ASSUME NEW n \in Nat, NEW d \in Nat \ {0} PROVE n \div d \in Nat
    OBVIOUS
  <1>5. \A i \in Entered : lots[i].received \in Nat \ {0}
    BY LotFits, Bounds
  <1> QED BY <1>3, <1>4, <1>5

\* More of each lot costs no less by its receipt.
LEMMA ReceiptFits ==
    ASSUME TypeOK, NEW f, NEW g, \A i \in Entered : f[i] \in Nat /\ g[i] \in Nat /\ f[i] <= g[i]
    PROVE  /\ ReceiptCost(f) \in Nat /\ ReceiptCost(g) \in Nat
           /\ ReceiptCost(f) <= ReceiptCost(g)
  <1> DEFINE cost(h) == [i \in Entered |-> lots[i].cost * h[i] * (Parts \div lots[i].received)]
  <1>1. ASSUME NEW c \in Nat, NEW n \in Nat, NEW m \in Nat, NEW k \in Nat, n <= m
        PROVE  c * n * k \in Nat /\ c * m * k \in Nat /\ c * n * k <= c * m * k
    <2>1. c * n \in Nat /\ c * m \in Nat /\ c * n <= c * m
      BY <1>1
    <2> QED BY <1>1, <2>1
  <1>2. ASSUME NEW i \in Entered
        PROVE cost(f)[i] \in Nat /\ cost(g)[i] \in Nat /\ cost(f)[i] <= cost(g)[i]
    BY <1>1, LotFits, PartsFit
  <1> HIDE DEF cost
  <1>3. /\ Ints(cost(f), Entered) /\ Ints(cost(g), Entered)
        /\ Nats(cost(f), Entered) /\ Nats(cost(g), Entered)
    BY <1>2 DEF Ints, Nats
  <1>4. SumOf(cost(f), Entered) \in Nat /\ SumOf(cost(g), Entered) \in Nat
    BY <1>2, EnteredFinite, SumNat
  <1>5. SumOf(cost(f), Entered) <= SumOf(cost(g), Entered)
    BY <1>2, <1>3, EnteredFinite, SumLeq
  <1> QED BY <1>4, <1>5 DEF ReceiptCost, Total, SumOf, cost

\* A draw costs no more than the shelf is worth, and all of it if it is the last.
LEMMA DrawCostFits ==
    ASSUME TypeOK, NEW shelf, \A i \in Entered : shelf.left[i] \in Nat, shelf.worth \in Nat,
           NEW want \in Nat \ {0}, want <= Total(shelf.left), NEW method
    PROVE  /\ DrawCost(shelf, want, method) \in 0..shelf.worth
           /\ want = Total(shelf.left) => DrawCost(shelf, want, method) = shelf.worth
  <1>1. Total(shelf.left) \in Nat \ {0}
    BY TakesFit
  <1>2. Average(shelf, want) \in 0..shelf.worth
    BY <1>1, RoundShare DEF Average, RoundDiv
  <1>3. OldestFirst(shelf, want) \in 0..shelf.worth
    <2> DEFINE all == ReceiptCost(shelf.left)
               part == ReceiptCost(Takes(shelf, want))
    <2>1. all \in Nat /\ part \in Nat /\ part <= all
      <3>1. \A i \in Entered : /\ Takes(shelf, want)[i] \in Nat /\ shelf.left[i] \in Nat
                               /\ Takes(shelf, want)[i] <= shelf.left[i]
        BY TakesFit
      <3> QED BY <3>1, ReceiptFits
    <2>2. CASE all = 0
      BY <1>2, <2>2 DEF OldestFirst
    <2>3. CASE all # 0
      <3>1. OldestFirst(shelf, want) = RoundDiv(part * shelf.worth, all)
        BY <2>3 DEF OldestFirst
      <3> HIDE DEF all, part
      <3>2. part * shelf.worth = shelf.worth * part
        BY <2>1
      <3>3. (2 * (shelf.worth * part) + all) \div (2 * all) \in 0..shelf.worth
        BY <2>1, <2>3, RoundShare
      <3> QED BY <3>1, <3>2, <3>3 DEF RoundDiv
    <2> QED BY <2>2, <2>3
  <1> QED BY <1>2, <1>3 DEF DrawCost, By
-----------------------------------------------------------------------------
(* A step that gives one line other draws, and its lots what they leave.   *)

DrawsOf(rows, i) == IF rows = {} THEN 0 ELSE (CHOOSE row \in rows : TRUE).draws[i]
PaidFor(rows) == IF rows = {} THEN 0 ELSE (CHOOSE row \in rows : TRUE).cost

RowFits(row) ==
    /\ row.cost >= 0 /\ Total(row.draws) = row.qty
    /\ \A i \in 1..MaxLots : i \notin Entered => row.draws[i] = 0

Moves(l, new, off) ==
    /\ l \in Lines /\ new \in SUBSET Row /\ Lone(new) /\ \A row \in new : RowFits(row)
    /\ \A i \in Entered : /\ off[i] \in Int /\ off[i] <= lots[i].remaining
                          /\ DrawsOf(new, i) = DrawsOf(line[l], i) + off[i]
    /\ lots' = Off(off) /\ line' = [line EXCEPT ![l] = new]

\* A line has one row or none, which its draws and what it paid are of.
LEMMA DrawsFit ==
    ASSUME NEW rows \in SUBSET Row, Lone(rows), NEW i \in 1..MaxLots
    PROVE  /\ DrawsOf(rows, i) \in Nat
           /\ \A row \in rows : DrawsOf(rows, i) = row.draws[i] /\ PaidFor(rows) = row.cost
           /\ PaidFor(rows) \in Int
  <1>1. CASE rows = {}
    BY <1>1 DEF DrawsOf, PaidFor
  <1>2. CASE rows # {}
    <2>1. PICK row \in rows : TRUE
      BY <1>2
    <2>2. (CHOOSE r \in rows : TRUE) = row /\ \A r \in rows : r = row
      BY <2>1 DEF Lone
    <2>3. row.draws[i] \in Nat /\ row.cost \in Int
      BY Bounds DEF Row
    <2> QED BY <1>2, <2>2, <2>3 DEF DrawsOf, PaidFor
  <1> QED BY <1>1, <1>2

\* Drawing off the lots leaves their receipts as they were.
LEMMA OffFits ==
    ASSUME TypeOK, NEW off,
           \A i \in Entered : off[i] \in Int /\ off[i] <= lots[i].remaining,
           lots' = Off(off)
    PROVE  /\ Len(lots') = Len(lots) /\ Entered' = Entered
           /\ \A i \in Entered : /\ lots'[i].day = lots[i].day /\ lots'[i].cost = lots[i].cost
                                 /\ lots'[i].received = lots[i].received
                                 /\ lots'[i].remaining = lots[i].remaining - off[i]
                                 /\ lots'[i].remaining \in Nat
  <1>1. Len(lots) \in Nat
    BY DEF TypeOK
  <1>2. \A i \in Entered : lots[i] \in Lot
    BY DEF TypeOK, Entered
  <1>3. lots' = [i \in 1..Len(lots) |-> [lots[i] EXCEPT !.remaining = @ - off[i]]]
    BY DEF Off, Entered
  <1>4. Len(lots') = Len(lots)
    BY <1>1, <1>3
  <1>5. Entered' = Entered
    BY <1>4 DEF Entered
  <1>6. ASSUME NEW i \in Entered
        PROVE  /\ lots'[i].day = lots[i].day /\ lots'[i].cost = lots[i].cost
               /\ lots'[i].received = lots[i].received
               /\ lots'[i].remaining = lots[i].remaining - off[i]
               /\ lots'[i].remaining \in Nat
    <2>1. lots'[i] = [lots[i] EXCEPT !.remaining = @ - off[i]]
      BY <1>3 DEF Entered
    <2>2. lots[i] \in Lot /\ lots[i].remaining \in Int
      BY <1>2, LotFits
    <2> QED BY <2>1, <2>2 DEF Lot
  <1> QED BY <1>4, <1>5, <1>6

\* A line's row moved along with the lots it draws off leaves the stock adding up.
LEMMA MovedAddsUp ==
    ASSUME IInv, NEW l, NEW new, NEW off, Moves(l, new, off)
    PROVE  /\ lots' \in Seq(Lot) /\ Len(lots') = Len(lots) /\ Entered' = Entered
           /\ line' \in [Lines -> SUBSET Row]
           /\ \A k \in Lines : Lone(line'[k])
           /\ RowsFit' /\ StockAddsUp'
           /\ \A i \in Entered : lots'[i].remaining = lots[i].remaining - off[i]
                                 /\ lots'[i].cost = lots[i].cost
  <1>1. TypeOK /\ OneEach /\ RowsFit /\ StockAddsUp
    BY DEF IInv
  <1>2. /\ l \in Lines /\ new \in SUBSET Row /\ Lone(new) /\ \A row \in new : RowFits(row)
        /\ lots' = Off(off) /\ line' = [line EXCEPT ![l] = new]
        /\ \A i \in Entered : off[i] \in Int /\ off[i] <= lots[i].remaining
    BY DEF Moves
  <1>3. /\ Len(lots') = Len(lots) /\ Entered' = Entered
        /\ \A i \in Entered : /\ lots'[i].day = lots[i].day /\ lots'[i].cost = lots[i].cost
                              /\ lots'[i].received = lots[i].received
                              /\ lots'[i].remaining = lots[i].remaining - off[i]
                              /\ lots'[i].remaining \in Nat
    BY <1>1, <1>2, OffFits
  <1>4. line' \in [Lines -> SUBSET Row] /\ \A k \in Lines : Lone(line'[k])
    BY <1>1, <1>2 DEF TypeOK, OneEach
  <1>5. RowsFit'
    <2>1. ASSUME NEW k \in Lines, NEW row \in line'[k] PROVE RowFits(row)
      <3>1. CASE k = l
        BY <1>1, <1>2, <2>1, <3>1 DEF TypeOK
      <3>2. CASE k # l
        BY <1>1, <1>2, <2>1, <3>2 DEF TypeOK, RowsFit, RowFits
      <3> QED BY <3>1, <3>2
    <2> QED BY <1>3, <2>1 DEF RowsFit, RowFits, Total
  <1>6. ASSUME NEW i \in Entered
        PROVE  lots'[i].received - lots'[i].remaining
                   = SumOf([k \in Lines |-> DrawsOf(line'[k], i)], Lines)
    <2> DEFINE f == [k \in Lines |-> DrawsOf(line[k], i)]
               g == [k \in Lines |-> DrawsOf(line'[k], i)]
    <2>1. i \in 1..MaxLots
      BY <1>1, EnteredFinite
    <2>2. \A k \in Lines : line[k] \in SUBSET Row /\ Lone(line[k])
      BY <1>1 DEF TypeOK, OneEach
    <2>3. \A k \in Lines : f[k] \in Nat /\ g[k] \in Nat
      BY <1>4, <2>1, <2>2, DrawsFit
    <2>4. \A k \in Lines \ {l} : g[k] = f[k]
      BY <1>1, <1>2 DEF TypeOK
    <2>5. g[l] = f[l] + off[i]
      BY <1>1, <1>2 DEF TypeOK, Moves
    <2>6. lots[i].received - lots[i].remaining = SumOf(f, Lines)
      <3>1. \A k \in Lines : DrawnOff(k, i) = DrawsOf(line[k], i)
        BY DEF DrawnOff, DrawsOf
      <3>2. [k \in Lines |-> DrawnOff(k, i)] = f
        BY <3>1
      <3> HIDE DEF f
      <3> QED BY <1>1, <3>2 DEF StockAddsUp, SumOf
    <2>7. SumOf(g, Lines) = SumOf(f, Lines) - f[l] + g[l] /\ SumOf(f, Lines) \in Int
      <3> HIDE DEF f, g
      <3>1. Ints(f, Lines) /\ g[l] \in Int
        BY <1>2, <2>3 DEF Ints
      <3> QED BY <1>2, <2>4, <3>1, SumExcept, SumType
    <2>8. lots[i].received \in Int /\ lots[i].remaining \in Int /\ off[i] \in Int
      BY <1>1, <1>2, LotFits
    <2> HIDE DEF f, g
    <2>9. SumOf(g, Lines) = SumOf(f, Lines) + off[i]
      BY <1>2, <2>3, <2>5, <2>7, <2>8
    <2>10. lots'[i].received - lots'[i].remaining = SumOf(g, Lines)
      BY <1>3, <2>6, <2>8, <2>9
    <2> QED BY <2>10 DEF g
  <1>7. StockAddsUp'
    <2>1. \A i \in Entered, k \in Lines : DrawnOff(k, i)' = DrawsOf(line'[k], i)
      BY DEF DrawnOff, DrawsOf
    <2>2. ASSUME NEW i \in Entered
          PROVE  [k \in Lines |-> DrawnOff(k, i)'] = [k \in Lines |-> DrawsOf(line'[k], i)]
      BY <2>1
    <2>3. \A i \in Entered : lots'[i].received - lots'[i].remaining
              = SumFunctionOnSet([k \in Lines |-> DrawnOff(k, i)'], Lines)
      BY <1>6, <2>2 DEF SumOf
    <2>4. \A k \in Lines : \A row \in line'[k] : Total(row.draws)' = row.qty
      BY <1>5 DEF RowsFit
    <2> QED BY <1>3, <2>3, <2>4 DEF StockAddsUp
  <1>8. lots' \in Seq(Lot)
    <2>1. ASSUME NEW i \in Entered PROVE lots'[i] \in Lot
      <3>1. lots[i] \in Lot
        BY <1>1 DEF TypeOK, Entered
      <3>2. lots'[i] = [lots[i] EXCEPT !.remaining = @ - off[i]]
        BY <1>2 DEF Off
      <3>3. SumOf([k \in Lines |-> DrawsOf(line'[k], i)], Lines) \in Nat
        <4> DEFINE g == [k \in Lines |-> DrawsOf(line'[k], i)]
        <4>1. i \in 1..MaxLots
          BY <1>1, EnteredFinite
        <4>2. \A k \in Lines : g[k] \in Nat
          BY <1>4, <4>1, DrawsFit
        <4> HIDE DEF g
        <4>3. SumOf(g, Lines) \in Nat
          BY <4>2, SumNat
        <4> QED BY <4>3 DEF g
      <3>4. lots'[i].remaining \in 0..MaxQty
        BY <1>1, <1>3, <1>6, <3>3, LotFits, Bounds
      <3> QED BY <1>3, <3>1, <3>2, <3>4 DEF Lot
    <2>2. lots' = [i \in 1..Len(lots) |-> lots'[i]]
      BY <1>2 DEF Off, Entered
    <2>3. Len(lots) \in Nat
      BY <1>1 DEF TypeOK
    <2> QED BY <2>1, <2>2, <2>3 DEF Entered
  <1> QED BY <1>3, <1>4, <1>5, <1>7, <1>8

\* The shelf as it is now is what remains of its lots.
LEMMA NowFits ==
    ASSUME TypeOK
    PROVE  /\ \A i \in 1..MaxLots : ShelfNow.left[i] \in 0..MaxQty
           /\ \A i \in Entered : ShelfNow.left[i] = lots[i].remaining
           /\ \A i \in 1..MaxLots : i \notin Entered => ShelfNow.left[i] = 0
           /\ ShelfNow.worth = Worth
           /\ Total(ShelfNow.left) \in Nat
           /\ ShelfNow.left \in [1..MaxLots -> 0..MaxQty]
  <1>1. \A i \in Entered : lots[i].remaining \in 0..MaxQty
    BY LotFits
  <1>2. Entered \subseteq 1..MaxLots /\ IsFiniteSet(Entered)
    BY EnteredFinite
  <1>3. /\ \A i \in 1..MaxLots : ShelfNow.left[i] \in 0..MaxQty
        /\ \A i \in Entered : ShelfNow.left[i] = lots[i].remaining
        /\ \A i \in 1..MaxLots : i \notin Entered => ShelfNow.left[i] = 0
        /\ ShelfNow.worth = Worth
        /\ ShelfNow.left \in [1..MaxLots -> 0..MaxQty]
    BY <1>1, <1>2, Bounds DEF ShelfNow
  <1>4. Total(ShelfNow.left) \in Nat
    <2>1. \A i \in Entered : ShelfNow.left[i] \in Nat
      BY <1>2, <1>3, Bounds
    <2>2. SumOf(ShelfNow.left, Entered) \in Nat
      BY <1>2, <2>1, SumNat
    <2> QED BY <2>2 DEF Total, SumOf
  <1> QED BY <1>3, <1>4

\* Worth, as what was paid for the lots less what the lines cost.
LEMMA WorthIs ==
    ASSUME TypeOK, \A k \in Lines : Lone(line[k])
    PROVE  /\ SumOf([i \in Entered |-> lots[i].cost], Entered) \in Nat
           /\ Ints([k \in Lines |-> PaidFor(line[k])], Lines)
           /\ SumOf([k \in Lines |-> PaidFor(line[k])], Lines) \in Int
           /\ Worth = SumOf([i \in Entered |-> lots[i].cost], Entered)
                        - SumOf([k \in Lines |-> PaidFor(line[k])], Lines)
           /\ Worth \in Int
  <1>1. ASSUME NEW k \in Lines PROVE PaidFor(line[k]) \in Int
    <2>1. line[k] \in SUBSET Row
      BY DEF TypeOK
    <2>2. CASE line[k] = {}
      BY <2>2 DEF PaidFor
    <2>3. CASE line[k] # {}
      <3>1. (CHOOSE row \in line[k] : TRUE) \in Row
        BY <2>1, <2>3
      <3> QED BY <2>3, <3>1 DEF PaidFor, Row
    <2> QED BY <2>2, <2>3
  <1> DEFINE cost == [i \in Entered |-> lots[i].cost]
             paid == [k \in Lines |-> PaidFor(line[k])]
  <1>2. \A i \in Entered : cost[i] \in Nat
    BY LotFits
  <1>3. Ints(paid, Lines)
    BY <1>1 DEF Ints
  <1>4. Worth = SumOf(cost, Entered) - SumOf(paid, Lines)
    BY DEF Worth, Paid, Total, SumOf, CostOf, PaidFor
  <1> HIDE DEF cost, paid
  <1>5. SumOf(cost, Entered) \in Nat
    BY <1>2, EnteredFinite, SumNat
  <1>6. SumOf(paid, Lines) \in Int
    BY <1>3, SumType
  <1> QED BY <1>3, <1>4, <1>5, <1>6 DEF cost, paid

\* What the line paid comes off the shelf's worth, and what it draws off what is left.
LEMMA MovedWorth ==
    ASSUME IInv, NEW l, NEW new, NEW off, Moves(l, new, off)
    PROVE  /\ Worth \in Int /\ PaidFor(line[l]) \in Int /\ PaidFor(new) \in Int
           /\ Worth' = Worth + PaidFor(line[l]) - PaidFor(new)
           /\ Total(off) \in Int
           /\ Total(ShelfNow.left)' = Total(ShelfNow.left) - Total(off)
           /\ \A i \in Entered : ShelfNow.left'[i] = lots[i].remaining - off[i]
           /\ \A i \in 1..MaxLots : i \notin Entered => ShelfNow.left'[i] = 0
  <1>1. TypeOK /\ OneEach /\ \A k \in Lines : Lone(line[k])
    BY DEF IInv, OneEach
  <1>2. /\ l \in Lines /\ line' = [line EXCEPT ![l] = new] /\ Entered' = Entered
        /\ \A i \in Entered : /\ lots'[i].remaining = lots[i].remaining - off[i]
                              /\ lots'[i].cost = lots[i].cost /\ off[i] \in Int
    <2>1. /\ l \in Lines /\ line' = [line EXCEPT ![l] = new]
          /\ \A i \in Entered : off[i] \in Int
      BY DEF Moves
    <2>2. /\ Entered' = Entered
          /\ \A i \in Entered : /\ lots'[i].remaining = lots[i].remaining - off[i]
                                /\ lots'[i].cost = lots[i].cost
      BY MovedAddsUp
    <2> QED BY <2>1, <2>2
  <1> DEFINE f == [k \in Lines |-> PaidFor(line[k])]
             g == [k \in Lines |-> PaidFor(line'[k])]
             cost == [i \in Entered |-> lots[i].cost]
  <1>3. Worth = SumOf(cost, Entered) - SumOf(f, Lines)
        /\ SumOf(cost, Entered) \in Nat /\ SumOf(f, Lines) \in Int /\ Ints(f, Lines)
        /\ Worth \in Int
    BY <1>1, WorthIs
  <1>4. PaidFor(new) \in Int
    <2>1. new \in SUBSET Row
      BY DEF Moves
    <2>2. new # {} => (CHOOSE row \in new : TRUE) \in Row
      BY <2>1
    <2> QED BY <2>2 DEF PaidFor, Row
  <1>5. g[l] = PaidFor(new) /\ f[l] = PaidFor(line[l]) /\ \A k \in Lines \ {l} : g[k] = f[k]
    BY <1>1, <1>2 DEF TypeOK
  <1>6. Worth' = SumOf(cost, Entered) - SumOf(g, Lines)
    <2>1. [i \in Entered' |-> lots'[i].cost] = cost
      BY <1>2
    <2>2. Worth' = SumFunctionOnSet([i \in Entered' |-> lots'[i].cost], Entered')
                       - SumFunctionOnSet([k \in Lines |-> CostOf(k)'], Lines)
      BY DEF Worth, Paid, Total
    <2>3. \A k \in Lines : CostOf(k)' = PaidFor(line'[k])
      BY DEF CostOf, PaidFor
    <2>4. [k \in Lines |-> CostOf(k)'] = g
      BY <2>3
    <2> HIDE DEF g, cost
    <2> QED BY <1>2, <2>1, <2>2, <2>4 DEF SumOf
  <1>7. PaidFor(line[l]) \in Int
    BY <1>2, <1>3 DEF Ints
  <1>8. Worth' = Worth + PaidFor(line[l]) - PaidFor(new)
    <2> HIDE DEF f, g, cost
    <2>1. SumOf(g, Lines) = SumOf(f, Lines) - f[l] + g[l]
      BY <1>2, <1>3, <1>4, <1>5, SumExcept
    <2> QED BY <1>3, <1>4, <1>5, <1>6, <1>7, <2>1
  <1>9. /\ \A i \in Entered : ShelfNow.left'[i] = lots[i].remaining - off[i]
        /\ \A i \in 1..MaxLots : i \notin Entered => ShelfNow.left'[i] = 0
    BY <1>1, <1>2, EnteredFinite DEF ShelfNow
  <1>10. Total(off) \in Int /\ Total(ShelfNow.left)' = Total(ShelfNow.left) - Total(off)
    <2> DEFINE now == ShelfNow.left
               then == ShelfNow.left'
    <2>1. \A i \in Entered : now[i] = lots[i].remaining /\ lots[i].remaining \in Int
      BY <1>1, NowFits, LotFits
    <2>2. \A i \in Entered : then[i] = lots[i].remaining - off[i]
      BY <1>9
    <2>3. Total(now)' = SumOf(then, Entered) /\ Total(now) = SumOf(now, Entered)
          /\ Total(off) = SumOf(off, Entered)
      BY <1>2 DEF Total, SumOf
    <2> HIDE DEF now, then
    <2>4. \A i \in Entered : now[i] = then[i] + off[i]
      BY <1>2, <2>1, <2>2
    <2>5. Ints(then, Entered) /\ Ints(off, Entered)
      BY <1>2, <2>1, <2>2 DEF Ints
    <2>6. SumOf(now, Entered) = SumOf(then, Entered) + SumOf(off, Entered)
      BY <1>1, <2>4, <2>5, EnteredFinite, SumPlus
    <2>7. SumOf(then, Entered) \in Int /\ SumOf(off, Entered) \in Int
      BY <1>1, <2>5, EnteredFinite, SumType
    <2> QED BY <2>3, <2>6, <2>7 DEF now
  <1> QED BY <1>3, <1>4, <1>7, <1>8, <1>9, <1>10
-----------------------------------------------------------------------------
(* The steps.                                                              *)

\* With no lot and no line changed, the shelf is as it was.
LEMMA StaysAsItWas ==
    ASSUME UNCHANGED <<lots, line>>
    PROVE  /\ Entered' = Entered /\ Worth' = Worth /\ ShelfNow' = ShelfNow
           /\ RowsFit' = RowsFit /\ StockAddsUp' = StockAddsUp
           /\ WorthLeavesWithTheLast' = WorthLeavesWithTheLast
           /\ \A shelf : ShelfFits(shelf)' = ShelfFits(shelf)
  <1>1. Entered' = Entered
    BY DEF Entered
  <1>2. Worth' = Worth
    BY <1>1 DEF Worth, Paid, Total, CostOf
  <1>3. ShelfNow' = ShelfNow
    BY <1>1, <1>2 DEF ShelfNow
  <1>4. RowsFit' = RowsFit
    BY <1>1 DEF RowsFit, Total
  <1>5. StockAddsUp' = StockAddsUp
    BY <1>1 DEF StockAddsUp, Total, DrawnOff
  <1>6. WorthLeavesWithTheLast' = WorthLeavesWithTheLast
    BY <1>1, <1>2, <1>3 DEF WorthLeavesWithTheLast, Total
  <1>7. \A shelf : ShelfFits(shelf)' = ShelfFits(shelf)
    BY <1>1, <1>2, <1>3 DEF ShelfFits, Total
  <1> QED BY <1>1, <1>2, <1>3, <1>4, <1>5, <1>6, <1>7

\* A request answered or begun is one more or one less under way.
LEMMA BusyFits ==
    ASSUME TypeOK, OneEach, NEW c \in Connections, NEW new,
           call' = [call EXCEPT ![c] = new]
    PROVE  /\ new = {} /\ call[c] # {} => IsFiniteSet(Busy') /\ Cardinality(Busy') = Cardinality(Busy) - 1
           /\ new # {} /\ call[c] # {} => Busy' = Busy
           /\ new # {} /\ call[c] = {} => IsFiniteSet(Busy') /\ Cardinality(Busy') = Cardinality(Busy) + 1
           /\ Cardinality(Busy) \in Nat
  <1>1. call'[c] = new /\ \A d \in Connections \ {c} : call'[d] = call[d]
    BY DEF TypeOK
  <1>2. IsFiniteSet(Busy)
    BY DEF OneEach
  <1>3. Cardinality(Busy) \in Nat
    BY <1>2, FS_CardinalityType
  <1>4. ASSUME new = {}, call[c] # {}
        PROVE  IsFiniteSet(Busy') /\ Cardinality(Busy') = Cardinality(Busy) - 1
    <2>1. Busy' = Busy \ {c} /\ c \in Busy
      BY <1>1, <1>4 DEF Busy
    <2> QED BY <1>2, <2>1, FS_RemoveElement
  <1>5. ASSUME new # {}, call[c] # {} PROVE Busy' = Busy
    BY <1>1, <1>5 DEF Busy
  <1>6. ASSUME new # {}, call[c] = {}
        PROVE  IsFiniteSet(Busy') /\ Cardinality(Busy') = Cardinality(Busy) + 1
    <2>1. Busy' = Busy \cup {c} /\ c \notin Busy
      BY <1>1, <1>6 DEF Busy
    <2> QED BY <1>2, <2>1, FS_AddElement
  <1> QED BY <1>3, <1>4, <1>5, <1>6

\* A request carried out, under the material's lock, once it is known what the
\* shelf comes to be worth.
LEMMA WriteKeeps ==
    ASSUME IInv, NEW c \in Connections, NEW now \in call[c], now.shelf # {},
           NEW row, NEW new, new = {row}, NEW off, Moves(now.line, new, off), Write(c, now, row),
           Worth' >= 0, Total(ShelfNow.left)' = 0 => Worth' = 0
    PROVE  IInv'
  <1>1. /\ TypeOK /\ OneEach /\ AddsFit /\ Held
    BY DEF IInv
  <1>2. /\ lots' \in Seq(Lot) /\ Len(lots') = Len(lots) /\ Entered' = Entered
        /\ line' \in [Lines -> SUBSET Row] /\ (\A k \in Lines : Lone(line'[k]))
        /\ RowsFit' /\ StockAddsUp'
    BY MovedAddsUp
  <1>3. /\ call' = [call EXCEPT ![c] = {}] /\ costing' = costing /\ saves' = saves + 1
        /\ line' = [line EXCEPT ![now.line] = {row}]
    BY DEF Write
  <1>4. \A d \in Connections : call'[d] = IF d = c THEN {} ELSE call[d]
    BY <1>1, <1>3 DEF TypeOK
  <1>5. OneEach' /\ saves' \in 0..MaxSaves
    <2>1. IsFiniteSet(Busy') /\ Cardinality(Busy') = Cardinality(Busy) - 1
          /\ Cardinality(Busy) \in Nat
      BY <1>1, <1>3, BusyFits
    <2>2. saves \in 0..MaxSaves /\ saves + Cardinality(Busy) <= MaxSaves
      BY <1>1 DEF OneEach, TypeOK
    <2>3. Cardinality(Busy') \in Nat
      BY <2>1, FS_CardinalityType
    <2>4. saves' + Cardinality(Busy') <= MaxSaves /\ saves' \in 0..MaxSaves
      BY <1>3, <2>1, <2>2, <2>3, Bounds
    <2>5. \A d \in Connections : Lone(call'[d]) /\ \A r \in call'[d] : Lone(r.shelf)
      BY <1>1, <1>4 DEF OneEach, Lone
    <2> QED BY <1>2, <2>1, <2>4, <2>5 DEF OneEach
  <1>6. TypeOK'
    <2>1. call' \in [Connections -> SUBSET Call]
      BY <1>1, <1>3 DEF TypeOK
    <2> QED BY <1>1, <1>2, <1>3, <1>5, <2>1 DEF TypeOK
  <1>7. \A d \in Connections : \A r \in call'[d] : d # c /\ r \in call[d] /\ r.shelf = {}
    BY <1>1, <1>4 DEF Held
  <1>8. AddsFit'
    <2> SUFFICES ASSUME NEW d \in Connections, NEW r \in call'[d], r.adds
                 PROVE  /\ line'[r.line] = {}
                        /\ \A e \in Connections : \A other \in call'[e] :
                               other.line = r.line => e = d
      BY DEF AddsFit
    <2>1. d # c /\ r \in call[d]
      BY <1>7
    <2>2. now.line # r.line /\ line[r.line] = {}
      BY <1>1, <2>1 DEF AddsFit
    <2>3. r.line \in Lines
      BY <1>1, <2>1 DEF TypeOK, Call
    <2> QED BY <1>1, <1>3, <1>7, <2>1, <2>2, <2>3 DEF AddsFit, TypeOK
  <1>9. Held'
    BY <1>1, <1>7 DEF Held
  <1>10. ShelvesFit'
    BY <1>7 DEF ShelvesFit
  <1>11. WorthLeavesWithTheLast'
    BY DEF WorthLeavesWithTheLast
  <1> QED BY <1>2, <1>5, <1>6, <1>8, <1>9, <1>10, <1>11 DEF IInv

\* The shelf a request holds.
LEMMA HeldShelf ==
    ASSUME IInv, NEW c \in Connections, NEW now \in call[c], NEW shelf \in now.shelf
    PROVE  /\ now \in Call /\ shelf \in Shelf
           /\ shelf.worth \in Nat /\ shelf.worth <= Worth /\ Worth \in Int
           /\ \A i \in Entered : /\ shelf.left[i] \in Nat
                                 /\ shelf.left[i] <= lots[i].remaining
           /\ Total(shelf.left) \in Nat /\ Total(ShelfNow.left) \in Nat
           /\ Total(shelf.left) <= Total(ShelfNow.left)
           /\ Total(shelf.left) = Total(ShelfNow.left) => shelf.worth = Worth
  <1>1. TypeOK /\ OneEach /\ ShelfFits(shelf)
    BY DEF IInv, ShelvesFit
  <1>2. now \in Call
    BY <1>1 DEF TypeOK
  <1>3. shelf \in Shelf
    BY <1>2 DEF Call
  <1>4. Worth \in Int
    BY <1>1, WorthIs DEF OneEach
  <1>5. shelf.worth \in Nat /\ shelf.worth <= Worth
        /\ (Total(shelf.left) = Total(ShelfNow.left) => shelf.worth = Worth)
    BY <1>1, <1>3 DEF ShelfFits, Shelf
  <1>6. \A i \in Entered : /\ shelf.left[i] \in Nat /\ ShelfNow.left[i] \in Nat
                           /\ shelf.left[i] <= ShelfNow.left[i]
                           /\ shelf.left[i] <= lots[i].remaining
    <2> TAKE i \in Entered
    <2>1. i \in 1..MaxLots
      BY <1>1, EnteredFinite
    <2>2. shelf.left[i] \in 0..MaxQty
      BY <1>3, <2>1 DEF Shelf
    <2> QED BY <1>1, <2>1, <2>2, NowFits, Bounds DEF ShelfFits
  <1>7. Total(shelf.left) \in Nat /\ Total(ShelfNow.left) \in Nat
        /\ Total(shelf.left) <= Total(ShelfNow.left)
    <2> DEFINE f == shelf.left
               g == ShelfNow.left
    <2>1. \A i \in Entered : f[i] \in Nat /\ g[i] \in Nat /\ f[i] <= g[i]
      BY <1>6
    <2>2. Total(f) = SumOf(f, Entered) /\ Total(g) = SumOf(g, Entered)
      BY DEF Total, SumOf
    <2> HIDE DEF f, g
    <2>3. Ints(f, Entered) /\ Ints(g, Entered)
      BY <2>1 DEF Ints
    <2>4. SumOf(f, Entered) <= SumOf(g, Entered)
      BY <1>1, <2>1, <2>3, EnteredFinite, SumLeq
    <2>5. SumOf(f, Entered) \in Nat /\ SumOf(g, Entered) \in Nat
      BY <1>1, <2>1, EnteredFinite, SumNat
    <2> QED BY <2>2, <2>4, <2>5 DEF f, g
  <1> QED BY <1>2, <1>3, <1>4, <1>5, <1>6, <1>7

\* What is drawn costs what it may, and empties the shelf only with its worth.
LEMMA DrawnWorth ==
    ASSUME IInv, NEW c \in Connections, NEW now \in call[c], NEW shelf \in now.shelf,
           NEW want \in Nat \ {0}, want <= Total(shelf.left)
    PROVE  LET cost == DrawCost(shelf, want, now.costing) IN
           /\ cost \in Nat /\ Worth - cost >= 0
           /\ Total(ShelfNow.left) - want = 0 => Worth - cost = 0
           /\ \A i \in Entered : /\ Takes(shelf, want)[i] \in Nat
                                 /\ Takes(shelf, want)[i] <= lots[i].remaining
           /\ Total(Takes(shelf, want)) = want
           /\ \A i \in 1..MaxLots : i \notin Entered => Takes(shelf, want)[i] = 0
  <1> DEFINE cost == DrawCost(shelf, want, now.costing)
  <1>1. TypeOK
    BY DEF IInv
  <1>2. /\ shelf.worth \in Nat /\ shelf.worth <= Worth /\ Worth \in Int
        /\ \A i \in Entered : shelf.left[i] \in Nat /\ shelf.left[i] <= lots[i].remaining
        /\ Total(shelf.left) \in Nat /\ Total(ShelfNow.left) \in Nat
        /\ Total(shelf.left) <= Total(ShelfNow.left)
        /\ Total(shelf.left) = Total(ShelfNow.left) => shelf.worth = Worth
    BY HeldShelf
  <1>3. cost \in 0..shelf.worth /\ (want = Total(shelf.left) => cost = shelf.worth)
    BY <1>1, <1>2, DrawCostFits
  <1>4. /\ \A i \in Entered : Takes(shelf, want)[i] \in Nat
                              /\ Takes(shelf, want)[i] <= shelf.left[i]
        /\ \A i \in 1..MaxLots : i \notin Entered => Takes(shelf, want)[i] = 0
        /\ Total(Takes(shelf, want)) = Lesser(want, Total(shelf.left))
    BY <1>1, <1>2, TakesFit
  <1>5. Total(Takes(shelf, want)) = want
    BY <1>2, <1>4 DEF Lesser
  <1>6. \A i \in Entered : Takes(shelf, want)[i] <= lots[i].remaining
    <2> TAKE i \in Entered
    <2>1. lots[i].remaining \in Nat
      BY <1>1, LotFits, Bounds
    <2> QED BY <1>2, <1>4, <2>1
  <1>7. Total(ShelfNow.left) - want = 0 => want = Total(shelf.left) /\ shelf.worth = Worth
    BY <1>2
  <1> HIDE DEF cost
  <1>8. cost \in Nat /\ Worth - cost >= 0 /\ (Total(ShelfNow.left) - want = 0 => Worth - cost = 0)
    BY <1>2, <1>3, <1>7
  <1> QED BY <1>4, <1>5, <1>6, <1>8 DEF cost

\* A line added, with what it draws.
LEMMA DrawKeeps ==
    ASSUME IInv, NEW c \in Connections, Draw(c)
    PROVE  IInv'
  <1>0. PICK now \in call[c] : \E shelf \in now.shelf :
          LET takes == Takes(shelf, now.qty)
              row == [draft |-> now.draft, qty |-> now.qty, draws |-> takes,
                      cost |-> DrawCost(shelf, now.qty, now.costing)] IN
          /\ now.adds /\ now.qty <= Total(shelf.left)
          /\ lots' = StockFollows(takes) /\ Write(c, now, row)
    BY DEF Draw
  <1>1. PICK shelf \in now.shelf :
          LET takes == Takes(shelf, now.qty)
              row == [draft |-> now.draft, qty |-> now.qty, draws |-> takes,
                      cost |-> DrawCost(shelf, now.qty, now.costing)] IN
          /\ now.adds /\ now.qty <= Total(shelf.left)
          /\ lots' = StockFollows(takes) /\ Write(c, now, row)
    BY <1>0
  <1> DEFINE takes == Takes(shelf, now.qty)
             cost == DrawCost(shelf, now.qty, now.costing)
             row == [draft |-> now.draft, qty |-> now.qty, draws |-> takes, cost |-> cost]
             new == {row}
  <1>2. TypeOK /\ AddsFit /\ now \in Call
    BY HeldShelf DEF IInv
  <1>3. now.qty \in 1..MaxQty /\ now.qty \in Nat \ {0} /\ now.line \in Lines /\ now.draft \in Drafts
    BY <1>2, Bounds DEF Call
  <1>4. /\ cost \in Nat /\ Worth - cost >= 0
        /\ Total(ShelfNow.left) - now.qty = 0 => Worth - cost = 0
        /\ \A i \in Entered : takes[i] \in Nat /\ takes[i] <= lots[i].remaining
        /\ Total(takes) = now.qty
        /\ \A i \in 1..MaxLots : i \notin Entered => takes[i] = 0
    BY <1>1, <1>3, DrawnWorth
  <1>5. takes \in [1..MaxLots -> 0..MaxQty]
    <2>1. \A i \in 1..MaxLots : takes[i] \in 0..MaxQty
      BY <1>2, <1>4, LotFits, Bounds
    <2>2. takes = [i \in 1..MaxLots |-> takes[i]]
      BY DEF Takes
    <2> HIDE DEF takes
    <2> QED BY <2>1, <2>2
  <1>6. line[now.line] = {}
    BY <1>1, <1>2 DEF AddsFit
  <1>7. lots' = Off(takes) /\ Write(c, now, row)
    BY <1>1 DEF StockFollows
  <1> HIDE DEF takes, cost
  <1>8. row \in Row /\ RowFits(row)
    BY <1>3, <1>4, <1>5 DEF Row, RowFits
  <1>9. /\ \A i : DrawsOf(new, i) = takes[i] /\ DrawsOf({}, i) = 0
        /\ PaidFor(new) = cost /\ PaidFor({}) = 0
    <2>1. (CHOOSE r \in new : TRUE) = row /\ new # {}
      OBVIOUS
    <2>2. row.draws = takes /\ row.cost = cost
      OBVIOUS
    <2> HIDE DEF new, row
    <2>3. \A i : DrawsOf(new, i) = takes[i]
      BY <2>1, <2>2 DEF DrawsOf
    <2>4. PaidFor(new) = cost
      BY <2>1, <2>2 DEF PaidFor
    <2>5. PaidFor({}) = 0 /\ \A i : DrawsOf({}, i) = 0
      BY DEF PaidFor, DrawsOf
    <2> QED BY <2>3, <2>4, <2>5
  <1> HIDE DEF row
  <1>10. Moves(now.line, new, takes)
    <2>1. Lone(new) /\ new \in SUBSET Row /\ \A r \in new : RowFits(r)
      BY <1>8 DEF Lone
    <2>2. line' = [line EXCEPT ![now.line] = new]
      BY <1>7 DEF Write
    <2> HIDE DEF new
    <2> QED BY <1>3, <1>4, <1>6, <1>7, <1>9, <2>1, <2>2 DEF Moves
  <1>11. Worth' = Worth + 0 - cost /\ Worth \in Int
         /\ Total(ShelfNow.left)' = Total(ShelfNow.left) - now.qty
    <2> HIDE DEF new
    <2>1. /\ Worth \in Int /\ Worth' = Worth + PaidFor(line[now.line]) - PaidFor(new)
          /\ Total(ShelfNow.left)' = Total(ShelfNow.left) - Total(takes)
      BY <1>10, MovedWorth
    <2> QED BY <1>4, <1>6, <1>9, <2>1
  <1>12. Worth' >= 0 /\ (Total(ShelfNow.left)' = 0 => Worth' = 0)
    BY <1>4, <1>11
  <1> QED BY <1>1, <1>7, <1>10, <1>12, WriteKeeps

\* What one row draws and costs.
LEMMA OneRow ==
    ASSUME NEW row
    PROVE  /\ \A i : DrawsOf({row}, i) = row.draws[i]
           /\ PaidFor({row}) = row.cost /\ Lone({row})
  <1> DEFINE new == {row}
  <1>1. (CHOOSE r \in new : TRUE) = row /\ new # {} /\ Lone(new)
    BY DEF Lone
  <1> HIDE DEF new
  <1>2. PaidFor(new) = row.cost
    BY <1>1 DEF PaidFor
  <1>3. \A i : DrawsOf(new, i) = row.draws[i]
    BY <1>1 DEF DrawsOf
  <1> QED BY <1>1, <1>2, <1>3 DEF new

\* A row there is, and what its draws add up to.
LEMMA RowThere ==
    ASSUME IInv, NEW l \in Lines, NEW was \in line[l]
    PROVE  /\ was \in Row /\ was.draft \in Drafts /\ was.qty \in 1..MaxQty /\ was.qty \in Nat \ {0}
           /\ was.cost \in Nat /\ PaidFor(line[l]) = was.cost
           /\ \A i \in 1..MaxLots : /\ was.draws[i] \in Nat /\ DrawsOf(line[l], i) = was.draws[i]
                                    /\ i \notin Entered => was.draws[i] = 0
           /\ \A i \in Entered : i \in 1..MaxLots /\ was.draws[i] \in Nat
           /\ Total(was.draws) = was.qty
           /\ was.draws \in [1..MaxLots -> 0..MaxQty]
  <1>1. TypeOK /\ OneEach /\ RowsFit
    BY DEF IInv
  <1>2. was \in Row
    BY <1>1 DEF TypeOK
  <1>3. /\ was.cost >= 0 /\ was.cost \in Int /\ Total(was.draws) = was.qty
        /\ was.draft \in Drafts /\ was.qty \in 1..MaxQty
        /\ was.draws \in [1..MaxLots -> 0..MaxQty]
        /\ \A i \in 1..MaxLots : i \notin Entered => was.draws[i] = 0
    BY <1>1, <1>2 DEF RowsFit, Row
  <1>4. \A i \in 1..MaxLots : was.draws[i] \in Nat
    BY <1>3, Bounds
  <1>5. line[l] = {was}
    BY <1>1 DEF OneEach, Lone
  <1>6. PaidFor(line[l]) = was.cost /\ \A i : DrawsOf(line[l], i) = was.draws[i]
    BY <1>5, OneRow
  <1> QED BY <1>1, <1>2, <1>3, <1>4, <1>6, EnteredFinite, Bounds

\* A row that draws what it may of the lots there are, no more than MaxQty.
LEMMA RowMade ==
    ASSUME TypeOK, NEW draft \in Drafts, NEW qty \in 1..MaxQty, NEW cost \in Nat, NEW draws,
           \A i \in Entered : draws[i] \in Nat,
           \A i \in 1..MaxLots : i \notin Entered => draws[i] = 0,
           draws = [i \in 1..MaxLots |-> draws[i]], Total(draws) = qty
    PROVE  LET row == [draft |-> draft, qty |-> qty, cost |-> cost, draws |-> draws]
           IN  row \in Row /\ RowFits(row)
  <1>1. \A i \in Entered : draws[i] <= qty
    BY EnteredFinite, SumNat DEF Total, SumOf
  <1>2. \A i \in 1..MaxLots : draws[i] \in 0..MaxQty
    <2> TAKE i \in 1..MaxLots
    <2>1. CASE i \in Entered
      BY <1>1, <2>1, Bounds
    <2>2. CASE i \notin Entered
      BY <2>2, Bounds
    <2> QED BY <2>1, <2>2
  <1>3. draws \in [1..MaxLots -> 0..MaxQty]
    BY <1>2
  <1> QED BY <1>3 DEF Row, RowFits

\* A line that draws more.
LEMMA DrawMoreKeeps ==
    ASSUME IInv, NEW c \in Connections, DrawMore(c)
    PROVE  IInv'
  <1>0. PICK now \in call[c] : \E shelf \in now.shelf, was \in line[now.line] :
          LET more == now.qty - was.qty
              takes == Takes(shelf, more)
              row == [draft |-> was.draft, qty |-> now.qty,
                      cost |-> was.cost + DrawCost(shelf, more, now.costing),
                      draws |-> [i \in 1..MaxLots |-> was.draws[i] + takes[i]]] IN
          /\ more > 0 /\ more <= Total(shelf.left)
          /\ lots' = StockFollows(takes) /\ Write(c, now, row)
    BY DEF DrawMore
  <1>1. PICK shelf \in now.shelf, was \in line[now.line] :
          LET more == now.qty - was.qty
              takes == Takes(shelf, more)
              row == [draft |-> was.draft, qty |-> now.qty,
                      cost |-> was.cost + DrawCost(shelf, more, now.costing),
                      draws |-> [i \in 1..MaxLots |-> was.draws[i] + takes[i]]] IN
          /\ more > 0 /\ more <= Total(shelf.left)
          /\ lots' = StockFollows(takes) /\ Write(c, now, row)
    BY <1>0
  <1> DEFINE more == now.qty - was.qty
             takes == Takes(shelf, more)
             cost == DrawCost(shelf, more, now.costing)
             draws == [i \in 1..MaxLots |-> was.draws[i] + takes[i]]
             row == [draft |-> was.draft, qty |-> now.qty, cost |-> was.cost + cost, draws |-> draws]
  <1>2. TypeOK /\ now \in Call
    BY HeldShelf DEF IInv
  <1>3. now.qty \in 1..MaxQty /\ now.qty \in Nat \ {0} /\ now.line \in Lines
    BY <1>2, Bounds DEF Call
  <1>4. /\ was \in Row /\ was.qty \in Nat /\ was.cost \in Nat /\ was.draft \in Drafts
        /\ PaidFor(line[now.line]) = was.cost
        /\ \A i \in Entered : /\ was.draws[i] \in Nat /\ DrawsOf(line[now.line], i) = was.draws[i]
        /\ \A i \in 1..MaxLots : i \notin Entered => was.draws[i] = 0
        /\ Total(was.draws) = was.qty
    BY <1>3, RowThere
  <1>5. more \in Nat \ {0} /\ more <= Total(shelf.left)
    BY <1>1, <1>3, <1>4
  <1>6. lots' = Off(takes) /\ Write(c, now, row)
    BY <1>1 DEF StockFollows
  <1> HIDE DEF more
  <1>7. /\ cost \in Nat /\ Worth - cost >= 0
        /\ Total(ShelfNow.left) - more = 0 => Worth - cost = 0
        /\ \A i \in Entered : takes[i] \in Nat /\ takes[i] <= lots[i].remaining
        /\ Total(takes) = more
        /\ \A i \in 1..MaxLots : i \notin Entered => takes[i] = 0
    BY <1>5, DrawnWorth
  <1> HIDE DEF takes, cost
  <1>8. \A i \in Entered : draws[i] = was.draws[i] + takes[i] /\ draws[i] \in Nat
    BY <1>2, <1>4, <1>7, EnteredFinite
  <1>9. /\ \A i \in 1..MaxLots : i \notin Entered => draws[i] = 0
        /\ draws = [i \in 1..MaxLots |-> draws[i]]
    BY <1>4, <1>7
  <1>10. row = [draft |-> was.draft, qty |-> now.qty, cost |-> was.cost + cost, draws |-> draws]
    OBVIOUS
  <1> HIDE DEF draws, row
  <1>11. Total(draws) = now.qty
    <2>1. Ints(was.draws, Entered) /\ Ints(takes, Entered)
      BY <1>4, <1>7 DEF Ints
    <2>2. SumOf(draws, Entered) = SumOf(was.draws, Entered) + SumOf(takes, Entered)
      BY <1>2, <1>8, <2>1, EnteredFinite, SumPlus
    <2> QED BY <1>3, <1>4, <1>7, <2>2 DEF Total, SumOf, more
  <1>12. row \in Row /\ RowFits(row)
    <2>1. was.cost + cost \in Nat
      BY <1>4, <1>7
    <2> QED BY <1>2, <1>3, <1>4, <1>8, <1>9, <1>10, <1>11, <2>1, RowMade
  <1>13. Moves(now.line, {row}, takes)
    <2>1. line' = [line EXCEPT ![now.line] = {row}]
      BY <1>6 DEF Write
    <2>2. \A i \in Entered : DrawsOf({row}, i) = DrawsOf(line[now.line], i) + takes[i]
      <3>1. row.draws = draws
        BY <1>10
      <3>2. \A i : DrawsOf({row}, i) = draws[i]
        BY <3>1, OneRow
      <3> QED BY <1>4, <1>8, <3>2
    <2>3. \A i \in Entered : takes[i] \in Int /\ takes[i] <= lots[i].remaining
      BY <1>7
    <2> QED BY <1>3, <1>6, <1>12, <2>1, <2>2, <2>3, OneRow DEF Moves
  <1>14. Worth' = Worth - cost /\ Worth \in Int
         /\ Total(ShelfNow.left)' = Total(ShelfNow.left) - more
    <2>1. /\ Worth \in Int /\ Worth' = Worth + PaidFor(line[now.line]) - PaidFor({row})
          /\ Total(ShelfNow.left)' = Total(ShelfNow.left) - Total(takes)
      BY <1>13, MovedWorth
    <2>2. PaidFor({row}) = was.cost + cost
      BY <1>10, OneRow
    <2> QED BY <1>4, <1>7, <2>1, <2>2
  <1>15. Worth' >= 0 /\ (Total(ShelfNow.left)' = 0 => Worth' = 0)
    BY <1>7, <1>14
  <1> QED BY <1>1, <1>6, <1>13, <1>15, WriteKeeps

\* A line that puts some back.
LEMMA PutBackKeeps ==
    ASSUME IInv, NEW c \in Connections, PutBack(c)
    PROVE  IInv'
  <1>0. PICK now \in call[c] : now.stage = "shelf" /\ \E was \in line[now.line] :
          LET kept == Kept(was.draws, now.qty)
              row == [draft |-> was.draft, qty |-> now.qty, draws |-> kept,
                      cost |-> RoundDiv(was.cost * now.qty, was.qty)] IN
          /\ now.qty <= was.qty
          /\ lots' = StockFollows([i \in 1..MaxLots |-> kept[i] - was.draws[i]])
          /\ Write(c, now, row)
    BY DEF PutBack
  <1>1. PICK was \in line[now.line] :
          LET kept == Kept(was.draws, now.qty)
              row == [draft |-> was.draft, qty |-> now.qty, draws |-> kept,
                      cost |-> RoundDiv(was.cost * now.qty, was.qty)] IN
          /\ now.qty <= was.qty
          /\ lots' = StockFollows([i \in 1..MaxLots |-> kept[i] - was.draws[i]])
          /\ Write(c, now, row)
    BY <1>0
  <1> DEFINE kept == Kept(was.draws, now.qty)
             off == [i \in 1..MaxLots |-> kept[i] - was.draws[i]]
             cost == RoundDiv(was.cost * now.qty, was.qty)
             row == [draft |-> was.draft, qty |-> now.qty, cost |-> cost, draws |-> kept]
  <1>2. /\ TypeOK /\ WorthLeavesWithTheLast /\ now.shelf # {} /\ now \in Call
        /\ Worth \in Int /\ Total(ShelfNow.left) \in Nat
    <2>1. TypeOK /\ OneEach /\ Held /\ WorthLeavesWithTheLast
      BY DEF IInv
    <2> QED BY <1>0, <2>1, WorthIs, NowFits DEF Held, OneEach, TypeOK
  <1>3. now.qty \in 1..MaxQty /\ now.qty \in Nat \ {0} /\ now.line \in Lines
    BY <1>2, Bounds DEF Call
  <1>4. /\ was.qty \in Nat \ {0} /\ was.cost \in Nat /\ was.draft \in Drafts
        /\ PaidFor(line[now.line]) = was.cost
        /\ \A i \in Entered : /\ was.draws[i] \in Nat /\ DrawsOf(line[now.line], i) = was.draws[i]
                              /\ i \in 1..MaxLots
        /\ Total(was.draws) = was.qty
    BY <1>3, RowThere
  <1>5. lots' = Off(off) /\ Write(c, now, row) /\ now.qty <= was.qty
    BY <1>1 DEF StockFollows
  <1>6. /\ \A i \in Entered : kept[i] \in Nat /\ kept[i] <= was.draws[i]
        /\ \A i \in 1..MaxLots : i \notin Entered => kept[i] = 0
        /\ Total(kept) = now.qty
    <2>1. Total(kept) = Lesser(now.qty, Total(was.draws))
          /\ (\A i \in Entered : kept[i] \in Nat /\ kept[i] <= was.draws[i])
          /\ (\A i \in 1..MaxLots : i \notin Entered => kept[i] = 0)
      BY <1>2, <1>3, <1>4, KeptFits
    <2> HIDE DEF kept
    <2> QED BY <1>3, <1>4, <1>5, <2>1 DEF Lesser
  <1>7. cost \in 0..was.cost /\ (now.qty = was.qty => cost = was.cost)
    BY <1>3, <1>4, <1>5, RoundShare DEF RoundDiv
  <1>8. kept = [i \in 1..MaxLots |-> kept[i]]
    BY DEF Kept
  <1> HIDE DEF kept, cost
  <1>9. \A i \in Entered : off[i] = kept[i] - was.draws[i]
    BY <1>4
  <1> HIDE DEF off
  <1>10. row \in Row /\ RowFits(row)
    <2>1. cost \in Nat
      BY <1>4, <1>7
    <2> QED BY <1>2, <1>3, <1>4, <1>6, <1>8, <2>1, RowMade
  <1>11. row.cost = cost /\ row.draws = kept
    OBVIOUS
  <1> HIDE DEF row
  <1>12. Total(off) = now.qty - was.qty
    <2>1. Ints(was.draws, Entered) /\ Ints(off, Entered) /\ \A i \in Entered : kept[i] = was.draws[i] + off[i]
      BY <1>4, <1>6, <1>9 DEF Ints
    <2>2. SumOf(kept, Entered) = SumOf(was.draws, Entered) + SumOf(off, Entered)
      BY <1>2, <2>1, EnteredFinite, SumPlus
    <2>3. SumOf(off, Entered) \in Int
      BY <1>2, <2>1, EnteredFinite, SumType
    <2> QED BY <1>3, <1>4, <1>6, <2>2, <2>3 DEF Total, SumOf
  <1>13. Moves(now.line, {row}, off)
    <2>1. line' = [line EXCEPT ![now.line] = {row}]
      BY <1>5 DEF Write
    <2>2. ASSUME NEW i \in Entered
          PROVE  /\ DrawsOf({row}, i) = DrawsOf(line[now.line], i) + off[i]
                 /\ off[i] \in Int /\ off[i] <= lots[i].remaining
      <3>1. DrawsOf({row}, i) = kept[i]
        BY <1>11, OneRow
      <3>2. lots[i].remaining \in Nat
        BY <1>2, LotFits, Bounds
      <3> QED BY <1>4, <1>6, <1>9, <3>1, <3>2
    <2> QED BY <1>3, <1>5, <1>10, <2>1, <2>2, OneRow DEF Moves
  <1>14. Worth' = Worth + was.cost - cost
         /\ Total(ShelfNow.left)' = Total(ShelfNow.left) + was.qty - now.qty
    <2>1. /\ Worth' = Worth + PaidFor(line[now.line]) - PaidFor({row})
          /\ Total(ShelfNow.left)' = Total(ShelfNow.left) - Total(off)
      BY <1>13, MovedWorth
    <2>2. PaidFor({row}) = cost
      BY <1>11, OneRow
    <2> QED BY <1>2, <1>3, <1>4, <1>12, <2>1, <2>2
  <1>15. Worth' >= 0 /\ (Total(ShelfNow.left)' = 0 => Worth' = 0)
    <2>1. Worth >= 0 /\ (Total(ShelfNow.left) = 0 => Worth = 0)
      BY <1>2 DEF WorthLeavesWithTheLast
    <2>2. Worth' >= 0
      BY <1>2, <1>4, <1>7, <1>14, <2>1
    <2>3. ASSUME Total(ShelfNow.left)' = 0 PROVE Worth' = 0
      <3>0. \A t, a, b \in Nat : b <= a /\ t + a - b = 0 => t = 0 /\ a = b
        OBVIOUS
      <3>a. Total(ShelfNow.left) + was.qty - now.qty = 0
        BY <1>14, <2>3
      <3>1. Total(ShelfNow.left) = 0 /\ was.qty = now.qty
        BY <1>2, <1>3, <1>4, <1>5, <3>0, <3>a
      <3> QED BY <1>2, <1>4, <1>7, <1>14, <2>1, <3>1
    <2> QED BY <2>2, <2>3
  <1> QED BY <1>2, <1>5, <1>13, <1>15, WriteKeeps

\* What a step that puts stock on the shelf leaves of a shelf read before it.
LEMMA MoreFits ==
    ASSUME IInv, NEW c \in Connections, NEW now \in call[c], NEW shelf \in now.shelf,
           Worth' \in Int, Worth <= Worth', Entered \subseteq Entered',
           Entered' \subseteq 1..MaxLots, IsFiniteSet(Entered'),
           \A i \in 1..MaxLots : ShelfNow.left'[i] \in Nat /\ ShelfNow.left[i] <= ShelfNow.left'[i],
           Total(ShelfNow.left)' \in Int, Total(ShelfNow.left)' > Total(ShelfNow.left)
    PROVE  ShelfFits(shelf)'
  <1> DEFINE left == shelf.left
  <1>1. TypeOK /\ shelf \in Shelf /\ ShelfFits(shelf)
        /\ Total(left) \in Nat /\ Total(ShelfNow.left) \in Nat
        /\ Total(left) <= Total(ShelfNow.left) /\ Worth \in Int
    BY HeldShelf DEF IInv, ShelvesFit
  <1>2. left \in [1..MaxLots -> 0..MaxQty] /\ shelf.worth \in Int
    BY <1>1 DEF Shelf
  <1>3. \A i \in 1..MaxLots : left[i] <= ShelfNow.left'[i]
    <2> TAKE i \in 1..MaxLots
    <2>1. left[i] \in Nat /\ ShelfNow.left[i] \in Nat /\ left[i] <= ShelfNow.left[i]
      BY <1>1, <1>2, NowFits, Bounds DEF ShelfFits
    <2> QED BY <2>1
  <1>4. 0 <= shelf.worth /\ shelf.worth <= Worth'
    BY <1>1, <1>2 DEF ShelfFits
  <1>5. Total(left)' = Total(left)
    <2>1. \A i \in Entered' : i \in 1..MaxLots /\ left[i] \in Nat
      BY <1>2, Bounds
    <2>2. \A i \in Entered' \ Entered : left[i] = 0
      <3> TAKE i \in Entered' \ Entered
      <3>1. i \in 1..MaxLots /\ left[i] \in Nat
        BY <2>1
      <3> QED BY <1>1, <3>1, NowFits DEF ShelfFits
    <2> HIDE DEF left
    <2>3. Ints(left, Entered')
      BY <2>1 DEF Ints
    <2>4. SumOf(left, Entered') = SumOf(left, Entered)
      BY <2>2, <2>3, SumZeros
    <2> QED BY <2>4 DEF Total, SumOf
  <1> QED BY <1>1, <1>3, <1>4, <1>5 DEF ShelfFits

\* A line taken off: what it drew goes back, while another request may hold a
\* shelf read before.
LEMMA TakeOffKeeps ==
    ASSUME IInv, NEW l \in Lines, TakeOff(l)
    PROVE  IInv'
  <1>1. PICK row \in line[l] :
          /\ DraftFree(row.draft)
          /\ lots' = StockFollows([i \in 1..MaxLots |-> 0 - row.draws[i]])
    BY DEF TakeOff
  <1>2. /\ line' = [line EXCEPT ![l] = {}]
        /\ costing' = costing /\ call' = call /\ saves' = saves
    BY DEF TakeOff
  <1> DEFINE off == [i \in 1..MaxLots |-> 0 - row.draws[i]]
  <1>3. /\ TypeOK /\ OneEach /\ AddsFit /\ Held /\ WorthLeavesWithTheLast /\ ShelvesFit
        /\ Worth \in Int /\ Total(ShelfNow.left) \in Nat
    BY WorthIs, NowFits DEF IInv, OneEach
  <1>4. /\ row.qty \in Nat \ {0} /\ row.cost \in Nat /\ PaidFor(line[l]) = row.cost
        /\ \A i \in Entered : /\ row.draws[i] \in Nat /\ DrawsOf(line[l], i) = row.draws[i]
                              /\ i \in 1..MaxLots
        /\ Total(row.draws) = row.qty
    BY RowThere
  <1>5. lots' = Off(off)
    BY <1>1 DEF StockFollows
  <1>6. \A i \in Entered : off[i] = 0 - row.draws[i]
    BY <1>4
  <1> HIDE DEF off
  <1>7. Total(off) = 0 - row.qty
    <2> DEFINE zero == [i \in Entered |-> 0]
    <2>1. Ints(row.draws, Entered) /\ Ints(off, Entered)
      BY <1>4, <1>6 DEF Ints
    <2>2. \A i \in Entered : zero[i] = row.draws[i] + off[i]
      BY <1>4, <1>6
    <2>3. Ints(zero, Entered) /\ \A i \in Entered : zero[i] = 0
      BY DEF Ints
    <2> HIDE DEF zero
    <2>4. SumOf(zero, Entered) = SumOf(row.draws, Entered) + SumOf(off, Entered)
      BY <1>3, <2>1, <2>2, EnteredFinite, SumPlus
    <2>5. SumOf(zero, Entered) = 0
      <3>1. SumOf(zero, Entered) = SumOf(zero, {})
        BY <1>3, <2>3, EnteredFinite, SumZeros
      <3> QED BY <3>1, SumEmpty
    <2>6. SumOf(off, Entered) \in Int
      BY <1>3, <2>1, EnteredFinite, SumType
    <2> QED BY <1>4, <2>4, <2>5, <2>6 DEF Total, SumOf
  <1>8. Moves(l, {}, off)
    <2>1. ASSUME NEW i \in Entered
          PROVE  /\ DrawsOf({}, i) = DrawsOf(line[l], i) + off[i]
                 /\ off[i] \in Int /\ off[i] <= lots[i].remaining
      <3>1. lots[i].remaining \in Nat
        BY <1>3, LotFits, Bounds
      <3> QED BY <1>4, <1>6, <3>1 DEF DrawsOf
    <2> QED BY <1>2, <1>5, <2>1 DEF Moves, Lone
  <1>9. /\ Worth' = Worth + row.cost
        /\ Total(ShelfNow.left)' = Total(ShelfNow.left) + row.qty
        /\ \A i \in Entered : ShelfNow.left'[i] = lots[i].remaining - off[i]
        /\ \A i \in 1..MaxLots : i \notin Entered => ShelfNow.left'[i] = 0
    <2>1. /\ Worth' = Worth + PaidFor(line[l]) - PaidFor({})
          /\ Total(ShelfNow.left)' = Total(ShelfNow.left) - Total(off)
          /\ \A i \in Entered : ShelfNow.left'[i] = lots[i].remaining - off[i]
          /\ \A i \in 1..MaxLots : i \notin Entered => ShelfNow.left'[i] = 0
      BY <1>8, MovedWorth
    <2>2. PaidFor({}) = 0
      BY DEF PaidFor
    <2> QED BY <1>3, <1>4, <1>7, <2>1, <2>2
  <1>10. /\ lots' \in Seq(Lot) /\ Len(lots') = Len(lots) /\ Entered' = Entered
         /\ line' \in [Lines -> SUBSET Row] /\ (\A k \in Lines : Lone(line'[k]))
         /\ RowsFit' /\ StockAddsUp'
    BY <1>8, MovedAddsUp
  <1>11. TypeOK' /\ OneEach' /\ AddsFit' /\ Held'
    <2>1. TypeOK'
      BY <1>2, <1>3, <1>10 DEF TypeOK
    <2>2. OneEach'
      BY <1>2, <1>3, <1>10 DEF OneEach, Busy
    <2>3. \A k \in Lines : line[k] = {} => line'[k] = {}
      BY <1>2, <1>3 DEF TypeOK
    <2>4. \A c \in Connections : \A now \in call[c] : now.line \in Lines
      BY <1>3 DEF TypeOK, Call
    <2>5. AddsFit'
      BY <1>2, <1>3, <2>3, <2>4 DEF AddsFit
    <2> QED BY <1>2, <1>3, <2>1, <2>2, <2>5 DEF Held
  <1>12. WorthLeavesWithTheLast'
    <2>1. Worth' >= 0 /\ Total(ShelfNow.left)' # 0
      BY <1>3, <1>4, <1>9 DEF WorthLeavesWithTheLast
    <2> QED BY <2>1 DEF WorthLeavesWithTheLast
  <1>13. ShelvesFit'
    <2>1. \A i \in 1..MaxLots : ShelfNow.left'[i] \in Nat /\ ShelfNow.left[i] <= ShelfNow.left'[i]
      <3> TAKE i \in 1..MaxLots
      <3>1. CASE i \in Entered
        <4>1. lots[i].remaining \in Nat /\ ShelfNow.left[i] = lots[i].remaining
          BY <1>3, <3>1, LotFits, NowFits, Bounds
        <4> QED BY <1>4, <1>6, <1>9, <3>1, <4>1
      <3>2. CASE i \notin Entered
        <4>1. ShelfNow.left[i] = 0
          BY <1>3, <3>2, NowFits
        <4> QED BY <1>9, <3>2, <4>1
      <3> QED BY <3>1, <3>2
    <2>2. /\ Worth' \in Int /\ Worth <= Worth'
          /\ Total(ShelfNow.left)' \in Int /\ Total(ShelfNow.left)' > Total(ShelfNow.left)
      BY <1>3, <1>4, <1>9
    <2>3. Entered' \subseteq 1..MaxLots /\ IsFiniteSet(Entered') /\ Entered \subseteq Entered'
      BY <1>3, <1>10, EnteredFinite
    <2>4. ASSUME NEW c \in Connections, NEW now \in call[c], NEW shelf \in now.shelf
          PROVE  ShelfFits(shelf)'
      BY <2>1, <2>2, <2>3, MoreFits
    <2> QED BY <1>2, <2>4 DEF ShelvesFit
  <1> QED BY <1>10, <1>11, <1>12, <1>13 DEF IInv

\* A lot received: nothing is drawn off it yet.
LEMMA ReceiveKeeps ==
    ASSUME IInv, NEW day \in Days, NEW qty \in 1..MaxQty, NEW cost \in Costs,
           Receive(day, qty, cost)
    PROVE  IInv'
  <1> DEFINE lot == [day |-> day, received |-> qty, remaining |-> qty, cost |-> cost]
  <1>0. PICK n : n = Len(lots) + 1
    OBVIOUS
  <1>1. /\ Len(lots) < MaxLots /\ lots' = Append(lots, lot)
        /\ line' = line /\ costing' = costing /\ call' = call /\ saves' = saves
    BY DEF Receive
  <1>2. /\ TypeOK /\ OneEach /\ AddsFit /\ Held /\ WorthLeavesWithTheLast /\ ShelvesFit
        /\ RowsFit /\ StockAddsUp
        /\ Worth \in Int /\ Total(ShelfNow.left) \in Nat
    BY WorthIs, NowFits DEF IInv, OneEach
  <1>3. lot \in Lot /\ lot.cost = cost /\ lot.received = qty /\ lot.remaining = qty
        /\ cost \in Nat /\ qty \in Nat \ {0}
    BY Bounds DEF Lot
  <1> HIDE DEF lot
  <1>4. /\ lots' \in Seq(Lot) /\ Len(lots') = n /\ n \in 1..MaxLots
        /\ lots'[n] = lot /\ \A i \in Entered : lots'[i] = lots[i]
        /\ Entered' = Entered \cup {n} /\ n \notin Entered
    <2>1. lots \in Seq(Lot) /\ Len(lots) \in Nat
      BY <1>2 DEF TypeOK
    <2>2. lots' \in Seq(Lot) /\ Len(lots') = n /\ lots'[n] = lot
          /\ \A i \in Entered : lots'[i] = lots[i]
      BY <1>0, <1>1, <1>3, <2>1 DEF Entered
    <2>3. Entered' = Entered \cup {n} /\ n \notin Entered /\ n \in 1..MaxLots
      BY <1>0, <1>1, <2>1, <2>2, Bounds DEF Entered
    <2> QED BY <2>2, <2>3
  <1>5. IsFiniteSet(Entered) /\ Entered \subseteq 1..MaxLots /\ IsFiniteSet(Entered')
        /\ Entered' \subseteq 1..MaxLots
    BY <1>2, <1>4, EnteredFinite, FS_AddElement
  <1>6. \A i \in Entered' : lots'[i].cost \in Nat /\ lots'[i].remaining \in Nat
    BY <1>2, <1>3, <1>4, LotFits, Bounds
  <1>a. ASSUME NEW f, Ints(f, Entered \cup {n})
        PROVE  SumOf(f, Entered \cup {n}) = SumOf(f, Entered) + f[n]
    <2>1. IsFiniteSet(Entered) /\ n \notin Entered
      BY <1>4, <1>5
    <2> QED BY <1>a, <2>1, SumAdd
  \* What is drawn, and so what it adds up to, is what it was.
  <1>7. ASSUME NEW l \in Lines, NEW row \in line[l]
        PROVE  /\ row.draws[n] = 0 /\ Total(row.draws)' = Total(row.draws)
    <2> DEFINE f == row.draws
    <2>1. f[n] = 0 /\ \A i \in Entered : f[i] \in Nat
      BY <1>4, RowThere
    <2> HIDE DEF f
    <2>2. Ints(f, Entered \cup {n}) /\ Ints(f, Entered)
      BY <2>1 DEF Ints
    <2>3. SumOf(f, Entered \cup {n}) = SumOf(f, Entered) + f[n]
      BY <1>a, <2>2
    <2>4. SumOf(f, Entered) \in Int
      BY <1>5, <2>2, SumType
    <2>5. SumOf(f, Entered') = SumOf(f, Entered)
      BY <1>4, <2>1, <2>3, <2>4
    <2> QED BY <2>1, <2>5 DEF f, Total, SumOf
  <1>8. RowsFit'
    BY <1>1, <1>2, <1>4, <1>7 DEF RowsFit
  <1>9. StockAddsUp'
    <2>1. \A l \in Lines : \A row \in line'[l] : Total(row.draws)' = row.qty
      BY <1>8 DEF RowsFit
    <2>2. \A i, l : DrawnOff(l, i)' = DrawnOff(l, i)
      BY <1>1 DEF DrawnOff
    <2>3. ASSUME NEW i \in Entered
          PROVE  lots'[i].received - lots'[i].remaining
                     = SumFunctionOnSet([l \in Lines |-> DrawnOff(l, i)'], Lines)
      BY <1>2, <1>4, <2>2 DEF StockAddsUp
    <2>4. lots'[n].received - lots'[n].remaining
              = SumFunctionOnSet([l \in Lines |-> DrawnOff(l, n)'], Lines)
      <3> DEFINE g == [l \in Lines |-> DrawnOff(l, n)']
      <3>1. \A l \in Lines : DrawnOff(l, n) = 0
        <4> TAKE l \in Lines
        <4>1. CASE line[l] = {}
          BY <4>1 DEF DrawnOff
        <4>2. CASE line[l] # {}
          <5>1. (CHOOSE row \in line[l] : TRUE) \in line[l]
            BY <4>2
          <5> QED BY <1>7, <4>2, <5>1 DEF DrawnOff
        <4> QED BY <4>1, <4>2
      <3>2. \A l \in Lines : g[l] = 0
        BY <2>2, <3>1
      <3> HIDE DEF g
      <3>3. Ints(g, Lines)
        BY <3>2 DEF Ints
      <3>4. SumOf(g, Lines) = SumOf(g, {})
        BY <3>2, <3>3, SumZeros
      <3>5. SumOf(g, Lines) = 0
        BY <3>4, SumEmpty
      <3>6. lots'[n].received - lots'[n].remaining = 0
        BY <1>3, <1>4
      <3> QED BY <3>5, <3>6 DEF g, SumOf
    <2> QED BY <1>4, <2>1, <2>3, <2>4 DEF StockAddsUp
  <1>10. Worth' = Worth + cost
    <2> DEFINE before == [i \in Entered |-> lots[i].cost]
               after == [i \in Entered' |-> lots'[i].cost]
               paid == SumFunctionOnSet([k \in Lines |-> CostOf(k)], Lines)
    <2>1. Worth = SumOf(before, Entered) - paid
      BY DEF Worth, Paid, Total, SumOf
    <2>2. Worth' = SumOf(after, Entered') - paid
      <3>1. \A k : CostOf(k)' = CostOf(k)
        BY <1>1 DEF CostOf
      <3>2. Worth' = SumFunctionOnSet(after, Entered')
                       - SumFunctionOnSet([k \in Lines |-> CostOf(k)'], Lines)
        BY DEF Worth, Paid, Total
      <3>3. [k \in Lines |-> CostOf(k)'] = [k \in Lines |-> CostOf(k)]
        BY <3>1
      <3> HIDE DEF after
      <3> QED BY <3>2, <3>3 DEF SumOf
    <2>3. /\ \A i \in Entered' : after[i] \in Int
          /\ \A i \in Entered : after[i] = before[i] /\ before[i] \in Int
          /\ after[n] = cost
      BY <1>3, <1>4, <1>6
    <2>4. paid \in Int
      <3>1. SumOf([k \in Lines |-> PaidFor(line[k])], Lines) \in Int
        BY <1>2, WorthIs DEF OneEach
      <3>2. \A k : CostOf(k) = PaidFor(line[k])
        BY DEF CostOf, PaidFor
      <3> QED BY <3>1, <3>2 DEF SumOf
    <2> HIDE DEF before, after, paid
    <2>5. Ints(after, Entered \cup {n}) /\ Ints(before, Entered)
      BY <1>4, <2>3 DEF Ints
    <2>6. SumOf(after, Entered \cup {n}) = SumOf(after, Entered) + after[n]
      BY <1>a, <2>5
    <2>7. SumOf(after, Entered) = SumOf(before, Entered) /\ SumOf(before, Entered) \in Int
      BY <1>5, <2>3, <2>5, SumSame, SumType
    <2> QED BY <1>3, <1>4, <2>1, <2>2, <2>3, <2>4, <2>6, <2>7
  <1>11. /\ \A i \in Entered : ShelfNow.left'[i] = ShelfNow.left[i]
         /\ ShelfNow.left'[n] = qty /\ ShelfNow.left[n] = 0
         /\ \A i \in 1..MaxLots : i \notin Entered' => ShelfNow.left'[i] = 0 /\ ShelfNow.left[i] = 0
    BY <1>2, <1>3, <1>4, <1>5, NowFits DEF ShelfNow
  <1>12. Total(ShelfNow.left)' = Total(ShelfNow.left) + qty
    <2> DEFINE before == ShelfNow.left
               after == ShelfNow.left'
    <2>1. \A i \in Entered : after[i] = before[i] /\ before[i] \in Int
      <3>1. \A i \in Entered : ShelfNow.left[i] \in Int
        BY <1>2, <1>5, NowFits, Bounds
      <3> QED BY <1>11, <3>1
    <2>2. after[n] = qty
      BY <1>11
    <2>3. Total(before)' = SumOf(after, Entered') /\ Total(before) = SumOf(before, Entered)
      BY DEF Total, SumOf
    <2> HIDE DEF before, after
    <2>4. Ints(after, Entered \cup {n}) /\ Ints(before, Entered)
      BY <1>3, <2>1, <2>2 DEF Ints
    <2>5. SumOf(after, Entered \cup {n}) = SumOf(after, Entered) + after[n]
      BY <1>a, <2>4
    <2>6. SumOf(after, Entered) = SumOf(before, Entered)
      BY <1>5, <2>1, <2>4, SumSame
    <2>7. Total(before)' = Total(before) + qty
      BY <1>4, <2>2, <2>3, <2>5, <2>6
    <2> QED BY <2>7 DEF before
  <1>13. TypeOK' /\ OneEach' /\ AddsFit' /\ Held'
    <2>1. TypeOK'
      BY <1>1, <1>2, <1>4 DEF TypeOK
    <2> QED BY <1>1, <1>2, <2>1 DEF OneEach, Busy, AddsFit, Held
  <1>14. WorthLeavesWithTheLast'
    <2>1. Worth' >= 0 /\ Total(ShelfNow.left)' # 0
      BY <1>2, <1>3, <1>10, <1>12 DEF WorthLeavesWithTheLast
    <2> QED BY <2>1 DEF WorthLeavesWithTheLast
  <1>15. ShelvesFit'
    <2>1. \A i \in 1..MaxLots : ShelfNow.left'[i] \in Nat /\ ShelfNow.left[i] <= ShelfNow.left'[i]
      <3> TAKE i \in 1..MaxLots
      <3>1. ShelfNow.left[i] \in Nat
        BY <1>2, NowFits, Bounds
      <3> QED BY <1>3, <1>4, <1>11, <3>1
    <2>2. /\ Worth' \in Int /\ Worth <= Worth'
          /\ Total(ShelfNow.left)' \in Int /\ Total(ShelfNow.left)' > Total(ShelfNow.left)
      BY <1>2, <1>3, <1>10, <1>12
    <2>3. Entered \subseteq Entered'
      BY <1>4
    <2>4. ASSUME NEW c \in Connections, NEW now \in call[c], NEW shelf \in now.shelf
          PROVE  ShelfFits(shelf)'
      BY <1>5, <2>1, <2>2, <2>3, MoreFits
    <2> QED BY <1>1, <2>4 DEF ShelvesFit
  <1> QED BY <1>8, <1>9, <1>13, <1>14, <1>15 DEF IInv

\* The shelf and the lines as they were: what is left to show is about the
\* requests under way.
LEMMA CallsKeep ==
    ASSUME IInv, UNCHANGED <<lots, line>>, TypeOK', OneEach', AddsFit', Held',
           \A c \in Connections : \A now \in call'[c] : \A shelf \in now.shelf : ShelfFits(shelf)
    PROVE  IInv'
  <1>1. RowsFit' /\ StockAddsUp' /\ WorthLeavesWithTheLast'
    BY StaysAsItWas DEF IInv
  <1>2. ShelvesFit'
    BY StaysAsItWas DEF ShelvesFit
  <1> QED BY <1>1, <1>2 DEF IInv

\* A request begins.
LEMMA AskKeeps ==
    ASSUME IInv, NEW c \in Connections, NEW l \in Lines, NEW draft \in Drafts,
           NEW qty \in 1..MaxQty, Ask(c, l, draft, qty)
    PROVE  IInv'
  <1> DEFINE now == [line |-> l, draft |-> draft, qty |-> qty, adds |-> line[l] = {},
                     costing |-> costing, stage |-> "asked", shelf |-> {}]
             new == {now}
  <1>1. TypeOK /\ OneEach /\ AddsFit /\ Held /\ ShelvesFit
    BY DEF IInv
  <1>2. /\ call[c] = {} /\ saves + Cardinality(Busy) < MaxSaves
        /\ line[l] = {} => \A d \in Connections : \A other \in call[d] : other.line # l
        /\ call' = [call EXCEPT ![c] = new]
        /\ lots' = lots /\ line' = line /\ costing' = costing /\ saves' = saves
    BY DEF Ask, Busy
  <1>3. now \in Call /\ now.line = l /\ now.adds = (line[l] = {}) /\ now.stage = "asked" /\ now.shelf = {}
    BY <1>1 DEF TypeOK, Call
  <1>4. new # {} /\ Lone(new) /\ new \in SUBSET Call
    BY <1>3 DEF Lone
  <1>5. \A r \in new : r = now
    OBVIOUS
  <1> HIDE DEF now, new
  <1>6. \A d \in Connections : call'[d] = IF d = c THEN new ELSE call[d]
    BY <1>1, <1>2 DEF TypeOK
  <1>7. TypeOK'
    BY <1>1, <1>2, <1>4 DEF TypeOK
  <1>8. OneEach'
    <2>1. IsFiniteSet(Busy') /\ Cardinality(Busy') = Cardinality(Busy) + 1
          /\ Cardinality(Busy) \in Nat
      BY <1>1, <1>2, <1>4, BusyFits
    <2>2. saves' + Cardinality(Busy') <= MaxSaves
      BY <1>1, <1>2, <2>1, Bounds DEF TypeOK
    <2>3. \A d \in Connections : Lone(call'[d]) /\ \A r \in call'[d] : Lone(r.shelf)
      BY <1>1, <1>3, <1>4, <1>5, <1>6 DEF OneEach, Lone
    <2> QED BY <1>1, <1>2, <2>1, <2>2, <2>3 DEF OneEach
  <1>9. AddsFit'
    <2> SUFFICES ASSUME NEW d \in Connections, NEW r \in call'[d], r.adds
                 PROVE  /\ line[r.line] = {}
                        /\ \A e \in Connections : \A other \in call'[e] :
                               other.line = r.line => e = d
      BY <1>2 DEF AddsFit
    <2>1. CASE d = c
      <3>1. r.line = l /\ line[l] = {}
        BY <1>3, <1>5, <1>6, <2>1
      <3> QED BY <1>2, <1>6, <2>1, <3>1
    <2>2. CASE d # c
      <3>1. r \in call[d] /\ line[r.line] = {}
        BY <1>1, <1>6, <2>2 DEF AddsFit
      <3>2. r.line # l
        BY <1>2, <3>1
      <3> QED BY <1>1, <1>3, <1>5, <1>6, <3>1, <3>2 DEF AddsFit
    <2> QED BY <2>1, <2>2
  <1>10. Held'
    <2>1. ASSUME NEW d \in Connections, NEW r \in call'[d]
          PROVE  r.stage = "shelf" <=> r.shelf # {}
      BY <1>1, <1>3, <1>5, <1>6 DEF Held
    <2>2. ASSUME NEW d \in Connections, NEW e \in Connections, d # e,
                 NEW r \in call'[d], NEW other \in call'[e]
          PROVE  r.shelf = {} \/ other.shelf = {}
      BY <1>1, <1>3, <1>5, <1>6, <2>2 DEF Held
    <2> QED BY <2>1, <2>2 DEF Held
  <1>11. \A d \in Connections : \A r \in call'[d] : \A shelf \in r.shelf : ShelfFits(shelf)
    BY <1>1, <1>3, <1>5, <1>6 DEF ShelvesFit
  <1> QED BY <1>2, <1>7, <1>8, <1>9, <1>10, <1>11, CallsKeep

\* A request further on.
LEMMA StageKeeps ==
    ASSUME IInv, NEW c \in Connections, NEW now \in call[c], NEW then \in Call,
           then.line = now.line, then.adds = now.adds, Lone(then.shelf),
           then.stage = "shelf" <=> then.shelf # {},
           then.shelf # {} => MaterialFree,
           \A shelf \in then.shelf : ShelfFits(shelf),
           call' = [call EXCEPT ![c] = {then}], UNCHANGED <<lots, line, costing, saves>>
    PROVE  IInv'
  <1> DEFINE new == {then}
  <1>1. TypeOK /\ OneEach /\ AddsFit /\ Held /\ ShelvesFit
    BY DEF IInv
  <1>2. new # {} /\ Lone(new) /\ new \in SUBSET Call /\ \A r \in new : r = then
    BY DEF Lone
  <1>3. call' = [call EXCEPT ![c] = new]
    OBVIOUS
  <1> HIDE DEF new
  <1>4. \A d \in Connections : call'[d] = IF d = c THEN new ELSE call[d]
    BY <1>1, <1>3 DEF TypeOK
  <1>5. TypeOK'
    BY <1>1, <1>2, <1>3 DEF TypeOK
  <1>6. OneEach'
    <2>1. Busy' = Busy
      BY <1>1, <1>2, <1>3, BusyFits
    <2>2. \A d \in Connections : Lone(call'[d]) /\ \A r \in call'[d] : Lone(r.shelf)
      BY <1>1, <1>2, <1>4 DEF OneEach, Lone
    <2> QED BY <1>1, <2>1, <2>2 DEF OneEach
  <1>7. AddsFit'
    <2>1. \A d \in Connections : \A r \in call'[d] :
              \E was \in call[d] : was.line = r.line /\ was.adds = r.adds
      BY <1>2, <1>4
    <2> QED BY <1>1, <2>1 DEF AddsFit
  <1>8. Held'
    <2>1. ASSUME NEW d \in Connections, NEW r \in call'[d]
          PROVE  r.stage = "shelf" <=> r.shelf # {}
      BY <1>1, <1>2, <1>4 DEF Held
    <2>2. ASSUME NEW d \in Connections, NEW e \in Connections, d # e,
                 NEW r \in call'[d], NEW other \in call'[e]
          PROVE  r.shelf = {} \/ other.shelf = {}
      <3>1. \A k \in Connections \ {c} : \A s \in call'[k] :
                s \in call[k] /\ (then.shelf # {} => s.shelf = {})
        BY <1>1, <1>4 DEF Held, MaterialFree
      <3>2. \A s \in call'[c] : s = then
        BY <1>2, <1>4
      <3>3. CASE d = c
        BY <2>2, <3>1, <3>2, <3>3
      <3>4. CASE e = c
        BY <2>2, <3>1, <3>2, <3>4
      <3>5. CASE d # c /\ e # c
        BY <1>1, <2>2, <3>1, <3>5 DEF Held
      <3> QED BY <3>3, <3>4, <3>5
    <2> QED BY <2>1, <2>2 DEF Held
  <1>9. \A d \in Connections : \A r \in call'[d] : \A shelf \in r.shelf : ShelfFits(shelf)
    BY <1>1, <1>2, <1>4 DEF ShelvesFit
  <1> QED BY <1>5, <1>6, <1>7, <1>8, <1>9, CallsKeep

\* It locks its draft.
LEMMA LockDraftKeeps ==
    ASSUME IInv, NEW c \in Connections, LockDraft(c)
    PROVE  IInv'
  <1>1. PICK now \in call[c] : /\ now.stage = "asked"
                               /\ call' = [call EXCEPT ![c] = {[now EXCEPT !.stage = "draft"]}]
    BY DEF LockDraft
  <1>2. TypeOK /\ OneEach /\ Held /\ now \in Call
    BY DEF IInv, TypeOK
  <1>3. now.shelf = {}
    BY <1>1, <1>2 DEF Held
  <1> DEFINE then == [now EXCEPT !.stage = "draft"]
  <1>4. /\ then \in Call /\ then.line = now.line /\ then.adds = now.adds
        /\ then.shelf = now.shelf /\ then.stage = "draft"
    BY <1>2 DEF Call
  <1> HIDE DEF then
  <1>5. Lone(then.shelf)
    BY <1>3, <1>4 DEF Lone
  <1>6. call' = [call EXCEPT ![c] = {then}] /\ UNCHANGED <<lots, line, costing, saves>>
    BY <1>1 DEF LockDraft, then
  <1> QED BY <1>3, <1>4, <1>5, <1>6, StageKeeps

\* It locks the material, and reads the shelf.
LEMMA LockMaterialKeeps ==
    ASSUME IInv, NEW c \in Connections, LockMaterial(c)
    PROVE  IInv'
  <1>1. PICK now \in call[c] :
          /\ MaterialFree
          /\ call' = [call EXCEPT ![c] = {[now EXCEPT !.stage = "shelf", !.shelf = {ShelfNow}]}]
    BY DEF LockMaterial
  <1>2. TypeOK /\ OneEach /\ WorthLeavesWithTheLast /\ now \in Call
    BY DEF IInv, TypeOK
  <1>3. ShelfNow \in Shelf /\ ShelfFits(ShelfNow)
    <2>1. Worth \in Int
      BY <1>2, WorthIs DEF OneEach
    <2>2. /\ ShelfNow.left \in [1..MaxLots -> 0..MaxQty] /\ ShelfNow.worth = Worth
          /\ \A i \in 1..MaxLots : ShelfNow.left[i] \in 0..MaxQty
      BY <1>2, NowFits
    <2>3. ShelfNow \in Shelf
      BY <2>1, <2>2 DEF ShelfNow, Shelf
    <2>4. ShelfFits(ShelfNow)
      BY <1>2, <2>1, <2>2, Bounds DEF ShelfFits, WorthLeavesWithTheLast
    <2> QED BY <2>3, <2>4
  <1> DEFINE then == [now EXCEPT !.stage = "shelf", !.shelf = {ShelfNow}]
             shelves == {ShelfNow}
  <1>4. shelves \in SUBSET Shelf /\ shelves # {} /\ Lone(shelves)
        /\ \A shelf \in shelves : ShelfFits(shelf)
    BY <1>3 DEF Lone
  <1> HIDE DEF shelves
  <1>5. /\ then \in Call /\ then.line = now.line /\ then.adds = now.adds
        /\ then.shelf = shelves /\ then.stage = "shelf"
    <2>1. then = [now EXCEPT !.stage = "shelf", !.shelf = shelves]
      BY DEF shelves
    <2> HIDE DEF then
    <2> QED BY <1>2, <1>4, <2>1 DEF Call
  <1> HIDE DEF then
  <1>6. call' = [call EXCEPT ![c] = {then}] /\ UNCHANGED <<lots, line, costing, saves>>
    BY <1>1 DEF LockMaterial, then
  <1> QED BY <1>1, <1>4, <1>5, <1>6, StageKeeps

\* It is refused for want of stock.
LEMMA RefuseKeeps ==
    ASSUME IInv, NEW c \in Connections, Refuse(c)
    PROVE  IInv'
  <1>1. /\ call[c] # {} /\ call' = [call EXCEPT ![c] = {}]
        /\ UNCHANGED <<lots, line, costing, saves>>
    BY DEF Refuse
  <1>2. TypeOK /\ OneEach /\ AddsFit /\ Held /\ ShelvesFit
    BY DEF IInv
  <1>3. \A d \in Connections : call'[d] = IF d = c THEN {} ELSE call[d]
    BY <1>1, <1>2 DEF TypeOK
  <1>4. TypeOK'
    BY <1>1, <1>2 DEF TypeOK
  <1>5. OneEach'
    <2>1. IsFiniteSet(Busy') /\ Cardinality(Busy') = Cardinality(Busy) - 1
          /\ Cardinality(Busy) \in Nat
      BY <1>1, <1>2, BusyFits
    <2>2. saves' + Cardinality(Busy') <= MaxSaves
      BY <1>1, <1>2, <2>1, Bounds DEF OneEach, TypeOK
    <2>3. \A d \in Connections : Lone(call'[d]) /\ \A r \in call'[d] : Lone(r.shelf)
      BY <1>2, <1>3 DEF OneEach, Lone
    <2> QED BY <1>1, <1>2, <2>1, <2>2, <2>3 DEF OneEach
  <1>6. \A d \in Connections : call'[d] \subseteq call[d]
    BY <1>3
  <1>7. AddsFit' /\ Held'
    BY <1>1, <1>2, <1>6 DEF AddsFit, Held
  <1>8. \A d \in Connections : \A r \in call'[d] : \A shelf \in r.shelf : ShelfFits(shelf)
    BY <1>2, <1>6 DEF ShelvesFit
  <1> QED BY <1>1, <1>4, <1>5, <1>7, <1>8, CallsKeep
-----------------------------------------------------------------------------
(* What follows.                                                           *)

\* Nothing received, nothing drawn.
LEMMA InitFits == Init => IInv
  <1> SUFFICES ASSUME Init PROVE IInv
    OBVIOUS
  <1>1. lots = <<>> /\ Len(lots) = 0 /\ Entered = {}
    BY DEF Init, Entered
  <1>2. /\ \A l \in Lines : line[l] = {}
        /\ \A c \in Connections : call[c] = {}
        /\ Busy = {}
    BY DEF Init, Busy
  <1>3. TypeOK
    BY <1>1, Bounds DEF Init, TypeOK
  <1>4. OneEach
    BY <1>2, FS_EmptySet, Bounds DEF OneEach, Lone, Init
  <1>5. Worth = 0
    <2> DEFINE paid == [k \in Lines |-> PaidFor(line[k])]
    <2>1. Ints(paid, Lines) /\ \A k \in Lines : paid[k] = 0
      BY <1>2 DEF Ints, PaidFor
    <2>2. Worth = SumOf([i \in Entered |-> lots[i].cost], Entered) - SumOf(paid, Lines)
      BY <1>3, <1>4, WorthIs DEF OneEach
    <2> HIDE DEF paid
    <2>3. SumOf(paid, Lines) = SumOf(paid, {})
      BY <2>1, SumZeros
    <2> QED BY <1>1, <2>2, <2>3, SumEmpty
  <1>6. StockAddsUp /\ RowsFit /\ ShelvesFit /\ AddsFit /\ Held
    BY <1>1, <1>2 DEF StockAddsUp, RowsFit, ShelvesFit, AddsFit, Held
  <1>7. WorthLeavesWithTheLast
    BY <1>5 DEF WorthLeavesWithTheLast
  <1> QED BY <1>3, <1>4, <1>6, <1>7 DEF IInv

\* Every step keeps the inductive invariant.
LEMMA StepKeeps == IInv /\ [Next]_vars => IInv'
  <1> SUFFICES ASSUME IInv, [Next]_vars PROVE IInv'
    OBVIOUS
  <1>1. ASSUME NEW day \in Days, NEW qty \in 1..MaxQty, NEW cost \in Costs,
               Receive(day, qty, cost)
        PROVE  IInv'
    BY <1>1, ReceiveKeeps
  <1>2. ASSUME NEW method \in Costings, ChooseCosting(method) PROVE IInv'
    <2>1. /\ TypeOK /\ OneEach /\ AddsFit /\ Held /\ ShelvesFit
          /\ UNCHANGED <<lots, line, call, saves>> /\ costing' \in Costings
      BY <1>2 DEF IInv, ChooseCosting
    <2>2. TypeOK'
      BY <2>1 DEF TypeOK
    <2>3. OneEach' /\ AddsFit' /\ Held'
      BY <2>1 DEF OneEach, Busy, AddsFit, Held
    <2> QED BY <2>1, <2>2, <2>3, CallsKeep DEF ShelvesFit
  <1>3. ASSUME NEW c \in Connections, NEW l \in Lines, NEW draft \in Drafts,
               NEW qty \in 1..MaxQty, Ask(c, l, draft, qty)
        PROVE  IInv'
    BY <1>3, AskKeeps
  <1>4. ASSUME NEW c \in Connections,
               LockDraft(c) \/ LockMaterial(c) \/ Draw(c) \/ DrawMore(c) \/ PutBack(c) \/ Refuse(c)
        PROVE  IInv'
    BY <1>4, LockDraftKeeps, LockMaterialKeeps, DrawKeeps, DrawMoreKeeps, PutBackKeeps, RefuseKeeps
  <1>5. ASSUME NEW l \in Lines, TakeOff(l) PROVE IInv'
    BY <1>5, TakeOffKeeps
  <1>6. CASE UNCHANGED vars
    <2>1. /\ TypeOK /\ OneEach /\ AddsFit /\ Held /\ ShelvesFit
          /\ UNCHANGED <<lots, line, costing, call, saves>>
      BY <1>6 DEF IInv, vars
    <2>2. TypeOK' /\ OneEach' /\ AddsFit' /\ Held'
      BY <2>1 DEF TypeOK, OneEach, Busy, AddsFit, Held
    <2> QED BY <2>1, <2>2, CallsKeep DEF ShelvesFit
  <1> QED BY <1>1, <1>2, <1>3, <1>4, <1>5, <1>6 DEF Next

\* The inductive invariant holds of every state there comes to be.
THEOREM Inductive == Spec => []IInv
  BY InitFits, StepKeeps, PTL DEF Spec

\* Every variable keeps its type: no lot is drawn below nothing or filled above
\* what arrived, and no row draws more than a row may hold.
THEOREM TypeCorrect == Spec => []TypeOK
  <1>1. IInv => TypeOK
    BY DEF IInv
  <1> QED BY <1>1, Inductive, PTL

\* However draws, changes, removals and receipts interleave, a line's draws add
\* up to its quantity, and a lot is short of what arrived by what is drawn off
\* it: src/lib/server/stock.ts and the triggers keep the two in step.
THEOREM StockIsNeverCountedTwice == Spec => []StockAddsUp
  <1>1. IInv => StockAddsUp
    BY DEF IInv
  <1> QED BY <1>1, Inductive, PTL

\* The shelf is never worth less than nothing, and an empty one is worth
\* nothing: drawCost rounds, takes the last draw whole, and what is put back is
\* costed at the line's own cost of one.
THEOREM NoWorthIsLeftOver == Spec => []WorthLeavesWithTheLast
  <1>1. IInv => WorthLeavesWithTheLast
    BY DEF IInv
  <1> QED BY <1>1, Inductive, PTL

\* A draw the shelf read under the material's lock has enough for is one every
\* lot's own check allows, whatever was received or taken off meanwhile.
THEOREM TheLotAgrees == Spec => []LotNeverRefuses
  <1>1. ASSUME IInv, NEW c \in Connections, NEW now \in call[c], NEW shelf \in now.shelf,
               NEW want \in Nat \ {0}, want <= Total(shelf.left)
        PROVE  LotAllows(Takes(shelf, want))
    BY <1>1, DrawnWorth DEF LotAllows
  <1>2. ASSUME IInv PROVE LotNeverRefuses
    <2> SUFFICES ASSUME NEW c \in Connections, NEW now \in call[c], NEW shelf \in now.shelf
                 PROVE  /\ now.qty <= Total(shelf.left) => LotAllows(Takes(shelf, now.qty))
                        /\ \A was \in line[now.line] :
                               now.qty > was.qty /\ now.qty - was.qty <= Total(shelf.left)
                                   => LotAllows(Takes(shelf, now.qty - was.qty))
      BY DEF LotNeverRefuses
    <2>1. now \in Call
      BY <1>2, HeldShelf
    <2>2. now.qty \in Nat \ {0} /\ now.line \in Lines
      BY <2>1, Bounds DEF Call
    <2>3. ASSUME NEW was \in line[now.line], now.qty > was.qty
          PROVE  now.qty - was.qty \in Nat \ {0}
      <3>1. was.qty \in Nat
        BY <1>2, <2>2, RowThere
      <3> QED BY <2>2, <2>3, <3>1
    <2> QED BY <1>1, <1>2, <2>2, <2>3
  <1>3. IInv => LotNeverRefuses
    BY <1>2
  <1> QED BY <1>3, Inductive, PTL
=============================================================================
