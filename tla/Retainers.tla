------------------------------ MODULE Retainers ------------------------------
(***************************************************************************)
(* What a client's retainers cover of the work done for them: the time     *)
(* entries, the agreements, the periods charged under them, and the        *)
(* coverage worked out from all three whenever it is asked for             *)
(* (src/lib/server/valuation/entries.ts and load.ts, src/routes/api/       *)
(* agreements).                                                            *)
(*                                                                         *)
(* One client: an entry and an agreement of two clients never meet.        *)
(* Nothing in src writes a period charged, so Charge is external.          *)
(***************************************************************************)
EXTENDS Integers, SequencesExt

CONSTANTS
    Ids,            \* entries, in the order they are recorded
    Agreements,
    Works,          \* what an entry may say
    Deals,          \* what an agreement may say
    Charges         \* what a period may be: its days, and what it charged

AtMostOne(S) == \A x, y \in S : x = y

ASSUME IdsAssumption == Ids \subseteq Nat /\ IsFiniteSet(Ids)
ASSUME WorksAssumption ==
    \A w \in Works : /\ w.day \in Int /\ w.seconds \in Nat /\ w.heads \in Nat
                     /\ w.billable \in BOOLEAN
                     /\ \A deal \in Deals : w.service \in DOMAIN deal.covers
ASSUME DealsAssumption ==
    \A deal \in Deals :
        /\ AtMostOne(deal.site) /\ deal.starts \in Int /\ deal.ends \subseteq Int
        /\ \A s \in DOMAIN deal.covers : \A t \in deal.covers[s] :
               t.pool \subseteq Nat /\ AtMostOne(t.pool)
ASSUME ChargesAssumption ==
    \A p \in Charges : p.start \in Int /\ p.end \in Int /\ p.charge \in Nat

VARIABLES
    entries,        \* id: the work, if it is there
    agreements,     \* agreement: what it says, if it is there
    rows,           \* the order the database has the agreements in
    periods         \* agreement: the periods charged under it

vars == <<entries, agreements, rows, periods>>

TypeOK ==
    /\ entries \in [Ids -> SUBSET Works]
    /\ agreements \in [Agreements -> SUBSET Deals]
    /\ rows \in Seq(Agreements) /\ IsInjective(rows)
    /\ ToSet(rows) = {a \in Agreements : agreements[a] # {}}
    /\ periods \in [Agreements -> SUBSET Charges]
    /\ \A a \in Agreements : periods[a] # {} => agreements[a] # {}
-----------------------------------------------------------------------------
Init ==
    /\ entries = [i \in Ids |-> {}]
    /\ agreements = [a \in Agreements |-> {}]
    /\ rows = <<>>
    /\ periods = [a \in Agreements |-> {}]

RecordEntry(i, work) ==
    /\ \A j \in Ids : j >= i => entries[j] = {}
    /\ entries' = [entries EXCEPT ![i] = {work}]
    /\ UNCHANGED <<agreements, rows, periods>>

DeleteEntry(i) ==
    /\ entries[i] # {}
    /\ entries' = [entries EXCEPT ![i] = {}]
    /\ UNCHANGED <<agreements, rows, periods>>

MakeAgreement(a, deal) ==
    /\ agreements[a] = {}
    /\ \A s \in DOMAIN deal.covers : deal.covers[s] = {}    \* what it covers is added after
    /\ agreements' = [agreements EXCEPT ![a] = {deal}]
    /\ rows' = Append(rows, a)
    /\ UNCHANGED <<entries, periods>>

RowsWithout(a) == RemoveAt(rows, CHOOSE k \in DOMAIN rows : rows[k] = a)

\* A row changed may come back from the database at another place.
Rewrite(a, deal) ==
    /\ \E old \in agreements[a] : old # deal
    /\ agreements' = [agreements EXCEPT ![a] = {deal}]
    /\ rows' \in {rows, Append(RowsWithout(a), a)}
    /\ UNCHANGED <<entries, periods>>

\* PATCH: when it runs.
MoveAgreement(a, deal) ==
    /\ \E old \in agreements[a] : old.site = deal.site /\ old.covers = deal.covers
    /\ Rewrite(a, deal)

\* PUT and DELETE of what it covers: a row of its own, the agreement's stays.
CoverService(a, deal) ==
    /\ \E old \in agreements[a] :
        /\ old # deal
        /\ \E s \in DOMAIN deal.covers :
            deal = [old EXCEPT !.covers = [@ EXCEPT ![s] = deal.covers[s]]]
    /\ agreements' = [agreements EXCEPT ![a] = {deal}]
    /\ UNCHANGED <<entries, rows, periods>>

\* The foreign key of a period restricts.
ChargedUnder(a) == periods[a] # {}

RemoveAgreement(a) ==
    /\ agreements[a] # {} /\ ~ChargedUnder(a)
    /\ agreements' = [agreements EXCEPT ![a] = {}]
    /\ rows' = RowsWithout(a)
    /\ UNCHANGED <<entries, periods>>

Within(day, p) == p.start <= day /\ day <= p.end

\* A period of an agreement, charged: within it, and apart from its others.
Charge(a, p) ==
    /\ \E deal \in agreements[a] :
        deal.starts <= p.start /\ \A end \in deal.ends : p.end <= end
    /\ \A q \in periods[a] : p.end < q.start \/ q.end < p.start
    /\ periods' = [periods EXCEPT ![a] = @ \cup {p}]
    /\ UNCHANGED <<entries, agreements, rows>>

Next ==
    \/ \E i \in Ids : (\E work \in Works : RecordEntry(i, work)) \/ DeleteEntry(i)
    \/ \E a \in Agreements :
        \/ \E deal \in Deals :
            MakeAgreement(a, deal) \/ MoveAgreement(a, deal) \/ CoverService(a, deal)
        \/ RemoveAgreement(a)
        \/ \E p \in Charges : Charge(a, p)

Spec == Init /\ [][Next]_vars
-----------------------------------------------------------------------------
(* What a set of entries, read together, is found to be covered for.       *)

There == {i \in Ids : entries[i] # {}}
Work(i) == CHOOSE w \in entries[i] : TRUE
Deal(a) == CHOOSE d \in agreements[a] : TRUE

\* An agreement that names the work's service and is running on its day, its
\* site's or the client's.
Reaches(a, i) ==
    /\ Deal(a).site \in {{}, Work(i).site}
    /\ Deal(a).starts <= Work(i).day
    /\ \A end \in Deal(a).ends : Work(i).day <= end
    /\ Deal(a).covers[Work(i).service] # {}

\* Wrong: the latest to start, a site's own or not.
LaterOnly(a, b) == Deal(a).starts > Deal(b).starts
Closer(a, b) ==
    \/ Deal(a).site # {} /\ Deal(b).site = {}
    \/ (Deal(a).site # {} <=> Deal(b).site # {}) /\ Deal(a).starts > Deal(b).starts

AgreementFor(i) ==
    FoldLeft(LAMBDA best, a :
                 IF Reaches(a, i) /\ \A b \in best : Closer(a, b) THEN {a} ELSE best,
             {}, rows)

Hit(i) == IF Work(i).billable THEN AgreementFor(i) ELSE {}

PeriodFor(i) == {x \in Hit(i) \X Charges : x[2] \in periods[x[1]] /\ Within(Work(i).day, x[2])}

Allotment(i) == CHOOSE t \in UNION {Deal(a).covers[Work(i).service] : a \in Hit(i)} : TRUE
Capped(i) == Hit(i) # {} /\ Allotment(i).pool # {}

\* Wrong: in the order they were recorded.
Recorded(i, j) == i < j
\* The order the work was done; within a day, the order it was recorded.
Before(i, j) == Work(i).day < Work(j).day \/ (Work(i).day = Work(j).day /\ i < j)

\* The entries among read that draw from the pool this one draws from.
Drawn(i, read) ==
    {j \in read : Capped(j) /\ PeriodFor(j) = PeriodFor(i) /\ Work(j).service = Work(i).service}

Seconds(S) == SumFunctionOnSet([i \in S |-> Work(i).seconds], S)

\* Wrong: what is left may be less than nothing.
LeftUnbounded(i, size, drawn) ==
    IF Work(i).seconds < size - drawn THEN Work(i).seconds ELSE size - drawn
\* What the pool has left for the entry, once what was done before is drawn.
Left(i, size, drawn) ==
    IF drawn >= size THEN 0
    ELSE IF Work(i).seconds < size - drawn THEN Work(i).seconds ELSE size - drawn

\* The seconds covered; not known where a pool's period is not charged yet.
Covered(i, read) ==
    IF Hit(i) = {} THEN {0}
    ELSE IF ~Capped(i) THEN {Work(i).seconds}
    ELSE {Left(i, size, Seconds({j \in Drawn(i, read) : Before(j, i)})) :
              size \in IF PeriodFor(i) = {} THEN {} ELSE Allotment(i).pool}

CoveredSeconds(i, read) == CHOOSE s \in Covered(i, read) : TRUE
Under(charged, read) == {i \in read : PeriodFor(i) = charged}

\* Wrong: by the entry, however many worked it.
ByTheEntry(charged, read) ==
    SumFunctionOnSet([i \in Under(charged, read) |-> CoveredSeconds(i, read)], Under(charged, read))
\* Each person's seconds a period covers, which its charge is divided by.
PersonSeconds(charged, read) ==
    SumFunctionOnSet([i \in Under(charged, read) |-> Work(i).heads * CoveredSeconds(i, read)],
                     Under(charged, read))

\* Half a unit or more goes up.
Rounded(n, d) == (2 * n + d) \div (2 * d)

\* Its part of the charge, for everyone on it, to the currency's places: none
\* where nobody is on any of the work.
CoveredShare(i, read) ==
    {Rounded(x[2].charge * s * Work(i).heads, PersonSeconds({x}, read)) :
        x \in {y \in PeriodFor(i) : PersonSeconds({y}, read) > 0},
        s \in Covered(i, read) \ {0}}

\* Wrong: the entries of the periods the asked fall under, of those services.
OfTheServices(asked) ==
    {i \in There : /\ Work(i).billable
                   /\ \E j \in asked : Work(i).service = Work(j).service
                   /\ \E a \in Agreements : \E p \in periods[a] :
                        Within(Work(i).day, p) /\ \E j \in asked : Within(Work(j).day, p)}
\* Every billable entry that shares a charged period with one asked about.
Peers(asked) ==
    {i \in There : /\ Work(i).billable
                   /\ \E a \in Agreements : \E p \in periods[a] :
                        Within(Work(i).day, p) /\ \E j \in asked : Within(Work(j).day, p)}
ValueEntries(asked) ==
    [i \in asked |-> <<Covered(i, asked \cup Peers(asked)), CoveredShare(i, asked \cup Peers(asked))>>]
-----------------------------------------------------------------------------
(* Safety.                                                                 *)

\* What an entry is covered for, and its part of the charge, are the same
\* whichever other entries are asked about with it: the peers are enough.
PeersAreEnough ==
    LET whole == ValueEntries(There)
    IN \A asked \in SUBSET There :
        LET some == ValueEntries(asked) IN \A i \in asked : some[i] = whole[i]

\* A pool is drawn as far as its work goes, and no further.
PoolIsDrawn ==
    \A i \in There : Capped(i) /\ PeriodFor(i) # {} =>
        \A size \in Allotment(i).pool :
            LET pool == Drawn(i, There)
            IN SumFunctionOnSet([j \in pool |-> CoveredSeconds(j, There)], pool)
                   = IF Seconds(pool) < size THEN Seconds(pool) ELSE size

\* "A capped pool is drawn in the order the work was done", however late it is
\* recorded: nothing is covered while earlier work of the pool is not.
DrawnInOrder ==
    \A i \in There : Capped(i) /\ PeriodFor(i) # {} =>
        \A j \in Drawn(i, There) :
            Work(j).day < Work(i).day /\ Covered(i, There) # {0}
                => Covered(j, There) = {Work(j).seconds}

\* A charge is shared out whole among the work it covers, but for what
\* rounding each share to the currency leaves.
ChargeIsSharedOut ==
    \A a \in Agreements : \A p \in periods[a] :
        LET over == {i \in Under({<<a, p>>}, There) : CoveredShare(i, There) # {}}
            shared == SumFunctionOnSet([i \in over |-> CHOOSE s \in CoveredShare(i, There) : TRUE],
                                       over)
        IN over # {} => 2 * shared - 2 * p.charge \in -Cardinality(over)..Cardinality(over)

\* An entry falls under its site's own agreement before the client's, then the
\* latest to start, whatever order the rows come in.  Of two that start on one day
\* the first row stands: nothing orders them, here or in the code.
ClosestAgreement ==
    \A i \in There : \A a \in AgreementFor(i) :
        \A b \in ToSet(rows) : Reaches(b, i) =>
            /\ Deal(b).site # {} => Deal(a).site # {}
            /\ Deal(b).site = Deal(a).site => Deal(b).starts <= Deal(a).starts
=============================================================================
