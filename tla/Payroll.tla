------------------------------- MODULE Payroll -------------------------------
(***************************************************************************)
(* What people are owed, and payments to them: time entries, trips in      *)
(* vehicles people own, and the payments that cover them                   *)
(* (src/routes/api/pay, src/lib/server/pay.ts, src/routes/api/trips,       *)
(* src/routes/api/time/[id], drizzle/0026).                                *)
(*                                                                         *)
(* What is owed is worked out before the transaction that records it, in   *)
(* several reads, and what may be removed is asked before it is removed;   *)
(* anything may be written in between.  What an entry pays is its person's *)
(* rate, and what a trip pays is what its legs come to: how the valuation  *)
(* reaches them is in Figures.  The name of what was removed may be taken  *)
(* again, which the ids of the database never are.  Nothing in the code    *)
(* puts an entry or a leg on an invoice yet, so nothing here is billed;    *)
(* who may ask is left out.                                                *)
(***************************************************************************)
EXTENDS Integers, FiniteSets

CONSTANTS
    People,
    Entries,        \* time entries there come to be
    Trips,          \* trips there come to be
    Vehicles,
    Owner,          \* vehicle: who owns it, if not the business; it never changes
    Uuids,          \* those a page makes for the payment it records
    Requests,       \* bound: payments posted, each once
    Removals,       \* bound: removals under way at once
    MaxParts,       \* bound: work and corrections in one payment
    Figures         \* what work may come to

Payable == Entries \cup Trips
Posts == {"asked", "paid", "work", "owed"}

ASSUME KindsAssumption == Entries \cap Trips = {}
ASSUME OwnerAssumption == Owner \in [Vehicles -> SUBSET People]
ASSUME FiguresAssumption == Figures \subseteq Nat /\ MaxParts \in Nat

VARIABLES
    crew,       \* entry: who worked it; nobody where it is not there
    teams,      \* the entries that are a team's; the others are one person's
    trip,       \* trip: the vehicle and what its legs come to, if it is there
    rate,       \* what an entry pays each of its crew, if a rule reaches them
    payments,   \* uuid: the payment recorded under it
    items,      \* the work payments cover
    corrections,    \* what payments take back or add to earlier ones
    posted,     \* request: how far it is
    removing    \* removal: the work whose removal was found to be allowed

recorded == <<crew, teams, trip, rate>>
paid == <<payments, items, corrections>>
payVars == <<recorded, paid, posted, removing>>

Trip == [vehicle: Vehicles, legs: Figures]
Payment == [user: People]
Item == [uuid: Uuids, user: People, work: Payable, amount: Figures]
Correction == [uuid: Uuids, user: People, of: Uuids, amount: Int]

\* The payment as posted, and what was read of what its person is owed for the
\* work it covers: the rest is read too, and not looked at.
Post == [stage: Posts, uuid: Uuids, user: People, covers: SUBSET Payable,
         correction: SUBSET [of: Uuids, amount: Int],
         before: SUBSET Payable,                \* paid to them already
         drove: [Trips -> SUBSET Vehicles],     \* the trips, before their legs
         owed: [Payable -> SUBSET Figures]]

Rates == {{}} \cup {{f} : f \in Figures}

Untold == [t \in Trips |-> {}]
Nothing == [w \in Payable |-> {}]

PayTypeOK ==
    /\ crew \in [Entries -> SUBSET People]
    /\ teams \subseteq Entries
    /\ trip \in [Trips -> SUBSET Trip]
    /\ rate \in SUBSET Figures
    /\ payments \in [Uuids -> SUBSET Payment]
    /\ items \subseteq Item
    /\ corrections \subseteq Correction
    /\ posted \in [Requests -> SUBSET Post]
    /\ removing \in [Removals -> SUBSET Payable]
-----------------------------------------------------------------------------
PayInit ==
    /\ crew = [e \in Entries |-> {}] /\ teams = {}
    /\ trip = [t \in Trips |-> {}]
    /\ rate \in Rates
    /\ payments = [u \in Uuids |-> {}]
    /\ items = {} /\ corrections = {}
    /\ posted = [r \in Requests |-> {}]
    /\ removing = [c \in Removals |-> {}]

Present(w) == IF w \in Entries THEN crew[w] # {} ELSE trip[w] # {}
PaidFor(w) == \E i \in items : i.work = w
-----------------------------------------------------------------------------
(* The work, and the rules.                                                *)

\* A team is who the page names, or everybody holding a role then.
AddEntry(e, who, team) ==
    /\ crew[e] = {} /\ who # {}
    /\ team \/ Cardinality(who) = 1
    /\ crew' = [crew EXCEPT ![e] = who]
    /\ teams' = IF team THEN teams \cup {e} ELSE teams
    /\ UNCHANGED <<trip, rate, paid, posted, removing>>

\* An entry sent again with one id is the entry there.  A team's is joined by
\* whoever the repeat names besides: the page changed it while the first was on
\* its way, or names nobody and somebody else holds a role by now.  Whether the
\* entry is paid is not asked.
RepeatEntry(e, who) ==
    /\ crew[e] # {} /\ e \in teams
    /\ crew' = [crew EXCEPT ![e] = @ \cup who]
    /\ UNCHANGED <<teams, trip, rate, paid, posted, removing>>

\* A trip sent twice with one id is one trip.
RecordTrip(t, v, legs) ==
    /\ trip[t] = {}
    /\ trip' = [trip EXCEPT ![t] = {[vehicle |-> v, legs |-> legs]}]
    /\ UNCHANGED <<crew, teams, rate, paid, posted, removing>>

Settled(t) == PaidFor(t)

\* PUT: the row is held while it is asked whether it is settled.
ChangeTrip(t, v, legs) ==
    /\ trip[t] # {}
    /\ ~Settled(t)
    /\ trip' = [trip EXCEPT ![t] = {[vehicle |-> v, legs |-> legs]}]
    /\ UNCHANGED <<crew, teams, rate, paid, posted, removing>>

SetRate(r) ==
    /\ rate # r
    /\ rate' = r
    /\ UNCHANGED <<crew, teams, trip, paid, posted, removing>>

\* DELETE, of an entry or a trip: whether it is paid is asked first.
AskRemoval(c, w) ==
    /\ removing[c] = {}
    /\ Present(w) /\ ~PaidFor(w)
    /\ removing' = [removing EXCEPT ![c] = {w}]
    /\ UNCHANGED <<recorded, paid, posted>>

\* Wrong: the row goes, whatever names it.
LetGo(w) == TRUE
\* The foreign keys of an item restrict: what a payment covers stays.
Restricted(w) == ~PaidFor(w)

RemoveWork(c) ==
    /\ \E w \in removing[c] :
        /\ Restricted(w)
        /\ crew' = [e \in Entries |-> IF e = w THEN {} ELSE crew[e]]
        /\ teams' = teams \ {w}
        /\ trip' = [t \in Trips |-> IF t = w THEN {} ELSE trip[t]]
    /\ removing' = [removing EXCEPT ![c] = {}]
    /\ UNCHANGED <<rate, paid, posted>>

\* Settled, or gone, between the question and the delete.
RefuseRemoval(c) ==
    /\ \E w \in removing[c] : ~Restricted(w)
    /\ removing' = [removing EXCEPT ![c] = {}]
    /\ UNCHANGED <<recorded, paid, posted>>
-----------------------------------------------------------------------------
(* A payment recorded.                                                     *)

\* The page lists the work there is, and payments recorded.
Ask(r, u, p, covers, correction) ==
    /\ posted[r] = {}
    /\ Cardinality(covers) + Cardinality(correction) \in 1..MaxParts
    /\ \A w \in covers : Present(w)
    /\ \A c \in correction : payments[c.of] # {}
    /\ posted' = [posted EXCEPT ![r] =
           {[stage |-> "asked", uuid |-> u, user |-> p, covers |-> covers,
             correction |-> correction, before |-> {}, drove |-> Untold, owed |-> Nothing]}]
    /\ UNCHANGED <<recorded, paid, removing>>

Step(r, post) == posted' = [posted EXCEPT ![r] = {post}]

\* owed: what is paid already.
PaidTo(post) == {w \in post.covers : \E i \in items : i.user = post.user /\ i.work = w}

ReadPaid(r) ==
    /\ \E post \in posted[r] :
        /\ post.stage = "asked"
        /\ Step(r, [post EXCEPT !.stage = "paid", !.before = PaidTo(post)])
    /\ UNCHANGED <<recorded, paid, removing>>

\* owed: the entries and what each pays; then the trips, each in its vehicle.
EntryOwed(post, e) ==
    IF e \in post.covers \ post.before /\ post.user \in crew[e]
    THEN rate \ {0} ELSE {}
Drove(post, t) ==
    {x.vehicle : x \in {x \in trip[t] : /\ t \in post.covers \ post.before
                                         /\ post.user \in Owner[x.vehicle]}}

ReadWork(r) ==
    /\ \E post \in posted[r] :
        /\ post.stage = "paid"
        /\ Step(r, [post EXCEPT !.stage = "work",
               !.owed = [w \in Payable |-> IF w \in Entries THEN EntryOwed(post, w) ELSE {}],
               !.drove = [t \in Trips |-> Drove(post, t)]])
    /\ UNCHANGED <<recorded, paid, removing>>

\* owed: what the legs of those trips come to.
ReadLegs(r) ==
    /\ \E post \in posted[r] :
        /\ post.stage = "work"
        /\ Step(r, [post EXCEPT !.stage = "owed", !.before = {}, !.drove = Untold,
               !.owed = [w \in Payable |->
                   IF w \in Trips
                   THEN IF post.drove[w] = {} THEN {} ELSE {x.legs : x \in trip[w]} \ {0}
                   ELSE post.owed[w]]])
    /\ UNCHANGED <<recorded, paid, removing>>

\* An item to each piece of work, of what was owed for it.
RowsOf(post) ==
    {i \in Item : i.uuid = post.uuid /\ i.user = post.user
                    /\ i.work \in post.covers /\ i.amount \in post.owed[i.work]}

\* Wrong: paid when what is owed was read, and not since.
PaidBefore(post) == \E w \in post.covers : post.owed[w] = {}
\* The unique indexes: a piece of work is paid to a person once.
PaidMeanwhile(post) == \E i \in items : i.user = post.user /\ i.work \in post.covers

AllOwed(post) == post.stage = "owed" /\ \A w \in post.covers : post.owed[w] # {}

\* Wrong: a correction to anybody's payment.
Anyones(post) == \A c \in post.correction : payments[c.of] # {}
\* A correction is to an earlier payment of theirs.  That it is dated no later,
\* and that the part of the business is one there, are left to Answer.
Theirs(post) == \A c \in post.correction : \E m \in payments[c.of] : m.user = post.user

Taken(post) == payments[post.uuid] # {}

\* The foreign keys: the work is still there.
StillThere(post) == \A w \in post.covers : Present(w)

Record(r) ==
    /\ \E post \in posted[r] :
        /\ AllOwed(post) /\ Theirs(post) /\ ~Taken(post)
        /\ ~PaidMeanwhile(post) /\ StillThere(post)
        /\ payments' = [payments EXCEPT ![post.uuid] = {[user |-> post.user]}]
        /\ items' = items \cup RowsOf(post)
        /\ corrections' = corrections \cup
               {[uuid |-> post.uuid, user |-> post.user, of |-> c.of, amount |-> c.amount] :
                    c \in post.correction}
    /\ posted' = [posted EXCEPT ![r] = {}]
    /\ UNCHANGED <<recorded, removing>>

\* Told it is recorded: a repeat; or what cannot be: something not owed, paid
\* just now or gone, a correction to a payment not theirs, or one of a date or
\* a part it may not have.
Answer(r) ==
    /\ \E post \in posted[r] :
        /\ post.stage = "owed"
        /\ ~AllOwed(post) \/ ~Theirs(post) \/ Taken(post)
            \/ PaidMeanwhile(post) \/ ~StillThere(post) \/ post.correction # {}
    /\ posted' = [posted EXCEPT ![r] = {}]
    /\ UNCHANGED <<recorded, paid, removing>>

PayNext ==
    \/ \E e \in Entries, who \in SUBSET People :
           (\E team \in BOOLEAN : AddEntry(e, who, team)) \/ RepeatEntry(e, who)
    \/ \E t \in Trips, v \in Vehicles, legs \in Figures :
           RecordTrip(t, v, legs) \/ ChangeTrip(t, v, legs)
    \/ \E r \in Rates : SetRate(r)
    \/ \E c \in Removals : (\E w \in Payable : AskRemoval(c, w)) \/ RemoveWork(c) \/ RefuseRemoval(c)
    \/ \E r \in Requests :
        \/ \E u \in Uuids, p \in People, covers \in SUBSET Payable,
              correction \in {{}} \cup {{[of |-> o, amount |-> 1]} : o \in Uuids} :
               Ask(r, u, p, covers, correction)
        \/ ReadPaid(r) \/ ReadWork(r) \/ ReadLegs(r) \/ Record(r) \/ Answer(r)

PaySpec == PayInit /\ [][PayNext]_payVars
-----------------------------------------------------------------------------
(* Safety.                                                                 *)

\* A piece of work is paid to a person once, however many pages record it.
PaidOnce == \A i, j \in items : i.user = j.user /\ i.work = j.work => i = j

\* What a payment covers is not lost to it by someone who found it unpaid a
\* moment before: an entry is not removed, nobody comes off it, and nobody joins
\* it but by a repeat of a team's, which asks nothing of payments; and a trip is
\* neither changed nor removed.
PaidStays ==
    [][\A i \in items : /\ i.work \in Entries => crew[i.work] \subseteq crew'[i.work]
                        /\ i.work \in Entries \ teams => crew'[i.work] = crew[i.work]
                        /\ i.work \in Trips => trip'[i.work] = trip[i.work]]_payVars

\* An item and a correction are of a payment recorded, to its person; and what
\* an item covers is there.
ItemsAreOfPayments ==
    /\ \A i \in items \cup corrections : payments[i.uuid] = {[user |-> i.user]}
    /\ \A i \in items : Present(i.work)
    /\ \A c \in corrections : payments[c.of] = {[user |-> c.user]}
=============================================================================
