-------------------------------- MODULE Trips --------------------------------
(***************************************************************************)
(* A trip, from the form it is written down in (src/lib/trip/TripForm      *)
(* .svelte) through the phone's store to the legs it is recorded as        *)
(* (src/lib/trip-legs.ts, src/lib/server/trip-write.ts), and back into the *)
(* form to be changed.                                                     *)
(*                                                                         *)
(* One trip, from the base and back to it.  Who may change it, and what    *)
(* settles it, are in Payroll; a newer copy in the store than the one out, *)
(* in CaptureQueue; so a trip with a copy waiting is opened from it.       *)
(* Miles are in hundredths.                                                *)
(***************************************************************************)
EXTENDS Integers, SequencesExt, FiniteSetsExt, Functions

CONSTANTS
    Clients,
    Base,
    There,          \* what a stop may be: its place, and who it is for
    Typed,          \* miles a person may type
    Known,          \* two places: the miles last driven between them, if any were
    RoundTrip,      \* place: the miles of its round trip from the base, if it has one
    Road(_, _),     \* what Google says from one place to another, if asked
    MaxStops,       \* bound: stops of the trip
    MaxTaps         \* bound: changes made in the form, a new trip's stops apart

\* A client of two sites at one address is one visit, as the server keeps it.
ASSUME ThereAssumption == \A s \in There : s.for \in Seq(Clients) /\ IsInjective(s.for)
ASSUME MilesAssumption ==
    /\ Typed \subseteq Nat
    /\ \A key \in DOMAIN Known : Known[key] \in Nat
    /\ \A p \in {s.place : s \in There} \ {Base} : RoundTrip[p] \subseteq Nat
    /\ \A p, q \in {Base} \cup {s.place : s \in There} : Road(p, q) \in Nat

VARIABLES
    form,           \* the form, while it is open
    store,          \* the copy waiting on the phone, if one is
    trip,           \* what is recorded, once it is
    taps            \* how many changes have been made

vars == <<form, store, trip, taps>>
phone == <<store, trip>>

\* Nothing, or one of S.
Maybe(S) == {{}} \cup {{x} : x \in S}

Places == {Base} \cup {s.place : s \in There}
\* A drive either way is one key.
Keys == {{p, q} : p, q \in Places}

Init ==
    /\ form = {}
    /\ store = {}
    /\ trip = {}
    /\ taps = 0
-----------------------------------------------------------------------------
(* The drives of a trip, and the legs they are.                            *)

PlacesOf(stops) == <<Base>> \o [i \in DOMAIN stops |-> stops[i].place] \o <<Base>>
DrivesOf(stops) == 1..(Len(stops) + 1)
KeyOf(stops, i) == {PlacesOf(stops)[i], PlacesOf(stops)[i + 1]}

\* Those of s that are in T, in the order they come.
Among(T, s) == FoldLeft(LAMBDA kept, x : IF x \in T THEN Append(kept, x) ELSE kept, <<>>, s)

\* Who a stop was for that asked before the driver left.
CausedBy(stop) ==
    LET asked == Among({v \in ToSet(stop.visits) : ~v.askedThere}, stop.visits)
    IN [k \in DOMAIN asked |-> asked[k].client]

\* The first parts take what does not divide.
Shares(miles, ways) ==
    [k \in 1..ways |-> miles \div ways + (IF k <= miles % ways THEN 1 ELSE 0)]

\* The way back is caused by whoever the last stop was for.
Caused(stops, i) == CausedBy(stops[IF i > Len(stops) THEN Len(stops) ELSE i])

RuleOf(stops, drive, who, i) ==
    CASE drive.to # {} -> "chosen"
      [] drive.to = {} /\ who = <<>> -> "unassigned"
      [] drive.to = {} /\ Len(who) > 1 -> "split"
      [] drive.to = {} /\ Len(who) = 1 /\ Len(stops) = 1 -> "round_trip"
      [] drive.to = {} /\ Len(who) = 1 /\ Len(stops) > 1 ->
            IF i = 1 THEN "house_to_a" ELSE IF i > Len(stops) THEN "b_to_house" ELSE "a_to_b"

LegsOfDrive(stops, drive, i) ==
    LET who == IF drive.to # {} THEN CHOOSE to \in drive.to : TRUE ELSE Caused(stops, i)
        rule == RuleOf(stops, drive, who, i)
    IN IF who = <<>>
       THEN <<[drive |-> i, client |-> {}, rule |-> rule, miles |-> drive.miles]>>
       ELSE [k \in DOMAIN who |-> [drive |-> i, client |-> {who[k]}, rule |-> rule,
                                   miles |-> Shares(drive.miles, Len(who))[k]]]

LegsOf(stops, drives) ==
    FlattenSeq([i \in DrivesOf(stops) |-> LegsOfDrive(stops, drives[i], i)])

LegsFor(legs, i) == Among({l \in ToSet(legs) : l.drive = i}, legs)
MilesOf(legs, i) ==
    LET mine == LegsFor(legs, i)
    IN SumFunctionOnSet([k \in DOMAIN mine |-> mine[k].miles], DOMAIN mine)
-----------------------------------------------------------------------------
(* The form.  What is typed for a drive, and who it is given to, is kept   *)
(* by the two places it runs between.                                      *)

Blank == [stops |-> <<>>, typed |-> <<>>, given |-> <<>>, google |-> FALSE, change |-> FALSE]

\* To a tenth of a mile.
Tenth(m) == ((m + 5) \div 10) * 10
Half(m) == ((m + 10) \div 20) * 10

Estimate(key) ==
    IF key \in DOMAIN Known THEN {Tenth(Known[key])}
    ELSE IF Base \in key
         THEN UNION {{Half(m) : m \in RoundTrip[p]} : p \in key \ {Base}} ELSE {}

Route(stops, i) == Road(PlacesOf(stops)[i], PlacesOf(stops)[i + 1])

MilesShown(f, i) ==
    LET key == KeyOf(f.stops, i)
    IN IF key \in DOMAIN f.typed THEN {f.typed[key]}
       ELSE IF f.google THEN {Route(f.stops, i)} ELSE Estimate(key)

\* Wrong: what somebody typed is said to be an estimate too.
AnyButGoogles(f, key) == ~f.google
\* Its miles are an estimate, which Google's route takes the place of.
Estimated(f, key) == key \notin DOMAIN f.typed /\ ~f.google

GivenTo(f, key) == {f.given[k] : k \in {key} \cap DOMAIN f.given}

Complete(f) == f.stops # <<>> /\ \A i \in DrivesOf(f.stops) : MilesShown(f, i) # {}

Body(f) ==
    [stops |-> f.stops,
     drives |-> [i \in DrivesOf(f.stops) |->
        LET key == KeyOf(f.stops, i)
        IN [miles |-> CHOOSE m \in MilesShown(f, i) : TRUE,
            to |-> GivenTo(f, key), estimated |-> Estimated(f, key)]]]

OpenNew ==
    /\ form = {} /\ store = {} /\ trip = {}
    /\ form' = {Blank}
    /\ UNCHANGED <<phone, taps>>

\* A trip waiting on the phone opens as it was filled in.
Fix ==
    /\ form = {}
    /\ \E copy \in store : form' = {copy.draft}
    /\ UNCHANGED <<phone, taps>>

\* Wrong: a drive nobody caused is taken to be given to nobody.
ByHandOrNobody(legs) == \A l \in legs : l.rule \in {"chosen", "unassigned"}
ByHand(legs) == \A l \in legs : l.rule = "chosen"

\* The legs of the drives between two places.  Where there is more than one
\* drive, the form keeps the last.
LastBetween(row, key) == Max({i \in DrivesOf(row.stops) : KeyOf(row.stops, i) = key})

\* A saved trip as the form opens it; who was at a stop comes in any order.
Opened(row, stops) ==
    LET keys == {KeyOf(row.stops, i) : i \in DrivesOf(row.stops)}
        legs == [key \in keys |-> LegsFor(row.legs, LastBetween(row, key))]
        chosen == {key \in keys : ByHand(ToSet(legs[key]))}
        to(key) == Among({l \in ToSet(legs[key]) : l.client # {}}, legs[key])
    IN [stops |-> stops,
        typed |-> [key \in keys |-> MilesOf(row.legs, LastBetween(row, key))],
        given |-> [key \in chosen |->
            [k \in DOMAIN to(key) |-> CHOOSE c \in to(key)[k].client : TRUE]],
        google |-> FALSE, change |-> TRUE]

Reordered(stops) ==
    {s \in [DOMAIN stops -> UNION {
                {[place |-> stops[i].place, visits |-> v] : v \in SetToSeqs(ToSet(stops[i].visits))} :
                    i \in DOMAIN stops}] :
        \A i \in DOMAIN stops :
            s[i].place = stops[i].place /\ ToSet(s[i].visits) = ToSet(stops[i].visits)}

OpenChange ==
    /\ form = {} /\ store = {}
    /\ \E row \in trip : \E stops \in Reordered(row.stops) : form' = {Opened(row, stops)}
    /\ UNCHANGED <<phone, taps>>

Close ==
    /\ form # {}
    /\ form' = {}
    /\ UNCHANGED <<phone, taps>>

Tap(changed) ==
    /\ taps < MaxTaps
    /\ taps' = taps + 1
    /\ form' = {changed}
    /\ UNCHANGED phone

AddStop ==
    \E f \in form, s \in There :
        /\ Len(f.stops) < MaxStops
        /\ taps < MaxTaps \/ ~f.change
        /\ taps' = IF f.change THEN taps + 1 ELSE taps
        /\ form' = {[f EXCEPT !.google = FALSE, !.stops = Append(@,
               [place |-> s.place,
                visits |-> [k \in DOMAIN s.for |-> [client |-> s.for[k], askedThere |-> FALSE]]])]}
        /\ UNCHANGED phone

\* Its drives go with it; what was typed and given stays, by its places.
RemoveStop ==
    \E f \in form : \E i \in DOMAIN f.stops :
        Tap([f EXCEPT !.google = FALSE, !.stops = RemoveAt(@, i)])

\* Asked of one of two or more at a stop: of two, of the second.
AskedThere ==
    \E f \in form : \E i \in DOMAIN f.stops : \E k \in DOMAIN f.stops[i].visits :
        /\ Len(f.stops[i].visits) > 1
        /\ Len(f.stops[i].visits) = 2 => k = 2
        /\ Tap([f EXCEPT !.stops[i].visits[k].askedThere = ~@])

TypeMiles ==
    \E f \in form : \E i \in DrivesOf(f.stops), m \in Typed :
        /\ f.stops # <<>>
        /\ Tap([f EXCEPT !.typed =
               [key \in DOMAIN @ \cup {KeyOf(f.stops, i)} |->
                   IF key = KeyOf(f.stops, i) THEN m ELSE @[key]]])

ClientsOf(stops) == UNION {{v.client : v \in ToSet(stops[i].visits)} : i \in DOMAIN stops}

\* To one of the trip's clients, to nobody, or back to the rule.
GiveTo ==
    \E f \in form : \E i \in DrivesOf(f.stops) :
        \E to \in Maybe({<<>>} \cup {<<c>> : c \in ClientsOf(f.stops)}) :
            /\ ClientsOf(f.stops) # {}
            /\ Tap([f EXCEPT !.given =
                   [key \in (DOMAIN @ \ {KeyOf(f.stops, i)})
                            \cup {k \in {KeyOf(f.stops, i)} : to # {}} |->
                       IF key = KeyOf(f.stops, i) THEN CHOOSE t \in to : TRUE ELSE @[key]]])

\* Google's answer for the places there are now comes, or one for the places
\* there were before takes its place.
AnswerRoute ==
    /\ \E f \in form : f.stops # <<>> /\ form' = {[f EXCEPT !.google = ~@]}
    /\ UNCHANGED <<phone, taps>>

\* Written on the phone in place of any waiting, and the form left.
Save ==
    /\ \E f \in form :
        /\ Complete(f)
        /\ store' = {[body |-> Body(f), draft |-> [f EXCEPT !.google = FALSE], refused |-> FALSE]}
    /\ form' = {}
    /\ UNCHANGED <<trip, taps>>

LetGo ==
    /\ store # {}
    /\ store' = {}
    /\ UNCHANGED <<form, trip, taps>>
-----------------------------------------------------------------------------
(* The server.                                                             *)

\* Wrong: whoever a drive is given to is taken.
NobodyElse(body) == TRUE
\* A drive is given to someone the trip was for.
GivenToTheirs(body) ==
    \A i \in DrivesOf(body.stops) : \A to \in body.drives[i].to : ToSet(to) \subseteq ClientsOf(body.stops)

WithRoute(body, answers) ==
    [i \in DOMAIN body.drives |->
        [body.drives[i] EXCEPT
            !.miles = IF body.drives[i].estimated /\ answers THEN Route(body.stops, i) ELSE @]]

\* With what its drives were typed and given as, which is not kept.
Written(body, draft, answers) ==
    LET keys == {KeyOf(draft.stops, i) : i \in DrivesOf(draft.stops)}
    IN [stops |-> body.stops,
        legs |-> LegsOf(body.stops, WithRoute(body, answers)),
        typed |-> Restrict(draft.typed, keys \cap DOMAIN draft.typed),
        given |-> Restrict(draft.given, keys \cap DOMAIN draft.given)]

\* A trip sent twice with one id is one trip: a repeat of a new one writes
\* nothing.  Taken out of the store, unless the answer is lost and it is sent again.
Take ==
    /\ \E copy \in store, answers \in BOOLEAN :
        /\ ~copy.refused /\ GivenToTheirs(copy.body)
        /\ trip' = IF trip # {} /\ ~copy.draft.change THEN trip
                   ELSE {Written(copy.body, copy.draft, answers)}
    /\ store' \in {store, {}}
    /\ UNCHANGED <<form, taps>>

\* For a drive given away, or for what Trips leaves out: a day, a service, a
\* client gone.
Refuse ==
    /\ store' = {[copy EXCEPT !.refused = TRUE] : copy \in store}
    /\ store' # store
    /\ UNCHANGED <<form, trip, taps>>

Next ==
    \/ OpenNew \/ OpenChange \/ Fix \/ Close \/ Save \/ LetGo
    \/ AddStop \/ RemoveStop \/ AskedThere \/ TypeMiles \/ GiveTo \/ AnswerRoute
    \/ Take \/ Refuse

Spec == Init /\ [][Next]_vars
-----------------------------------------------------------------------------
(* Safety.                                                                 *)

\* "A trip never bills more miles than were driven" (trip-legs.ts), nor fewer:
\* each drive's legs come to the miles typed for it, where any were, or to an
\* estimate's or Google's, and are even to the hundredth.
DrivesAddUp ==
    \A row \in trip : \A i \in DrivesOf(row.stops) :
        LET key == KeyOf(row.stops, i)
            legs == ToSet(LegsFor(row.legs, i))
        IN /\ IF key \in DOMAIN row.typed
              THEN MilesOf(row.legs, i) = row.typed[key]
              ELSE MilesOf(row.legs, i) \in {Route(row.stops, i)} \cup Estimate(key)
           /\ \A l, m \in legs : l.miles - m.miles \in -1..1

\* A client is charged for a drive given to them, or for one they asked for
\* before it: never for a drive of a stop taken off, nor one "happening anyway".
OnlyCausersPay ==
    \A row \in trip : \A l \in ToSet(row.legs) : \A c \in l.client :
        LET key == KeyOf(row.stops, l.drive)
        IN /\ c \in ClientsOf(row.stops)
           /\ IF key \in DOMAIN row.given THEN c \in ToSet(row.given[key])
              ELSE [client |-> c, askedThere |-> FALSE]
                       \in ToSet(row.stops[Min({l.drive, Len(row.stops)})].visits)

OneLength(row) ==
    \A i, j \in DrivesOf(row.stops) :
        KeyOf(row.stops, i) = KeyOf(row.stops, j) => MilesOf(row.legs, i) = MilesOf(row.legs, j)

\* What drive i charges whom, but for the hundredth the first of them takes.
Charged(legs, i) ==
    {[client |-> l.client, rule |-> l.rule, of |-> Cardinality({m \in ToSet(legs) : m.drive = i})] :
        l \in {m \in ToSet(legs) : m.drive = i}}

\* A saved trip opened and saved again untouched is the trip it was, where
\* drives between the same two places were as long: what was typed, given by
\* hand and left to the rule comes back as it was.
ReopensTheSame ==
    \A row \in trip : OneLength(row) =>
        \A stops \in Reordered(row.stops) :
            LET legs == LegsOf(stops, Body(Opened(row, stops)).drives)
            IN \A i \in DrivesOf(row.stops) :
                /\ MilesOf(legs, i) = MilesOf(row.legs, i)
                /\ Charged(legs, i) = Charged(row.legs, i)

\* "A saved trip, back in the form as it was saved: ... each drive's miles as
\* recorded" (trips/[id]/change), where out and back differ too.
OpensAsSaved ==
    \A row \in trip :
        LET drives == Body(Opened(row, row.stops)).drives
        IN \A i \in DrivesOf(row.stops) : drives[i].miles = MilesOf(row.legs, i)
=============================================================================
